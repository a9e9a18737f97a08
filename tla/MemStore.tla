------------------------------ MODULE MemStore ------------------------------
(***************************************************************************)
(* db/memstore.go: the store kept in memory, its maps as functions and its *)
(* log as a sequence.  Operators have the names and parameters of those of *)
(* PostgresStore; where the code sums in a loop over a map, they fold over *)
(* its range in any order.  Every method holds the store's mutex, so each  *)
(* is one step.                                                            *)
(***************************************************************************)
EXTENDS StoreRows, SequencesExt

\* A map without entries.
None == [k \in {} |-> 0]

EmptyStore == [sessions |-> None, logs |-> <<>>, projects |-> None, logSeq |-> 0]

Put(map, k, v) == [j \in DOMAIN map \cup {k} |-> IF j = k THEN v ELSE map[j]]
Values(map) == {map[k] : k \in DOMAIN map}

\* A method that returns an error for a session it does not have.
ChangeSession(m, id, F(_)) ==
  IF id \in DOMAIN m.sessions THEN [m EXCEPT !.sessions[id] = F(@)] ELSE m

-----------------------------------------------------------------------------
(* SessionWriter *)

CompleteRunningSessions(m, now) ==
  [m EXCEPT !.sessions = [id \in DOMAIN @ |->
     IF Open(@[id]) THEN [@[id] EXCEPT !.status = "complete", !.finished = now] ELSE @[id]]]

\* Mutant: the row keeps its end.
ReopenSessionOnly(m, id) == ChangeSession(m, id, LAMBDA s : [s EXCEPT !.status = "pending"])
ReopenSession(m, id) ==
  ChangeSession(m, id, LAMBDA s : [s EXCEPT !.status = "pending", !.err = "", !.finished = 0])

\* Mutant: a project that is there keeps its empty directory.
InsertSessionKeepsProject(m, id, opts, at) ==
  LET p == opts.project
      projects == IF p \in DOMAIN m.projects THEN m.projects
                  ELSE Put(m.projects, p, [NewProject(p) EXCEPT !.fields["dir"] = opts.dir])
  IN  [m EXCEPT !.projects = projects, !.sessions = Put(@, id, NewSession(id, opts, at))]
\* The session's project is made when it is not there; its dir is filled in when it is empty.
InsertSession(m, id, opts, at) ==
  LET p == opts.project
      projects == IF p \notin DOMAIN m.projects
                  THEN Put(m.projects, p, [NewProject(p) EXCEPT !.fields["dir"] = opts.dir])
                  ELSE IF m.projects[p].fields["dir"] = ""
                       THEN [m.projects EXCEPT ![p].fields["dir"] = opts.dir]
                       ELSE m.projects
  IN  [m EXCEPT !.projects = projects, !.sessions = Put(@, id, NewSession(id, opts, at))]

SetACPSessionID(m, id, acp) == ChangeSession(m, id, LAMBDA s : [s EXCEPT !.acp = acp])

UpdateSession(m, id, info) == ChangeSession(m, id, LAMBDA s : WithInfo(s, info))

FinishSession(m, id, info, err, now) ==
  ChangeSession(m, id, LAMBDA s : [WithInfo(s, info) EXCEPT !.err = err, !.finished = now])

AddPromptDuration(m, id, d) == ChangeSession(m, id, LAMBDA s : [s EXCEPT !.dur = @ + d])

\* No session is asked for.
InsertLog(m, id, type, payload, now) ==
  [m EXCEPT !.logSeq = @ + 1,
            !.logs = Append(@, [id |-> m.logSeq + 1, session |-> id, type |-> type,
                                payload |-> payload, at |-> now])]

-----------------------------------------------------------------------------
(* SessionReader *)

\* The sessions a loop collects, sorted by CreatedAt, the latest first.
Collect(m, P(_)) ==
  SetToSortSeq({s \in Values(m.sessions) : P(s)}, LAMBDA a, b : a.created > b.created)

ListSessions(m) == Collect(m, LAMBDA s : TRUE)

\* all[offset:end], with both clamped to the number of sessions.
ListSessionsPage(m, limit, offset) ==
  LET all == ListSessions(m)
      total == Len(all)
      from == IF offset > total THEN total ELSE offset
      end == IF from + limit < total THEN from + limit ELSE total
  IN  <<SubSeq(all, from + 1, end), total>>

ListSessionsByDir(m, dir) == Collect(m, LAMBDA s : s.dir = dir)
ListSessionsByProject(m, name) == Collect(m, LAMBDA s : s.project = name)

GetSession(m, id) == IF id \in DOMAIN m.sessions THEN {m.sessions[id]} ELSE {}

GetSessionLogs(m, id) == SelectSeq(m.logs, LAMBDA l : l.session = id)
GetLog(m, n) == {m.logs[i] : i \in {j \in DOMAIN m.logs : m.logs[j].id = n}}
GetLogsByToolCallID(m, id, call) ==
  SelectSeq(m.logs, LAMBDA l : /\ l.session = id
                               /\ l.type \in {"tool_call", "tool_call_update"}
                               /\ l.payload.call = call)
GetPromptTexts(m, id) ==
  FoldLeft(LAMBDA texts, l : IF l.session = id /\ l.type = "prompt"
                             THEN Append(texts, l.payload.text) ELSE texts,
           <<>>, m.logs)

-----------------------------------------------------------------------------
(* Statistics: a map from a key to the sums so far, built up row by row. *)

NoTotals == [sessions |-> 0, count |-> 0, tokens |-> 0, cost |-> 0]

AddRow(sum, s) ==
  [sessions |-> sum.sessions + 1, count |-> sum.count + s.usage.count,
   tokens |-> sum.tokens + s.usage.tokens, cost |-> sum.cost + s.usage.cost]

Lookup(map, k, default) == IF k \in DOMAIN map THEN map[k] ELSE default

\* for s in sessions { if P(s) { sums[Key(s)] += s } }
Accumulate(m, P(_), Key(_)) ==
  FoldSet(LAMBDA s, sums :
            IF P(s) THEN Put(sums, Key(s), AddRow(Lookup(sums, Key(s), NoTotals), s)) ELSE sums,
          None, Values(m.sessions))

OfAgent(s, agent) == agent = "" \/ s.agent = agent

\* The first instant of the month, months - 1 before this one.
Cutoff(now, months) == (MonthOf(now) - (months - 1)) * DaysPerMonth * Ticks

GetMonthlyStatsByDir(m, now, months, agent) ==
  LET sums == Accumulate(m, LAMBDA s : s.created >= Cutoff(now, months) /\ OfAgent(s, agent),
                         LAMBDA s : <<MonthOf(s.created), s.dir>>)
  IN  {[month |-> k[1], dir |-> k[2], sum |-> sums[k]] : k \in DOMAIN sums}

\* since is an instant here, and days without a session have no row.
GetDailyStats(m, now, since, agent) ==
  LET sums == Accumulate(m, LAMBDA s : s.created >= since /\ OfAgent(s, agent),
                         LAMBDA s : DayOf(s.created))
  IN  {[day |-> d, sum |-> sums[d]] : d \in DOMAIN sums}

GetModelStats(m, since) ==
  LET P(s) == s.created >= since /\ s.model # ""
      Key(s) == <<s.agent, s.model>>
      sums == Accumulate(m, P, Key)
      durs == FoldSet(LAMBDA s, d : IF P(s) THEN Put(d, Key(s), Lookup(d, Key(s), 0) + s.dur)
                                    ELSE d, None, Values(m.sessions))
  IN  {[agent |-> k[1], model |-> k[2], sum |-> sums[k], dur |-> durs[k]] : k \in DOMAIN sums}

\* topN: the map sorted by count, cut off after n; all of those that tie at the cut.
topN(counts, n) ==
  {[name |-> k, count |-> counts[k]] :
     k \in {j \in DOMAIN counts :
              Cardinality({i \in DOMAIN counts : counts[i] > counts[j]}) < n}}

GetInsights(m, since) ==
  LET calls == SelectSeq(m.logs, LAMBDA l : l.at >= since /\ l.type = "tool_call")
      Tally(Name(_)) == FoldLeft(LAMBDA c, l : IF Name(l) = "" THEN c
                                               ELSE Put(c, Name(l), Lookup(c, Name(l), 0) + 1),
                                 None, calls)
      tools == Tally(LAMBDA l : l.payload.title)
      skills == Tally(LAMBDA l : l.payload.skill)
      SumUp(counts) == FoldSet(LAMBDA k, n : n + counts[k], 0, DOMAIN counts)
      done == {s \in Values(m.sessions) : s.finished # 0 /\ s.created >= since}
  IN  [topTools |-> topN(tools, 10), topSkills |-> topN(skills, 10),
       time |-> FoldSet(LAMBDA s, t : t + (s.finished - s.created), 0, done),
       totalSessions |-> Cardinality(done),
       totalTools |-> SumUp(tools), totalSkills |-> SumUp(skills)]

GetDistinctAgents(m) == {s.agent : s \in Values(m.sessions)}

-----------------------------------------------------------------------------
(* ProjectStore *)

\* The project, made with defaults when it is not there, after a change.
ChangeProject(m, name, F(_)) ==
  [m EXCEPT !.projects = Put(@, name, F(Lookup(@, name, NewProject(name))))]

GetProject(m, name) == ChangeProject(m, name, LAMBDA p : p)
ProjectRow(m, name) == GetProject(m, name).projects[name]

SetProjectField(m, name, field, value) ==
  IF field \notin ProjectFields THEN m
  ELSE ChangeProject(m, name, LAMBDA p : [p EXCEPT !.fields[field] = value])

AppendProjectEnv(m, name, entry) ==
  ChangeProject(m, name, LAMBDA p : [p EXCEPT !.env = Append(@, entry)])

ClearProjectEnv(m, name) ==
  IF name \notin DOMAIN m.projects THEN m
  ELSE [m EXCEPT !.projects[name].env = <<>>]

SetProjectEnv(m, name, entries) ==
  ChangeProject(m, name, LAMBDA p : [p EXCEPT !.env = entries])

\* lastUsed: by key, the latest time one of its sessions was used.
LastUsed(key) ==
  FoldSet(LAMBDA s, last : IF Used(s) > Lookup(last, key[s], 0)
                           THEN Put(last, key[s], Used(s)) ELSE last,
          None, DOMAIN key)

ListProjects(m, rank) ==
  LET running == {s.project : s \in {t \in Values(m.sessions) : Open(t)}}
      last == LastUsed([s \in Values(m.sessions) |-> s.project])
      rows == {[name |-> p.name, dir |-> p.fields["dir"], agent |-> p.fields["agent"],
                running |-> p.name \in running, last |-> Lookup(last, p.name, 0)] :
                 p \in Values(m.projects)}
  IN  SetToSortSeq(rows, LAMBDA a, b : IF a.last # b.last THEN a.last > b.last
                                       ELSE rank[a.name] < rank[b.name])

ListProjectDirs(m, rank) ==
  LET placed == {s \in Values(m.sessions) : s.dir # ""}
      running == {s.dir : s \in {t \in placed : Open(t)}}
      last == LastUsed([s \in placed |-> s.dir])
      Before(a, b) == IF last[a] # last[b] THEN last[a] > last[b] ELSE rank[a] < rank[b]
      order == SetToSortSeq({s.dir : s \in placed}, Before)
  IN  [i \in DOMAIN order |-> [dir |-> order[i], running |-> order[i] \in running]]
=============================================================================
