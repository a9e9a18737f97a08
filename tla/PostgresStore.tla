--------------------------- MODULE PostgresStore ---------------------------
(***************************************************************************)
(* db/store.go and db/store_projects.go: every statement as an operator    *)
(* over the tables.  A statement that writes returns the tables after it;  *)
(* a query returns its rows, in a sequence where the caller relies on the  *)
(* order and in a set where ORDER BY only sorts what is shown.             *)
(*                                                                         *)
(* Each operator is one SQL statement and so one step; InsertSession and   *)
(* GetProject are two statements each, whose first (the project row) can   *)
(* only be repeated without effect.  A failing database is not modelled:   *)
(* the callers log the error and go on.                                    *)
(***************************************************************************)
EXTENDS StoreRows, SequencesExt

\* The tables: session and project are sets of rows with a primary key; log has a
\* sequence for its ids that a refused INSERT consumes too.
EmptyTables == [session |-> {}, project |-> {}, log |-> {}, nextLog |-> 1]

\* UPDATE table SET F WHERE P.
UpdateWhere(table, P(_), F(_)) == {IF P(r) THEN F(r) ELSE r : r \in table}

\* INSERT ... ON CONFLICT (name) DO UPDATE SET F.
UpsertProject(db, name, new, F(_)) ==
  IF \E p \in db.project : p.name = name
  THEN [db EXCEPT !.project = UpdateWhere(@, LAMBDA p : p.name = name, F)]
  ELSE [db EXCEPT !.project = @ \cup {new}]

Session(db, id) == CHOOSE r \in db.session : r.id = id
HasSession(db, id) == \E r \in db.session : r.id = id

UpdateRow(db, id, F(_)) == [db EXCEPT !.session = UpdateWhere(@, LAMBDA r : r.id = id, F)]

-----------------------------------------------------------------------------
(* SessionWriter *)

CompleteRunningSessions(db, now) ==
  [db EXCEPT !.session = UpdateWhere(@, Open,
     LAMBDA r : [r EXCEPT !.status = "complete", !.finished = now])]

ReopenSession(db, id) ==
  UpdateRow(db, id, LAMBDA r : [r EXCEPT !.status = "pending", !.err = "", !.finished = 0])

\* The project's row comes first; its dir is filled in when it is empty.
InsertSession(db, id, opts, at) ==
  LET new == [NewProject(opts.project) EXCEPT !.fields["dir"] = opts.dir]
      ensured == UpsertProject(db, opts.project, new,
                   LAMBDA p : IF p.fields["dir"] = "" THEN [p EXCEPT !.fields["dir"] = opts.dir]
                              ELSE p)
  IN  IF HasSession(db, id) THEN ensured          \* primary key
      ELSE [ensured EXCEPT !.session = @ \cup {NewSession(id, opts, at)}]

SetACPSessionID(db, id, acp) == UpdateRow(db, id, LAMBDA r : [r EXCEPT !.acp = acp])

UpdateSession(db, id, info) == UpdateRow(db, id, LAMBDA r : WithInfo(r, info))

FinishSession(db, id, info, err, now) ==
  UpdateRow(db, id, LAMBDA r : [WithInfo(r, info) EXCEPT !.err = err, !.finished = now])

AddPromptDuration(db, id, d) == UpdateRow(db, id, LAMBDA r : [r EXCEPT !.dur = @ + d])

\* The foreign key refuses an entry without its session.
InsertLog(db, id, type, payload, now) ==
  LET entry == [id |-> db.nextLog, session |-> id, type |-> type, payload |-> payload,
                at |-> now]
  IN  [db EXCEPT !.nextLog = @ + 1,
                 !.log = IF HasSession(db, id) THEN @ \cup {entry} ELSE @]

-----------------------------------------------------------------------------
(* SessionReader *)

\* The columns every SELECT of sessions names: acp_session_id is not one of them.
Columns(r) == [r EXCEPT !.acp = ""]

\* ORDER BY created_at DESC; no two sessions are created at one instant.
querySessions(rows) ==
  SetToSortSeq({Columns(r) : r \in rows}, LAMBDA a, b : a.created > b.created)

ListSessions(db) == querySessions(db.session)
ListSessionsPage(db, limit, offset) ==
  LET rows == ListSessions(db)
      page == {i \in DOMAIN rows : offset < i /\ i <= offset + limit}
  IN  <<[i \in 1..Cardinality(page) |-> rows[offset + i]], Cardinality(db.session)>>
ListSessionsByDir(db, dir) == querySessions({r \in db.session : r.dir = dir})
ListSessionsByProject(db, name) == querySessions({r \in db.session : r.project = name})

\* The row, or nothing for an error.
GetSession(db, id) == {Columns(r) : r \in {s \in db.session : s.id = id}}

\* ORDER BY created_at; entries are in the order of their ids.
queryLog(db, P(_)) == SetToSortSeq({l \in db.log : P(l)}, LAMBDA a, b : a.id < b.id)

GetSessionLogs(db, id) == queryLog(db, LAMBDA l : l.session = id)
GetLog(db, n) == {l \in db.log : l.id = n}
GetLogsByToolCallID(db, id, call) ==
  queryLog(db, LAMBDA l : /\ l.session = id
                          /\ l.type \in {"tool_call", "tool_call_update"}
                          /\ l.payload.call = call)
GetPromptTexts(db, id) ==
  LET prompts == queryLog(db, LAMBDA l : l.session = id /\ l.type = "prompt")
  IN  [i \in DOMAIN prompts |-> prompts[i].payload.text]

-----------------------------------------------------------------------------
(* Statistics.  SUM and COUNT over a group of rows. *)

SumOf(S, F(_)) == MapThenSumSet(F, S)

Totals(S) == [sessions |-> Cardinality(S),
              count |-> SumOf(S, LAMBDA r : r.usage.count),
              tokens |-> SumOf(S, LAMBDA r : r.usage.tokens),
              cost |-> SumOf(S, LAMBDA r : r.usage.cost)]

OfAgent(r, agent) == agent = "" \/ r.agent = agent

\* The rows of the current month and the months - 1 before it, by month and directory.
GetMonthlyStatsByDir(db, now, months, agent) ==
  LET S == {r \in db.session : /\ MonthOf(r.created) >= MonthOf(now) - (months - 1)
                               /\ r.usage.count > 0
                               /\ OfAgent(r, agent)}
      groups == {<<MonthOf(r.created), r.dir>> : r \in S}
  IN  {[month |-> g[1], dir |-> g[2],
        sum |-> Totals({r \in S : <<MonthOf(r.created), r.dir>> = g})] : g \in groups}

\* generate_series gives a row for every day, LEFT JOIN its sessions, perhaps none.
GetDailyStats(db, now, since, agent) ==
  {[day |-> d, sum |-> Totals({r \in db.session : /\ DayOf(r.created) = d
                                                  /\ OfAgent(r, agent)
                                                  /\ r.usage.count > 0})] :
     d \in DayOf(since)..DayOf(now)}

GetModelStats(db, since) ==
  LET S == {r \in db.session : r.created >= since /\ r.model # "" /\ r.usage.count > 0}
  IN  {[agent |-> g[1], model |-> g[2],
        sum |-> Totals({r \in S : <<r.agent, r.model>> = g}),
        dur |-> SumOf({r \in S : <<r.agent, r.model>> = g}, LAMBDA r : r.dur)] :
         g \in {<<r.agent, r.model>> : r \in S}}

TopLimit == 10

\* GROUP BY key ORDER BY count DESC LIMIT 10; all of those that tie at the limit.
TopCounts(key) ==
  LET Count(k) == Cardinality({l \in DOMAIN key : key[l] = k})
      keys == {key[l] : l \in DOMAIN key}
  IN  {[name |-> k, count |-> Count(k)] :
         k \in {j \in keys : Cardinality({i \in keys : Count(i) > Count(j)}) < TopLimit}}

GetInsights(db, since) ==
  LET calls == {l \in db.log : l.type = "tool_call" /\ l.at >= since}
      titled == {l \in calls : l.payload.title # ""}
      skilled == {l \in calls : l.payload.skill # ""}
      done == {r \in db.session : r.finished # 0 /\ r.usage.count > 0 /\ r.created >= since}
  IN  [topTools |-> TopCounts([l \in titled |-> l.payload.title]),
       topSkills |-> TopCounts([l \in skilled |-> l.payload.skill]),
       time |-> SumOf(done, LAMBDA r : r.finished - r.created),
       totalSessions |-> Cardinality(done),
       totalTools |-> Cardinality(calls),
       totalSkills |-> Cardinality(skilled)]

GetDistinctAgents(db) == {r.agent : r \in db.session}

-----------------------------------------------------------------------------
(* ProjectStore *)

GetProject(db, name) == UpsertProject(db, name, NewProject(name), LAMBDA p : p)
ProjectRow(db, name) == CHOOSE p \in GetProject(db, name).project : p.name = name

SetProjectField(db, name, field, value) ==
  IF field \notin ProjectFields THEN db
  ELSE UpsertProject(db, name, [NewProject(name) EXCEPT !.fields[field] = value],
                     LAMBDA p : [p EXCEPT !.fields[field] = value])

AppendProjectEnv(db, name, entry) ==
  UpsertProject(db, name, [NewProject(name) EXCEPT !.env = <<entry>>],
                LAMBDA p : [p EXCEPT !.env = Append(@, entry)])

ClearProjectEnv(db, name) ==
  [db EXCEPT !.project = UpdateWhere(@, LAMBDA p : p.name = name,
                                     LAMBDA p : [p EXCEPT !.env = <<>>])]

SetProjectEnv(db, name, entries) ==
  UpsertProject(db, name, [NewProject(name) EXCEPT !.env = entries],
                LAMBDA p : [p EXCEPT !.env = entries])

\* The latest of the sessions, 0 without one: projects without a session come last.
LatestUse(S) == IF S = {} THEN 0 ELSE CHOOSE t \in {Used(r) : r \in S} :
                                        \A r \in S : Used(r) <= t

\* ORDER BY last use DESC, name: rank gives the names their order.
ListProjects(db, rank) ==
  LET Of(p) == {r \in db.session : r.project = p.name}
      rows == {[name |-> p.name, dir |-> p.fields["dir"], agent |-> p.fields["agent"],
                running |-> \E r \in Of(p) : Open(r), last |-> LatestUse(Of(p))] :
                 p \in db.project}
  IN  SetToSortSeq(rows, LAMBDA a, b : \/ a.last > b.last
                                       \/ a.last = b.last /\ rank[a.name] < rank[b.name])

ListProjectDirs(db, rank) ==
  LET Of(d) == {r \in db.session : r.dir = d}
      dirs == {r.dir : r \in db.session} \ {""}
      Before(a, b) == \/ LatestUse(Of(a)) > LatestUse(Of(b))
                      \/ LatestUse(Of(a)) = LatestUse(Of(b)) /\ rank[a] < rank[b]
      order == SetToSortSeq(dirs, Before)
  IN  [i \in DOMAIN order |->
         [dir |-> order[i], running |-> \E r \in Of(order[i]) : Open(r)]]
=============================================================================
