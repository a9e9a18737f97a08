----------------------------- MODULE Persister -----------------------------
(***************************************************************************)
(* persistence/persister.go between the router's goroutines and the store: *)
(* what it keeps of each conversation (track), and when it writes it.      *)
(*                                                                         *)
(* Receive runs on the goroutine that announces the event: the one that    *)
(* opens (creates or adopts) the conversation, the receive loop of its     *)
(* agent, a sender's, and the one that closes it.  Each changes track      *)
(* under the mutex and writes to the store after it; doing holds the       *)
(* writes a goroutine still has to do.  So the writes of two goroutines    *)
(* pass each other.                                                        *)
(*                                                                         *)
(* Every write goes to both implementations of the store, pg and mem, and  *)
(* what is read is read from pg: the first property says that it would be  *)
(* the same from mem.  A restart replaces the server over a store that     *)
(* stays.  Local agents end with the server, remote ones may survive it    *)
(* and be adopted, or end before they are.                                 *)
(***************************************************************************)
EXTENDS StoreRows, SequencesExt

CONSTANTS
  MaxConvs,       \* conversations, numbered in the order they are created
  Opts, Past,     \* options of conversations, and of the one in the past
  Updates,        \* what an agent may stream
  Responses,      \* how an agent may answer a prompt
  ProjectNames,   \* projects that are edited
  Names,          \* names and directories in alphabetical order
  MaxEvents       \* bound: updates, prompts, edits, days and restarts together

ASSUME BoundsAssumption == MaxConvs \in Nat /\ MaxEvents \in Nat

Convs == 1..MaxConvs

PG == INSTANCE PostgresStore
Mem == INSTANCE MemStore

VARIABLES
  pg, mem,        \* the two stores
  track,          \* what the persister accumulates for each conversation
  doing,          \* by conversation and goroutine: the writes it still has to do
  live,           \* conversations registered in the router
  agents,         \* conversations whose agent runs
  away,           \* those of them the server does not know since it was restarted
  asked,          \* prompts the agent has not answered
  day,            \* the current day
  answered,       \* history: answers handled
  upset,          \* history: writes passed each other, came late or were cut off
  events          \* how much of the bound is used

vars == <<pg, mem, track, doing, live, agents, away, asked, day, answered, upset,
          events>>
stores == <<pg, mem>>

\* The world outside brings something about once more.
Event == events < MaxEvents /\ events' = events + 1

Goroutines == {"open", "loop", "send", "close"}
Untracked == [tracked |-> FALSE]
NewState(info) == [tracked |-> TRUE, info |-> info, lastModel |-> info.model, start |-> 0]

Sessions == Cardinality(pg.session)
Now == day * Ticks + Ticks - 1
CreatedAt == day * Ticks + Sessions      \* no two sessions at one instant

Idle(c, g) == doing[c][g] = <<>>
Quiet(c) == \A g \in Goroutines : Idle(c, g)
DoNext(c, g, ops) == doing' = [doing EXCEPT ![c][g] = ops]

\* A telemetry write that is decided while another one of c is on its way.
Passes(c, g) == \E h \in Goroutines \ {g} : ~Idle(c, h)
MarkUpset(c, bad) == upset' = IF bad THEN upset \cup {c} ELSE upset

\* The stores hold a session of an earlier server, with one turn.
PastInfo == [status |-> "complete", model |-> "m",
             usage |-> [NoUsage EXCEPT !.tokens = 5, !.cost = 1, !.count = 1]]

Init ==
  /\ day = 0
  /\ pg = PG!FinishSession(PG!InsertSession(PG!EmptyTables, 1, Past, 0), 1, PastInfo, "", Now)
  /\ mem = Mem!FinishSession(Mem!InsertSession(Mem!EmptyStore, 1, Past, 0), 1, PastInfo, "", Now)
  /\ track = [c \in Convs |-> Untracked]
  /\ doing = [c \in Convs |-> [g \in Goroutines |-> <<>>]]
  /\ live = {} /\ agents = {} /\ away = {}
  /\ asked = [c \in Convs |-> 0]
  /\ answered = [c \in Convs |-> IF c = 1 THEN 1 ELSE 0] /\ upset = {}
  /\ events = 0

-----------------------------------------------------------------------------
(* What the agent reports.  meta is the sequence of its sections, in the   *)
(* order of metaKeys; a section's usage maps models to their counters.     *)

modelFromMeta(meta) ==
  LET named == SelectSeq(meta, LAMBDA s : s.model # "")
  IN  IF named = <<>> THEN "" ELSE named[1].model

\* The tokens of all the models a section names.
AllTokens(use) == FoldSet(LAMBDA k, n : n + use[k].tokens, 0, DOMAIN use)

\* Sums over the models of the first section.  The window and, without a total, the cost
\* are those of one of the models: the map is walked in any order.
extractUsageFromMeta(meta) ==
  IF meta = <<>> THEN {NoUsage}
  ELSE LET use == meta[1].usage
           OneOf(S) == IF S \subseteq {0} THEN {0} ELSE S \ {0}
           costs == IF meta[1].cost # 0 THEN {meta[1].cost}
                    ELSE OneOf({use[k].cost : k \in DOMAIN use})
           windows == OneOf({use[k].window : k \in DOMAIN use})
       IN  UNION {{[NoUsage EXCEPT !.tokens = AllTokens(use), !.cost = x, !.window = w] :
                     x \in costs} : w \in windows}

carryContext(prev, next) ==
  [next EXCEPT !.used = IF @ = 0 THEN prev.used ELSE @,
               !.window = IF @ = 0 THEN prev.window ELSE @]

\* The states observeUpdate may leave.
Observed(st, update) ==
  LET prev == st.info.usage
      model == modelFromMeta(update.meta)
      named == IF model # "" THEN [st EXCEPT !.lastModel = model] ELSE st
  IN  CASE update.variant = "agent_message_chunk" ->
             {IF u.tokens > 0
              THEN [named EXCEPT !.info.usage = carryContext(prev, [u EXCEPT !.count = prev.count])]
              ELSE named : u \in extractUsageFromMeta(update.meta)}
        [] update.variant = "usage_update" ->
             {[st EXCEPT !.info.usage.window = update.size, !.info.usage.used = update.used,
                         !.info.usage.cost = IF update.cost = 0 THEN @ ELSE update.cost]}
        [] OTHER -> {st}

\* What endTurn makes of the usage, the turn already counted.
Answered(st, resp) ==
  LET prev == st.info.usage
  IN  {IF u.tokens > 0 THEN carryContext(prev, [u EXCEPT !.count = prev.count])
       ELSE IF resp.tokens > 0 THEN [prev EXCEPT !.tokens = resp.tokens]
       ELSE prev : u \in extractUsageFromMeta(resp.meta)}

\* The telemetry of the stored row, nothing when there is none.
stored(c) ==
  LET rows == PG!GetSession(pg, c)
  IN  IF rows = {} THEN NoInfo
      ELSE LET r == CHOOSE r \in rows : TRUE
           IN  [NoInfo EXCEPT !.model = r.model, !.usage = r.usage]

-----------------------------------------------------------------------------
(* Events *)

\* ConversationCreated: the row, then the tracking of it; nobody knows c before.
Create(c, opts) ==
  /\ c = Sessions + 1
  /\ pg' = PG!InsertSession(pg, c, opts, CreatedAt)
  /\ mem' = Mem!InsertSession(mem, c, opts, CreatedAt)
  /\ track' = [track EXCEPT ![c] = NewState([NoInfo EXCEPT !.status = "pending"])]
  /\ live' = live \cup {c} /\ agents' = agents \cup {c}
  /\ UNCHANGED <<doing, away, asked, day, answered, upset, events>>

\* NewSessionResponse, on the receive loop.
SessionReady(c, acp) ==
  /\ c \in agents \ away /\ Idle(c, "loop") /\ PG!Session(pg, c).acp = ""
  /\ pg' = PG!SetACPSessionID(pg, c, acp)
  /\ mem' = Mem!SetACPSessionID(mem, c, acp)
  /\ UNCHANGED <<track, doing, live, agents, away, asked, day, answered, upset, events>>

\* SessionNotification: a log entry, and what is in it for the totals of a tracked one.
\* The agent has a session to report about, so the handshake is over.
Update(c, update) ==
  /\ c \in agents \ away /\ PG!Session(pg, c).acp # "" /\ Idle(c, "loop") /\ Event
  /\ LET e == MarshalEvent(update)
     IN  /\ pg' = PG!InsertLog(pg, c, e.type, e.payload, Now)
         /\ mem' = Mem!InsertLog(mem, c, e.type, e.payload, Now)
  /\ IF track[c].tracked
     THEN \E st \in Observed(track[c], update) : track' = [track EXCEPT ![c] = st]
     ELSE UNCHANGED track
  /\ UNCHANGED <<doing, live, agents, away, asked, day, answered, upset>>

\* A sender, who waited for the handshake, finds the conversation registered; its event
\* comes later.
SendLooks(c) ==
  /\ c \in live /\ PG!Session(pg, c).acp # "" /\ Idle(c, "open") /\ Idle(c, "send") /\ Event
  /\ DoNext(c, "send", <<[op |-> "prompt"]>>)
  /\ UNCHANGED <<stores, track, live, agents, away, asked, day, answered, upset>>

\* PromptRequest: the log entry and beginTurn up to its unlock.
Prompt(c) ==
  LET st == IF track[c].tracked THEN track[c] ELSE NewState(NoInfo)
      begun == [st EXCEPT !.info.status = "running", !.info.model = st.lastModel,
                          !.start = Now]
      payload == [text |-> "prompt"]
  IN  /\ doing[c]["send"] = <<[op |-> "prompt"]>>
      /\ pg' = PG!InsertLog(pg, c, "prompt", payload, Now)
      /\ mem' = Mem!InsertLog(mem, c, "prompt", payload, Now)
      /\ track' = [track EXCEPT ![c] = begun]
      /\ DoNext(c, "send", <<[op |-> "update", info |-> begun.info]>>)
      /\ MarkUpset(c, Passes(c, "send") \/ ~track[c].tracked)
      /\ asked' = IF c \in agents THEN [asked EXCEPT ![c] = @ + 1] ELSE asked
      /\ UNCHANGED <<live, agents, away, day, answered, events>>

\* PromptResponse: the log entry and endTurn up to its unlock.
Response(c, resp) ==
  LET old == IF track[c].tracked THEN track[c] ELSE NewState(NoInfo)
      st == [old EXCEPT !.info.usage.count = @ + 1,
                        !.lastModel = IF @ = "" THEN modelFromMeta(resp.meta) ELSE @]
      took == IF st.start = 0 THEN 0 ELSE Now - st.start
      added == IF took > 0 THEN <<[op |-> "duration", d |-> took]>> ELSE <<>>
  IN  /\ c \in agents \ away /\ asked[c] > 0 /\ Idle(c, "loop")
      /\ pg' = PG!InsertLog(pg, c, "prompt_finished", [none |-> ""], Now)
      /\ mem' = Mem!InsertLog(mem, c, "prompt_finished", [none |-> ""], Now)
      /\ \E usage \in Answered(st, resp) :
           LET ended == [st EXCEPT !.info.usage = usage, !.info.status = "running",
                                   !.info.model = st.lastModel, !.start = 0]
           IN  /\ track' = [track EXCEPT ![c] = ended]
               /\ DoNext(c, "loop", Append(added, [op |-> "update", info |-> ended.info]))
      /\ asked' = [asked EXCEPT ![c] = @ - 1]
      /\ answered' = [answered EXCEPT ![c] = @ + 1]
      /\ MarkUpset(c, Passes(c, "loop") \/ ~track[c].tracked)
      /\ UNCHANGED <<live, agents, away, day, events>>

\* Mutant: an untracked conversation is finished with nothing.
FinishUnread(c, err) ==
  LET info == IF track[c].tracked THEN track[c].info ELSE NoInfo
      status == IF err # "" THEN "error" ELSE "complete"
  IN  /\ track' = [track EXCEPT ![c] = Untracked]
      /\ DoNext(c, "close", <<[op |-> "finish", info |-> [info EXCEPT !.status = status],
                               err |-> err]>>)
      /\ MarkUpset(c, Passes(c, "close"))
\* finish up to its last write; an untracked conversation keeps its stored totals.
Finish(c, err) ==
  LET info == IF track[c].tracked THEN track[c].info ELSE stored(c)
      status == IF err # "" THEN "error" ELSE "complete"
  IN  /\ track' = [track EXCEPT ![c] = Untracked]
      /\ DoNext(c, "close", <<[op |-> "finish", info |-> [info EXCEPT !.status = status],
                               err |-> err]>>)
      /\ MarkUpset(c, Passes(c, "close"))

\* ConversationClosed, or ConversationReplaced for the old one.  Nobody closes a
\* conversation before those who adopt it are told of it.
Close(c, err) ==
  /\ c \in live /\ Idle(c, "open")
  /\ live' = live \ {c}
  /\ Finish(c, err)
  /\ UNCHANGED <<stores, agents, away, asked, day, answered, events>>

\* The process is closed after the subscribers were told; until then its agent goes on.
Stop(c) ==
  /\ c \in agents \ (live \cup away) /\ Idle(c, "close") /\ Idle(c, "loop")
  /\ agents' = agents \ {c}
  /\ UNCHANGED <<stores, track, doing, live, away, asked, day, answered, upset, events>>

\* Mutant: the row is left complete.
AdoptUnopened(c) ==
  /\ c \in away
  /\ live' = live \cup {c} /\ away' = away \ {c}
  /\ DoNext(c, "open", <<[op |-> "track", info |-> [stored(c) EXCEPT !.status = "pending"]]>>)
  /\ UNCHANGED <<stores, track, agents, asked, day, answered, upset, events>>
\* ConversationAdopted: what adopt read of the row, to be reopened and tracked.
Adopt(c) ==
  /\ c \in away
  /\ live' = live \cup {c} /\ away' = away \ {c}
  /\ DoNext(c, "open", <<[op |-> "reopen"],
                         [op |-> "track", info |-> [stored(c) EXCEPT !.status = "pending"]]>>)
  /\ UNCHANGED <<stores, track, agents, asked, day, answered, upset, events>>

\* Router.Finalize: the agent ended on its host while no server was connected.
Finalize(c) ==
  /\ c \in away
  /\ agents' = agents \ {c} /\ away' = away \ {c}
  /\ Finish(c, "")
  /\ UNCHANGED <<stores, live, asked, day, answered, events>>

-----------------------------------------------------------------------------
(* The writes that follow *)

Rest(c, g) == DoNext(c, g, Tail(doing[c][g]))
Doing(c, g, op) == doing[c][g] # <<>> /\ Head(doing[c][g]).op = op

WriteUpdate(c, g) ==
  /\ Doing(c, g, "update") /\ Rest(c, g)
  /\ LET w == Head(doing[c][g])
     IN  /\ pg' = PG!UpdateSession(pg, c, w.info)
         /\ mem' = Mem!UpdateSession(mem, c, w.info)
  /\ UNCHANGED <<track, live, agents, away, asked, day, answered, upset, events>>

WriteDuration(c, g) ==
  /\ Doing(c, g, "duration") /\ Rest(c, g)
  /\ LET w == Head(doing[c][g])
     IN  /\ pg' = PG!AddPromptDuration(pg, c, w.d)
         /\ mem' = Mem!AddPromptDuration(mem, c, w.d)
  /\ UNCHANGED <<track, live, agents, away, asked, day, answered, upset, events>>

WriteFinish(c, g) ==
  /\ Doing(c, g, "finish") /\ Rest(c, g)
  /\ LET w == Head(doing[c][g])
     IN  /\ pg' = PG!FinishSession(pg, c, w.info, w.err, Now)
         /\ mem' = Mem!FinishSession(mem, c, w.info, w.err, Now)
  /\ UNCHANGED <<track, live, agents, away, asked, day, answered, upset, events>>

WriteReopen(c, g) ==
  /\ Doing(c, g, "reopen") /\ Rest(c, g)
  /\ pg' = PG!ReopenSession(pg, c) /\ mem' = Mem!ReopenSession(mem, c)
  /\ UNCHANGED <<track, live, agents, away, asked, day, answered, upset, events>>

Track(c, g) ==
  /\ Doing(c, g, "track") /\ Rest(c, g)
  /\ track' = [track EXCEPT ![c] = NewState(Head(doing[c][g]).info)]
  /\ UNCHANGED <<stores, live, agents, away, asked, day, answered, upset, events>>

-----------------------------------------------------------------------------
(* The server, the clock and the project pages *)

\* The server ends and the next one opens the store: what was tracked or on its way is
\* gone, rows left open are completed.  The agents of some conversations survive.
Restart(survivors) ==
  /\ Event
  /\ survivors \subseteq {c \in agents : PG!Session(pg, c).acp # ""}
  /\ agents' = survivors /\ away' = survivors /\ live' = {}
  /\ track' = [c \in Convs |-> Untracked]
  /\ doing' = [c \in Convs |-> [g \in Goroutines |-> <<>>]]
  /\ asked' = [c \in Convs |-> 0]
  /\ upset' = upset \cup {c \in Convs : ~Quiet(c)}
  /\ pg' = PG!CompleteRunningSessions(pg, Now)
  /\ mem' = Mem!CompleteRunningSessions(mem, Now)
  /\ UNCHANGED <<day, answered>>

\* A day ends while no write is on its way: of these only the end of a row has a time.
AllQuiet == \A c \in Convs : Quiet(c)

NextDay ==
  /\ AllQuiet /\ Event /\ day' = day + 1
  /\ UNCHANGED <<stores, track, doing, live, agents, away, asked, answered, upset>>

\* A project is looked at or edited on its page, or by the scheduler at its start,
\* while no conversation is under way: of their writes only the INSERT of the row is to a
\* project, and it comes before or after.
Edit(name) ==
  /\ AllQuiet /\ agents = {} /\ Event
  /\ \/ \E field \in ProjectFields, value \in {"x"} :
          /\ pg' = PG!SetProjectField(pg, name, field, value)
          /\ mem' = Mem!SetProjectField(mem, name, field, value)
     \/ /\ pg' = PG!AppendProjectEnv(pg, name, "E=1")
        /\ mem' = Mem!AppendProjectEnv(mem, name, "E=1")
     \/ /\ pg' = PG!ClearProjectEnv(pg, name)
        /\ mem' = Mem!ClearProjectEnv(mem, name)
     \/ /\ pg' = PG!SetProjectEnv(pg, name, <<"E=2", "F=1">>)
        /\ mem' = Mem!SetProjectEnv(mem, name, <<"E=2", "F=1">>)
     \/ /\ pg' = PG!GetProject(pg, name)
        /\ mem' = Mem!GetProject(mem, name)
  /\ UNCHANGED <<track, doing, live, agents, away, asked, day, answered, upset>>

Next ==
  \/ \E c \in Convs :
       \/ \E opts \in Opts : Create(c, opts)
       \/ SessionReady(c, "s")
       \/ \E u \in Updates : Update(c, u)
       \/ SendLooks(c) \/ Prompt(c)
       \/ \E r \in Responses : Response(c, r)
       \/ \E err \in {"", "exited"} : Close(c, err)
       \/ Stop(c) \/ Adopt(c) \/ Finalize(c)
       \/ \E g \in Goroutines :
            WriteUpdate(c, g) \/ WriteDuration(c, g) \/ WriteFinish(c, g)
            \/ WriteReopen(c, g) \/ Track(c, g)
  \/ \E S \in SUBSET agents : Restart(S)
  \/ NextDay
  \/ \E name \in ProjectNames : Edit(name)

Spec == Init /\ [][Next]_vars

-----------------------------------------------------------------------------
(* Properties *)

Instants == {0, day * Ticks + 1}
rank == [n \in ToSet(Names) |-> CHOOSE i \in DOMAIN Names : Names[i] = n]
AgentNames == {""} \cup {o.agent : o \in Opts}
CallIds == {u.call : u \in {v \in Updates : v.variant \in {"tool_call", "tool_call_update"}}}

\* Property: whatever the router's events and the project pages wrote, in whatever order
\* their writes passed each other, the maps in memory hold what the tables of Postgres hold:
\* the same sessions with every column, the same log, the same projects (db/store.go,
\* store_projects.go, memstore.go).
SameTables ==
  /\ pg.session = Mem!Values(mem.sessions) /\ pg.project = Mem!Values(mem.projects)
  /\ pg.log = ToSet(mem.logs) /\ pg.nextLog = mem.logSeq + 1

\* One row: both stores find the same, but for the ACP session id, which only the one in
\* memory gives back.
SameLookups ==
  /\ \A c \in Convs :
       PG!GetSession(pg, c) = {PG!Columns(r) : r \in Mem!GetSession(mem, c)}
  /\ \A n \in 1..(mem.logSeq + 1) : PG!GetLog(pg, n) = Mem!GetLog(mem, n)
  /\ \A name \in ProjectNames : PG!ProjectRow(pg, name) = Mem!ProjectRow(mem, name)
  /\ PG!GetDistinctAgents(pg) = Mem!GetDistinctAgents(mem)

\* Lists of rows, again without the ACP session id.
SameRows ==
  LET Shown(rows) == [i \in DOMAIN rows |-> PG!Columns(rows[i])]
  IN  /\ PG!ListSessions(pg) = Shown(Mem!ListSessions(mem))
      /\ \A offset \in 0..2 :
           LET page == Mem!ListSessionsPage(mem, 1, offset)
           IN  PG!ListSessionsPage(pg, 1, offset) = <<Shown(page[1]), page[2]>>
      /\ \A o \in Opts :
           /\ PG!ListSessionsByDir(pg, o.dir) = Shown(Mem!ListSessionsByDir(mem, o.dir))
           /\ PG!ListSessionsByProject(pg, o.project)
                = Shown(Mem!ListSessionsByProject(mem, o.project))
      /\ \A c \in Convs :
           /\ PG!GetSessionLogs(pg, c) = Mem!GetSessionLogs(mem, c)
           /\ PG!GetPromptTexts(pg, c) = Mem!GetPromptTexts(mem, c)
           /\ \A call \in CallIds :
                PG!GetLogsByToolCallID(pg, c, call) = Mem!GetLogsByToolCallID(mem, c, call)

SameProjects ==
  /\ PG!ListProjects(pg, rank) = Mem!ListProjects(mem, rank)
  /\ PG!ListProjectDirs(pg, rank) = Mem!ListProjectDirs(mem, rank)

\* The statistics, over the sessions with a turn: the store in memory counts the others
\* too.  A tool call without a title only Postgres counts, and only Postgres has a row for
\* a day without sessions.
SameStatistics ==
  LET turned == [mem EXCEPT !.sessions = [c \in {d \in DOMAIN @ : @[d].usage.count > 0} |-> @[c]]]
  IN  /\ \A agent \in AgentNames :
           /\ \A d \in 0..day :
                {r \in PG!GetDailyStats(pg, Now, d * Ticks, agent) : r.sum.sessions > 0}
                  = Mem!GetDailyStats(turned, Now, d * Ticks, agent)
           /\ \A months \in 1..2 :
                PG!GetMonthlyStatsByDir(pg, Now, months, agent)
                  = Mem!GetMonthlyStatsByDir(turned, Now, months, agent)
      /\ \A since \in Instants :
           /\ PG!GetModelStats(pg, since) = Mem!GetModelStats(turned, since)
           /\ LET a == PG!GetInsights(pg, since)
                  b == Mem!GetInsights(turned, since)
              IN  [a EXCEPT !.totalTools = 0] = [b EXCEPT !.totalTools = 0]

\* Property: whatever the router's events and the project pages wrote, in whatever order
\* their writes passed each other, the two stores (db/store.go, db/memstore.go) answer
\* every query alike, up to the differences SameLookups and SameStatistics name.
SameAnswers == SameLookups /\ SameRows /\ SameProjects /\ SameStatistics

\* Property: once nothing is on its way, the stored row of a conversation counts every
\* answer the server handled, also those before a restart, an adoption or the end on a
\* remote host - unless its writes passed each other, came after its end, or were cut
\* off by the restart (persister.go:113-155, 310-314).
TurnsCounted ==
  \A c \in Convs \ upset :
    (Quiet(c) /\ PG!HasSession(pg, c)) => PG!Session(pg, c).usage.count = answered[c]

\* Property: under the same condition a row is open exactly while its conversation is
\* registered: none is left running by a server that ended, and one that is adopted
\* shows as live again (store.go:97-121).
OpenIsLive ==
  \A c \in Convs \ upset :
    (Quiet(c) /\ PG!HasSession(pg, c)) => (Open(PG!Session(pg, c)) <=> c \in live)
=============================================================================
