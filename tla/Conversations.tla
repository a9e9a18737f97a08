--------------------------- MODULE Conversations ---------------------------
(***************************************************************************)
(* The life of one router session: a local agent process, the ACP          *)
(* connection to it, the conversation it is registered as, and the rows    *)
(* the persister keeps of it (router/router.go, acp/connection.go,         *)
(* process/process.go, persistence/persister.go).                          *)
(*                                                                         *)
(* A session is created as conversation 1; every Restart rolls it to the   *)
(* next number.  Its goroutines are the actors below; each step is one     *)
(* critical section of Router.mu or one call made outside of it, and       *)
(* subscribers are called outside of it.  The ACP session that the agent   *)
(* makes for conversation c is number c.                                   *)
(***************************************************************************)
EXTENDS SessionRows, Sequences, FiniteSets

CONSTANTS
  MaxRestarts,   \* bound: calls of Restart
  MaxPrompts,    \* bound: prompts a user sends
  MaxUpdates,    \* bound: updates the agent sends
  MaxCloses      \* bound: of CloseConversation and Close, how many are called

ASSUME ConversationsAssumption ==
  MaxRestarts \in Nat /\ MaxPrompts \in Nat /\ MaxUpdates \in Nat /\ MaxCloses \in Nat

Convs == 1..(MaxRestarts + 1)

\* create: Create or CreateError.  loop: the receive loop of the connection.  user: WaitReady
\* and Send.  restart: Restart.  stop: CloseConversation.  watch: watchProcess.  down:
\* Router.Close.
Actors == {"create", "loop", "user", "restart", "stop", "watch", "down"}

VARIABLES
  \* SessionState.
  live,       \* it is registered, under ...
  conv,       \* ... its ConversationID
  sid,        \* its SessionID, 0 before there is one
  ready,      \* its ready channel, named for the conversation it was made for; 0 is nil
  handshakeErr,
  cleaned,    \* its cleanups have run
  opened,     \* ready channels that are closed
  cancelled,  \* the router's context is
  \* Process and connection.
  proc,       \* "none", "running", "exited"
  stdinOpen,
  reaped,     \* Done is closed
  asked,      \* requests sent and not answered
  fromAgent,  \* messages in the stdout pipe
  \* Goroutines and the persister.
  act,        \* where each actor is, with the conversation, channel and session it holds
  msg,        \* the message the receive loop holds
  db,
  \* History.
  refused,    \* the agent answered a handshake request with an error
  ends,       \* ends of each conversation that subscribers were told of
  hasty,      \* Restart was called before the handshake of the old conversation was done
  \* Bounds.
  restarts, prompts, updates

sessVars == <<live, conv, sid, ready, handshakeErr, cleaned, opened, cancelled>>
procVars == <<proc, stdinOpen, reaped, asked, fromAgent>>
histVars == <<refused, ends, hasty>>
bounds   == <<restarts, prompts, updates>>
vars     == <<sessVars, procVars, act, msg, db, histVars, bounds>>

Idle == [at |-> "idle", conv |-> 0, ch |-> 0]
Request(m, c, n) == [m |-> m, conv |-> c, n |-> n]
NoMsg == [m |-> "none", ok |-> TRUE, sid |-> 0]

Init ==
  /\ live = FALSE /\ conv = 1 /\ sid = 0 /\ ready = 0 /\ handshakeErr = FALSE
  /\ cleaned = FALSE /\ opened = {} /\ cancelled = FALSE
  /\ proc = "none" /\ stdinOpen = TRUE /\ reaped = FALSE /\ asked = {} /\ fromAgent = <<>>
  /\ act = [a \in Actors |-> Idle] /\ msg = NoMsg /\ db = EmptyRows(Convs)
  /\ refused = FALSE /\ ends = [c \in Convs |-> 0] /\ hasty = FALSE
  /\ restarts = 0 /\ prompts = 0 /\ updates = 0

At(a, where) == act[a].at = where
Goto(a, where) == act' = [act EXCEPT ![a].at = where]
Holding(a, where, c, ch) == act' = [act EXCEPT ![a] = [at |-> where, conv |-> c, ch |-> ch]]

\* Subscribers, and with them users, know a conversation from its row.
Known(c) == HasRow(db, c)
Registered(c) == live /\ conv = c

\* A write to the agent fails once it exited or its stdin was closed.
CanSend == proc = "running" /\ stdinOpen
Ask(q) == asked' = IF CanSend THEN asked \cup {q} ELSE asked

-----------------------------------------------------------------------------
(* Create and CreateError *)

\* The hooks have run and the host starts the process.
CreateStart ==
  /\ At("create", "idle") /\ ~cancelled
  /\ proc' = "running"
  /\ Goto("create", "started")
  /\ UNCHANGED <<sessVars, stdinOpen, reaped, asked, fromAgent, msg, db, histVars, bounds>>

CreateRegister ==
  /\ At("create", "started")
  /\ live' = TRUE /\ ready' = 1
  /\ Goto("create", "announce")
  /\ UNCHANGED <<conv, sid, handshakeErr, cleaned, opened, cancelled, procVars, msg, db,
                 histVars, bounds>>

\* A conversation that could not start has neither process nor connection.
CreateStillborn ==
  /\ At("create", "idle")
  /\ live' = TRUE
  /\ Goto("create", "announce")
  /\ UNCHANGED <<conv, sid, ready, handshakeErr, cleaned, opened, cancelled, procVars, msg, db,
                 histVars, bounds>>

\* ConversationCreated; CreateError logs the failure and closes the conversation.
CreateAnnounce ==
  /\ At("create", "announce")
  /\ IF proc = "none"
       THEN db' = InsertLog(InsertSession(db, 1), 1) /\ Holding("create", "delete", 1, 0)
       ELSE db' = InsertSession(db, 1) /\ Goto("create", "ask")
  /\ UNCHANGED <<sessVars, procVars, msg, histVars, bounds>>

\* Mutant: the process is not watched.
CreateAskUnwatched ==
  /\ At("create", "ask")
  /\ Ask(Request("init", 1, 0))
  /\ live' = (live /\ (CanSend \/ conv # 1))
  /\ stdinOpen' = (stdinOpen /\ CanSend)
  /\ Goto("create", IF CanSend THEN "over" ELSE "abort")
  /\ UNCHANGED <<conv, sid, ready, handshakeErr, cleaned, opened, cancelled, proc, reaped,
                 fromAgent, msg, db, histVars, bounds>>

\* initialize is sent and the process watched, or the session is taken back.
CreateAsk ==
  /\ At("create", "ask")
  /\ Ask(Request("init", 1, 0))
  /\ IF CanSend
       THEN /\ act' = [act EXCEPT !["create"].at = "over", !["watch"].at = "watch"]
            /\ UNCHANGED <<live, stdinOpen>>
       ELSE /\ live' = (live /\ conv # 1)
            /\ stdinOpen' = FALSE
            /\ Goto("create", "abort")
  /\ UNCHANGED <<conv, sid, ready, handshakeErr, cleaned, opened, cancelled, proc, reaped,
                 fromAgent, msg, db, histVars, bounds>>

CreateAbort ==
  /\ At("create", "abort") /\ reaped
  /\ cleaned' = TRUE
  /\ Goto("create", "failed")
  /\ UNCHANGED <<live, conv, sid, ready, handshakeErr, opened, cancelled, procVars, msg, db,
                 histVars, bounds>>

-----------------------------------------------------------------------------
(* The agent *)

\* The agent answers its requests in any order.
Answer(q, ok) ==
  /\ proc = "running" /\ q \in asked
  /\ asked' = asked \ {q}
  /\ fromAgent' = Append(fromAgent, [m |-> q.m, ok |-> ok, sid |-> IF q.m = "new" THEN q.conv ELSE 0])
  /\ refused' = (refused \/ (~ok /\ q.m # "prompt"))
  /\ UNCHANGED <<sessVars, proc, stdinOpen, reaped, act, msg, db, ends, hasty, bounds>>

\* session/update, while a turn runs.
Update ==
  /\ proc = "running" /\ updates < MaxUpdates
  /\ \E q \in asked : q.m = "prompt"
  /\ updates' = updates + 1
  /\ fromAgent' = Append(fromAgent, [m |-> "update", ok |-> TRUE, sid |-> 0])
  /\ UNCHANGED <<sessVars, proc, stdinOpen, reaped, asked, act, msg, db, histVars, restarts, prompts>>

\* It ends on its own, at EOF on its stdin or when the router's context is cancelled.
Exit ==
  /\ proc = "running"
  /\ proc' = "exited" /\ asked' = {}
  /\ UNCHANGED <<sessVars, stdinOpen, reaped, fromAgent, act, msg, db, histVars, bounds>>

\* cmd.Wait closes the read end of the stdout pipe: the loop keeps what it has buffered.
Reap ==
  /\ proc = "exited" /\ ~reaped
  /\ reaped' = TRUE
  /\ \E k \in 0..Len(fromAgent) : fromAgent' = SubSeq(fromAgent, 1, k)
  /\ UNCHANGED <<sessVars, proc, stdinOpen, asked, act, msg, db, histVars, bounds>>

-----------------------------------------------------------------------------
(* The receive loop: onMessage and deliver *)

Take == At("loop", "idle") /\ fromAgent # <<>> /\ fromAgent' = Tail(fromAgent)

\* The initialize response: session/new follows.
LoopInit ==
  /\ Take /\ Head(fromAgent).m = "init" /\ Head(fromAgent).ok
  /\ Ask(Request("new", 1, 0))
  /\ UNCHANGED <<sessVars, proc, stdinOpen, reaped, act, msg, db, histVars, bounds>>

\* Mutant: the ready channel is closed before the response is delivered.
LoopSessionOpens ==
  /\ Take /\ Head(fromAgent).m = "new" /\ Head(fromAgent).ok
  /\ msg' = Head(fromAgent) /\ sid' = Head(fromAgent).sid
  /\ ready' = 0 /\ opened' = opened \cup ({ready} \ {0})
  /\ Holding("loop", "deliver", conv, ready)
  /\ UNCHANGED <<live, conv, handshakeErr, cleaned, cancelled, proc, stdinOpen, reaped,
                 asked, db, histVars, bounds>>

\* The session/new response: the session id is set and ready taken, under the lock.
LoopSession ==
  /\ Take /\ Head(fromAgent).m = "new" /\ Head(fromAgent).ok
  /\ msg' = Head(fromAgent) /\ sid' = Head(fromAgent).sid
  /\ ready' = 0
  /\ Holding("loop", "deliver", conv, ready)
  /\ UNCHANGED <<live, conv, handshakeErr, cleaned, opened, cancelled, proc, stdinOpen, reaped,
                 asked, db, histVars, bounds>>

\* Mutant: an error response is only delivered.
LoopErrorIgnored ==
  /\ Take /\ ~Head(fromAgent).ok
  /\ UNCHANGED <<sessVars, proc, stdinOpen, reaped, asked, act, msg, db, histVars, bounds>>

\* An error response: whoever waits for the handshake is told.
LoopError ==
  /\ Take /\ ~Head(fromAgent).ok
  /\ handshakeErr' = (handshakeErr \/ ready # 0)
  /\ opened' = opened \cup ({ready} \ {0})
  /\ ready' = 0
  /\ UNCHANGED <<live, conv, sid, cleaned, cancelled, proc, stdinOpen, reaped, asked, act, msg, db,
                 histVars, bounds>>

\* Anything else is delivered with the meta of the moment.
LoopOther ==
  /\ Take /\ Head(fromAgent).m \in {"update", "prompt"} /\ Head(fromAgent).ok
  /\ msg' = Head(fromAgent)
  /\ Holding("loop", "deliver", conv, 0)
  /\ UNCHANGED <<sessVars, proc, stdinOpen, reaped, asked, db, histVars, bounds>>

LoopDeliver ==
  /\ At("loop", "deliver")
  /\ LET c == act["loop"].conv IN
     \/ msg.m = "new" /\ db' = SetACPSessionID(db, c, msg.sid) /\ Goto("loop", "ready")
     \/ msg.m = "update" /\ db' = InsertLog(db, c) /\ Goto("loop", "idle")
     \/ msg.m = "prompt" /\ db' = RecordTurn(db, c) /\ Goto("loop", "idle")
  /\ UNCHANGED <<sessVars, procVars, msg, histVars, bounds>>

\* Only then is the ready channel closed.
LoopReady ==
  /\ At("loop", "ready")
  /\ opened' = opened \cup ({act["loop"].ch} \ {0})
  /\ Goto("loop", "idle")
  /\ UNCHANGED <<live, conv, sid, ready, handshakeErr, cleaned, cancelled, procVars, msg, db,
                 histVars, bounds>>

-----------------------------------------------------------------------------
(* WaitReady and Send *)

\* WaitReady, first lock: the channel of the moment.  (Not of a stillborn conversation: it is
\* registered only until CreateError closes it.)
UserWaits(c) ==
  /\ At("user", "idle") /\ prompts < MaxPrompts /\ Known(c) /\ Registered(c) /\ proc # "none"
  /\ prompts' = prompts + 1
  /\ Holding("user", IF ready = 0 THEN "woken" ELSE "wait", c, ready)
  /\ UNCHANGED <<sessVars, procVars, msg, db, histVars, restarts, updates>>

Wakes(a) == At(a, "wait") /\ act[a].ch \in opened /\ Goto(a, "woken")
GivesUp(a) == At(a, "wait") /\ cancelled /\ Goto(a, "idle")

UserWakes ==
  /\ Wakes("user") \/ GivesUp("user")
  /\ UNCHANGED <<sessVars, procVars, msg, db, histVars, bounds>>

\* Second lock: the meta of the moment, or the handshake's error.
UserReady ==
  /\ At("user", "woken")
  /\ IF handshakeErr THEN Goto("user", "idle") ELSE Holding("user", "send", conv, act["user"].ch)
  /\ UNCHANGED <<sessVars, procVars, msg, db, histVars, bounds>>

\* Send: the lookup, the fan-out of the prompt, and the request.
UserSends ==
  /\ At("user", "send")
  /\ Goto("user", IF Registered(act["user"].conv) THEN "echo" ELSE "idle")
  /\ UNCHANGED <<sessVars, procVars, msg, db, histVars, bounds>>

UserEchoes ==
  /\ At("user", "echo")
  /\ db' = RecordTurn(db, act["user"].conv)
  /\ Goto("user", "ask")
  /\ UNCHANGED <<sessVars, procVars, msg, histVars, bounds>>

UserAsks ==
  /\ At("user", "ask")
  /\ Ask(Request("prompt", act["user"].conv, prompts))
  /\ Goto("user", "idle")
  /\ UNCHANGED <<sessVars, proc, stdinOpen, reaped, fromAgent, msg, db, histVars, bounds>>

-----------------------------------------------------------------------------
(* Restart *)

\* A handshake request is not answered, or its answer not received.
Shaking ==
  \/ \E q \in asked : q.m # "prompt"
  \/ \E i \in DOMAIN fromAgent : fromAgent[i].m \in {"init", "new"}

\* The session is rolled to a fresh conversation, under the lock.  (ch is the old one.)
\* Nobody restarts a conversation that has no connection: stillborn, or Create is not so far.
Restart(c) ==
  /\ At("restart", "idle") /\ restarts < MaxRestarts /\ Known(c) /\ Registered(c)
  /\ proc # "none" /\ ~At("create", "ask")
  /\ restarts' = restarts + 1
  /\ conv' = conv + 1 /\ sid' = 0 /\ ready' = conv + 1
  /\ Holding("restart", "announce", conv + 1, conv)
  /\ hasty' = (hasty \/ Shaking)
  /\ UNCHANGED <<live, handshakeErr, cleaned, opened, cancelled, procVars, msg, db, refused, ends,
                 prompts, updates>>

RestartAnnounce ==
  /\ At("restart", "announce")
  /\ db' = InsertSession(db, act["restart"].conv)
  /\ Goto("restart", "ask")
  /\ UNCHANGED <<sessVars, procVars, msg, histVars, bounds>>

RestartAsk ==
  /\ At("restart", "ask")
  /\ Ask(Request("new", act["restart"].conv, 0))
  /\ Goto("restart", IF CanSend THEN "look" ELSE "idle")
  /\ UNCHANGED <<sessVars, proc, stdinOpen, reaped, fromAgent, msg, db, histVars, bounds>>

\* WaitReady of the fresh conversation, as above.
RestartLooks ==
  /\ At("restart", "look")
  /\ Goto("restart", IF ~Registered(act["restart"].conv) THEN "idle"
                     ELSE IF ready = 0 THEN "woken" ELSE "wait")
  /\ UNCHANGED <<sessVars, procVars, msg, db, histVars, bounds>>

RestartWakes ==
  /\ At("restart", "wait")
  /\ \/ act["restart"].conv \in opened /\ Goto("restart", "woken")
     \/ GivesUp("restart")
  /\ UNCHANGED <<sessVars, procVars, msg, db, histVars, bounds>>

RestartReady ==
  /\ At("restart", "woken")
  /\ Goto("restart", IF handshakeErr THEN "idle" ELSE "replace")
  /\ UNCHANGED <<sessVars, procVars, msg, db, histVars, bounds>>

\* ConversationReplaced: the old conversation is finished.
RestartReplaces ==
  /\ At("restart", "replace")
  /\ ends' = [ends EXCEPT ![act["restart"].ch] = @ + 1]
  /\ db' = FinishSession(db, act["restart"].ch, "complete")
  /\ Goto("restart", "idle")
  /\ UNCHANGED <<sessVars, procVars, msg, refused, hasty, bounds>>

-----------------------------------------------------------------------------
(* closeConversation and its callers *)

Closers == {"create", "stop", "watch", "down"}
Over(a) == IF a = "down" THEN "cancel" ELSE "over"
MayClose == Cardinality({a \in {"stop", "down"} : ~At(a, "idle")}) < MaxCloses

Stop(c) ==
  /\ At("stop", "idle") /\ MayClose /\ Known(c)
  /\ Holding("stop", "delete", c, 0)
  /\ UNCHANGED <<sessVars, procVars, msg, db, histVars, bounds>>

\* watchProcess: the process is done; is the session still registered?
WatchSees ==
  /\ At("watch", "watch")
  /\ \/ reaped /\ IF live THEN Holding("watch", "delete", conv, 0) ELSE Goto("watch", "over")
     \/ cancelled /\ Goto("watch", "over")
  /\ UNCHANGED <<sessVars, procVars, msg, db, histVars, bounds>>

\* Router.Close: the processes are closed first ...
DownBegins ==
  /\ At("down", "idle") /\ MayClose
  /\ stdinOpen' = (stdinOpen /\ proc # "running")
  /\ Goto("down", IF proc = "running" THEN "closing" ELSE "snapshot")
  /\ UNCHANGED <<sessVars, proc, reaped, asked, fromAgent, msg, db, histVars, bounds>>

\* ... then every session still registered is closed, and the context cancelled.
DownSnapshot ==
  /\ At("down", "snapshot") \/ (At("down", "closing") /\ reaped)
  /\ IF live THEN Holding("down", "delete", conv, 0) ELSE Goto("down", "cancel")
  /\ UNCHANGED <<sessVars, procVars, msg, db, histVars, bounds>>

DownCancels ==
  /\ At("down", "cancel")
  /\ cancelled' = TRUE
  /\ Goto("down", "over")
  /\ UNCHANGED <<live, conv, sid, ready, handshakeErr, cleaned, opened, procVars, msg, db,
                 histVars, bounds>>

\* Mutants: whoever comes closes; the session is unregistered after its end was told.
CloseDeletesUnguarded(a) ==
  /\ At(a, "delete")
  /\ live' = (live /\ conv # act[a].conv)
  /\ Goto(a, "event")
  /\ UNCHANGED <<conv, sid, ready, handshakeErr, cleaned, opened, cancelled, procVars, msg, db,
                 histVars, bounds>>
CloseDeletesLate(a) ==
  /\ At(a, "delete")
  /\ Goto(a, IF Registered(act[a].conv) THEN "event" ELSE Over(a))
  /\ UNCHANGED <<sessVars, procVars, msg, db, histVars, bounds>>

\* The guarded delete: only who removes the session goes on.
CloseDeletes(a) ==
  /\ At(a, "delete")
  /\ live' = (live /\ conv # act[a].conv)
  /\ Goto(a, IF Registered(act[a].conv) THEN "event" ELSE Over(a))
  /\ UNCHANGED <<conv, sid, ready, handshakeErr, cleaned, opened, cancelled, procVars, msg, db,
                 histVars, bounds>>

\* ConversationClosed
CloseTells(a) ==
  /\ At(a, "event")
  /\ ends' = [ends EXCEPT ![act[a].conv] = @ + 1]
  /\ db' = FinishSession(db, act[a].conv, IF a \in {"watch", "create"} THEN "error" ELSE "complete")
  /\ Goto(a, "kill")
  /\ UNCHANGED <<sessVars, procVars, msg, refused, hasty, bounds>>

\* Mutant: the process is waited for with its stdin open.
CloseKillsNothing(a) ==
  /\ At(a, "kill")
  /\ Goto(a, "clean")
  /\ UNCHANGED <<sessVars, procVars, msg, db, histVars, bounds>>

\* proc.Close: stdin is closed, and the process waited for.
CloseKills(a) ==
  /\ At(a, "kill")
  /\ stdinOpen' = FALSE
  /\ Goto(a, "clean")
  /\ UNCHANGED <<sessVars, proc, reaped, asked, fromAgent, msg, db, histVars, bounds>>

CloseCleans(a) ==
  /\ At(a, "clean") /\ (reaped \/ proc = "none")
  /\ cleaned' = TRUE
  /\ Goto(a, Over(a))
  /\ UNCHANGED <<live, conv, sid, ready, handshakeErr, opened, cancelled, procVars, msg, db,
                 histVars, bounds>>

-----------------------------------------------------------------------------
Next ==
  \/ CreateStart \/ CreateRegister \/ CreateStillborn \/ CreateAnnounce \/ CreateAsk \/ CreateAbort
  \/ \E q \in asked, ok \in BOOLEAN : Answer(q, ok)
  \/ Update \/ Exit \/ Reap
  \/ LoopInit \/ LoopSession \/ LoopError \/ LoopOther \/ LoopDeliver \/ LoopReady
  \/ \E c \in Convs : UserWaits(c) \/ Restart(c) \/ Stop(c)
  \/ UserWakes \/ UserReady \/ UserSends \/ UserEchoes \/ UserAsks
  \/ RestartAnnounce \/ RestartAsk \/ RestartLooks \/ RestartWakes \/ RestartReady
  \/ RestartReplaces
  \/ WatchSees \/ DownBegins \/ DownSnapshot \/ DownCancels
  \/ \E a \in Closers :
       CloseDeletes(a) \/ CloseTells(a) \/ CloseKills(a) \/ CloseCleans(a)

Spec == Init /\ [][Next]_vars

\* Goroutines run, an agent answers its handshake and ends when its stdin or the
\* router's context does.  Nothing makes a prompt be answered, or anybody close anything.
Fairness ==
  /\ WF_vars(CreateRegister) /\ WF_vars(CreateAnnounce) /\ WF_vars(CreateAsk) /\ WF_vars(CreateAbort)
  /\ WF_vars(\E q \in asked, ok \in BOOLEAN : q.m # "prompt" /\ Answer(q, ok))
  /\ WF_vars(Exit /\ (~stdinOpen \/ cancelled)) /\ WF_vars(Reap)
  /\ WF_vars(LoopInit \/ LoopSession \/ LoopError \/ LoopOther)
  /\ WF_vars(LoopDeliver \/ LoopReady)
  /\ WF_vars(UserWakes) /\ WF_vars(UserReady)
  /\ WF_vars(UserSends \/ UserEchoes \/ UserAsks)
  /\ WF_vars(RestartAnnounce \/ RestartAsk \/ RestartLooks) /\ WF_vars(RestartWakes)
  /\ WF_vars(RestartReady \/ RestartReplaces)
  /\ WF_vars(WatchSees) /\ WF_vars(DownSnapshot) /\ WF_vars(DownCancels)
  /\ \A a \in Closers :
       /\ WF_vars(CloseDeletes(a) \/ CloseTells(a) \/ CloseKills(a))
       /\ WF_vars(CloseCleans(a))

FairSpec == Spec /\ Fairness

-----------------------------------------------------------------------------
(* Properties *)

Places == {"idle", "over", "started", "announce", "ask", "abort", "failed", "deliver",
           "ready", "wait", "woken", "send", "echo", "look", "replace", "watch", "closing",
           "snapshot", "cancel", "delete", "event", "kill", "clean"}
Methods == {"init", "new", "prompt"}
Ids == 0..(MaxRestarts + 1)
Messages == [m : Methods \cup {"update", "none"}, ok : BOOLEAN, sid : Ids]
Statuses == {"none", "pending", "running", "complete", "error"}

\* The shape of every variable.
TypeOK ==
  /\ live \in BOOLEAN /\ conv \in Convs /\ sid \in Ids /\ ready \in Ids
  /\ handshakeErr \in BOOLEAN /\ cleaned \in BOOLEAN /\ opened \subseteq Convs
  /\ cancelled \in BOOLEAN
  /\ proc \in {"none", "running", "exited"} /\ stdinOpen \in BOOLEAN /\ reaped \in BOOLEAN
  /\ asked \subseteq [m : Methods, conv : Convs, n : 0..MaxPrompts]
  /\ fromAgent \in Seq(Messages) /\ msg \in Messages
  /\ act \in [Actors -> [at : Places, conv : Ids, ch : Ids]]
  /\ db \in [status : [Convs -> Statuses], acp : [Convs -> Ids],
             finished : SUBSET Convs, refused : SUBSET Convs]
  /\ refused \in BOOLEAN /\ hasty \in BOOLEAN /\ ends \in [Convs -> Nat]
  /\ restarts \in 0..MaxRestarts /\ prompts \in 0..MaxPrompts /\ updates \in 0..MaxUpdates

\* Subscribers hear of the end of a conversation at most once, although a close, the exit of
\* the process, a restart and the shutdown all report it.
EndsOnce == \A c \in Convs : ends[c] <= 1

\* The first conversation is not registered yet.
Unborn == act["create"].at \in {"idle", "started"}

Phase(c) ==
  IF Registered(c) THEN "live" ELSE IF c > conv \/ (c = conv /\ Unborn) THEN "new" ELSE "left"

\* Every conversation has one life, and its end is told once, after it has left the router,
\* whoever ends it and whatever else runs: this module implements ConversationLife.
Life == INSTANCE ConversationLife WITH phase <- [c \in Convs |-> Phase(c)]
EachLivesOnce == Life!Spec

\* No conversation is finished in the store while it is the one the router has live.
LiveIsUnfinished == live => conv \notin db.finished

\* Who was woken by a ready channel finds an ACP session recorded for the conversation it waited
\* for (onMessage closes the channel after it delivered the response), and it is that
\* conversation's own, unless a Restart overtook the handshake of the one before: an answer
\* names no conversation, so that the fresh one then gets the session asked for by the old one.
ReadyIsRecorded ==
  LET c == act["user"].ch IN
  At("user", "send") /\ c # 0 => db.acp[c] # 0 /\ (~hasty => db.acp[c] = c)

\* The row of a created conversation is there before anything of the conversation is logged
\* (Create announces it before it makes the connection).
RowIsFirst == 1 \notin db.refused

\* The store keeps up with the router: nobody acts on, or logs to, a conversation whose row
\* does not show it, with its own session, yet.
StoreKeepsUp == ReadyIsRecorded /\ RowIsFirst

\* A process that exits has its conversation unregistered and its row finished, unless its
\* session was restarted, the router shut down, or its Create failed.
DeadIsFinalized ==
  proc = "exited" ~> (~live /\ 1 \in db.finished) \/ restarts > 0 \/ cancelled \/ At("create", "failed")

\* Whoever unregisters a conversation also stops its process and cleans up after it.
ClosedIsCleaned == \A a \in Closers : At(a, "event") ~> cleaned

\* WaitReady returns if the agent lives.
WaitReturns == At("user", "wait") ~> ~At("user", "wait") \/ proc = "exited" \/ restarts > 0

\* A finished row says how the conversation ended: "finish marks a session complete (or
\* errored) and stamps finished_at" (persister.go).
FinishedStays == \A c \in db.finished : db.status[c] \in {"complete", "error"}

\* Restart: "A types.ConversationReplaced event is emitted once the new session is ready"
\* (router.go:773-776).
ReplacedIsReady ==
  At("restart", "replace") /\ Registered(act["restart"].conv) => sid = act["restart"].conv

\* "A post-handshake failure (a prompt error) leaves ready untouched" (router.go, onMessage).
OnlyHandshakeFails == handshakeErr => refused
=============================================================================
