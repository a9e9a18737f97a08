------------------------------ MODULE Scheduler ------------------------------
(***************************************************************************)
(* One scheduled job (router/scheduler.go): cron starts runs of it, each   *)
(* in a goroutine of its own; a run gets a conversation, submits its       *)
(* prompt and leaves; the end of the turn reaches Receive on the goroutine *)
(* of whoever reports it.  Jobs share nothing, so one is enough.           *)
(*                                                                         *)
(* The router is here what the scheduler sees of it: conversations that    *)
(* are registered under an id, a ready channel, prompts that are answered  *)
(* or not, and ConversationClosed; Conversations has the rest.  The        *)
(* conversation that run r creates is conversation r.  No channel prompts, *)
(* restarts or closes it: web and discord know only their own.             *)
(***************************************************************************)
EXTENDS Integers, FiniteSets

CONSTANTS
  CommitHook,    \* the project of the job has the commit hook
  MaxRuns,       \* bound: ticks that start a run
  MaxUpsets,     \* bound: processes that exit, and handshakes that fail
  MaxFollows     \* bound: follow-up prompts of the hook

ASSUME SchedulerAssumption ==
  /\ CommitHook \in BOOLEAN
  /\ MaxRuns \in Nat \ {0} /\ MaxUpsets \in Nat /\ MaxFollows \in Nat

Convs == 1..MaxRuns

\* run: runJob.  loop: the receive loop of a conversation.  watch: watchProcess.
Actors == {"run", "loop", "watch"} \X Convs

VARIABLES
  \* Scheduler.
  reuse,      \* the job's reuse_session, which never changes
  running,    \* the job is marked running
  reusable,   \* the conversation kept for it, 0 if none
  inflight,   \* conversations that run it
  \* Router.
  reg,        \* conversations that are registered
  opened,     \* conversations whose ready channel is closed
  failed,     \* conversations whose handshake failed
  dead,       \* conversations whose process is gone
  asked,      \* requests no agent has answered
  \* Goroutines: where each is, its conversation, and whether it still has to close the process
  \* and to send a follow-up prompt.
  act,
  \* History.
  holder,     \* the last run that marked the job
  answered,   \* runs whose prompt was answered
  upset,      \* conversations that ended by themselves, did not start or had a follow-up
  unsent,     \* conversations in which a follow-up could not be sent
  \* Bounds.
  upsets, follows

schedVars  == <<reuse, running, reusable, inflight>>
routerVars == <<reg, opened, failed, dead, asked>>
histVars   == <<holder, answered, upset, unsent>>
bounds     == <<upsets, follows>>
vars       == <<schedVars, routerVars, act, histVars, bounds>>

Idle == [at |-> "idle", conv |-> 0, kill |-> FALSE, follow |-> FALSE]
NewSession(c) == [conv |-> c, of |-> "new", run |-> 0]
Prompt(c, r) == [conv |-> c, of |-> "prompt", run |-> r]   \* run 0: not the scheduler's

Init ==
  /\ reuse \in BOOLEAN
  /\ running = FALSE /\ reusable = 0 /\ inflight = {}
  /\ reg = {} /\ opened = {} /\ failed = {} /\ dead = {}
  /\ asked = {} /\ act = [a \in Actors |-> Idle]
  /\ holder = 0 /\ answered = {} /\ upset = {} /\ unsent = {}
  /\ upsets = 0 /\ follows = 0

Run(r)  == <<"run", r>>
Loop(c) == <<"loop", c>>
Watcher(c) == <<"watch", c>>
At(a, where) == act[a].at = where
Goto(a, where) == act' = [act EXCEPT ![a].at = where]
\* Where a goroutine goes on when its call of Receive, or of CloseConversation, returns.
Home(a) == IF a[1] = "run" THEN "done" ELSE IF act[a].follow THEN "follow" ELSE "idle"
Rest(a) == IF act[a].kill THEN "kill" ELSE Home(a)
AskedOf(c) == {q \in asked : q.conv = c}

-----------------------------------------------------------------------------
(* runJob *)

\* Mutant: nothing keeps a second run from starting.
TickUnguarded(r) ==
  /\ At(Run(r), "idle") /\ holder = r - 1
  /\ running' = TRUE /\ holder' = r
  /\ Goto(Run(r), "acquire")
  /\ UNCHANGED <<reuse, reusable, inflight, routerVars, answered, upset, unsent, bounds>>

\* A tick that finds the job running is skipped.
Tick(r) ==
  /\ At(Run(r), "idle") /\ holder = r - 1
  /\ ~running
  /\ running' = TRUE /\ holder' = r
  /\ Goto(Run(r), "acquire")
  /\ UNCHANGED <<reuse, reusable, inflight, routerVars, answered, upset, unsent, bounds>>

\* No prompt file, no router, or Create fails: the job is released here.
RunFails(r) ==
  /\ At(Run(r), "acquire")
  /\ running' = FALSE
  /\ Goto(Run(r), "done")
  /\ UNCHANGED <<reuse, reusable, inflight, routerVars, histVars, bounds>>

\* acquireConversation: the kept one is used when it is Active ...
RunReuses(r) ==
  /\ At(Run(r), "acquire") /\ reuse /\ reusable \in reg
  /\ act' = [act EXCEPT ![Run(r)].at = "hand", ![Run(r)].conv = reusable]
  /\ UNCHANGED <<schedVars, routerVars, histVars, bounds>>

\* ... else one is created, and remembered by a job that reuses it.
RunCreates(r) ==
  /\ At(Run(r), "acquire") /\ ~(reuse /\ reusable \in reg)
  /\ reg' = reg \cup {r}
  /\ asked' = asked \cup {NewSession(r)}
  /\ act' = [act EXCEPT ![Run(r)].at = IF reuse THEN "record" ELSE "hand", ![Run(r)].conv = r]
  /\ UNCHANGED <<schedVars, opened, failed, dead, histVars, bounds>>

RunRecords(r) ==
  /\ At(Run(r), "record")
  /\ reusable' = act[Run(r)].conv
  /\ Goto(Run(r), "hand")
  /\ UNCHANGED <<reuse, running, inflight, routerVars, histVars, bounds>>

\* From here on Receive finishes the run.
RunHands(r) ==
  /\ At(Run(r), "hand")
  /\ inflight' = inflight \cup {act[Run(r)].conv}
  /\ Goto(Run(r), "look")
  /\ UNCHANGED <<reuse, running, reusable, routerVars, histVars, bounds>>

\* Mutant: the run does not finish itself when its conversation is gone.
RunLooksOnly(r) ==
  /\ At(Run(r), "look")
  /\ Goto(Run(r), IF act[Run(r)].conv \in reg THEN "wait" ELSE "done")
  /\ UNCHANGED <<schedVars, routerVars, histVars, bounds>>

\* WaitReady: the lookup ...
RunLooks(r) ==
  /\ At(Run(r), "look")
  /\ Goto(Run(r), IF act[Run(r)].conv \in reg THEN "wait" ELSE "finish")
  /\ UNCHANGED <<schedVars, routerVars, histVars, bounds>>

\* ... the ready channel, which nobody closes when the process ends before ...
RunWakes(r) ==
  /\ At(Run(r), "wait") /\ act[Run(r)].conv \in opened
  /\ Goto(Run(r), "woken")
  /\ UNCHANGED <<schedVars, routerVars, histVars, bounds>>

\* ... and the error of the handshake.
RunIsReady(r) ==
  /\ At(Run(r), "woken")
  /\ Goto(Run(r), IF act[Run(r)].conv \in failed THEN "finish" ELSE "send")
  /\ UNCHANGED <<schedVars, routerVars, histVars, bounds>>

\* Send: the lookup, then the write, which fails when the process is gone.
RunSends(r) ==
  /\ At(Run(r), "send")
  /\ Goto(Run(r), IF act[Run(r)].conv \in reg THEN "ask" ELSE "finish")
  /\ UNCHANGED <<schedVars, routerVars, histVars, bounds>>

RunAsks(r) ==
  LET c == act[Run(r)].conv IN
  /\ At(Run(r), "ask")
  /\ IF c \in dead
       THEN Goto(Run(r), "finish") /\ UNCHANGED asked
       ELSE Goto(Run(r), "done") /\ asked' = asked \cup {Prompt(c, r)}
  /\ UNCHANGED <<schedVars, reg, opened, failed, dead, histVars, bounds>>

-----------------------------------------------------------------------------
(* Receive and finish, and the closeConversation they and watchProcess call *)

\* Receive: a message that ends a turn is for the job if its conversation runs it.
ReceiveLooks(a) ==
  /\ At(a, "receive")
  /\ Goto(a, IF act[a].conv \in inflight THEN "finish" ELSE Rest(a))
  /\ UNCHANGED <<schedVars, routerVars, histVars, bounds>>

\* Mutant: the conversation of a job that does not reuse it is kept.
FinishKeepsConversation(a) ==
  /\ At(a, "finish")
  /\ inflight' = inflight \ {act[a].conv} /\ running' = FALSE
  /\ Goto(a, Rest(a))
  /\ UNCHANGED <<reuse, reusable, routerVars, histVars, bounds>>

\* finish, without asking whether it is done already.
Finish(a) ==
  /\ At(a, "finish")
  /\ inflight' = inflight \ {act[a].conv} /\ running' = FALSE
  /\ Goto(a, IF reuse THEN Rest(a) ELSE "delete")
  /\ UNCHANGED <<reuse, reusable, routerVars, histVars, bounds>>

\* closeConversation: who removes the conversation tells the subscribers, then closes the process.
Delete(a) ==
  LET c == act[a].conv IN
  /\ At(a, "delete")
  /\ reg' = reg \ {c}
  /\ act' = [act EXCEPT ![a].at = IF c \in reg THEN "receive" ELSE Rest(a),
                        ![a].kill = @ \/ c \in reg]
  /\ UNCHANGED <<schedVars, opened, failed, dead, asked, histVars, bounds>>

Kill(a) ==
  LET c == act[a].conv IN
  /\ At(a, "kill")
  /\ dead' = dead \cup {c} /\ asked' = asked \ AskedOf(c)
  /\ act' = [act EXCEPT ![a].at = Home(a), ![a].kill = FALSE]
  /\ UNCHANGED <<schedVars, reg, opened, failed, histVars, bounds>>

-----------------------------------------------------------------------------
(* The agent and its receive loop *)

\* Mutant: Receive takes the session/new response for the end of a turn.
HandshakeFinishes(c) ==
  /\ At(Loop(c), "idle") /\ NewSession(c) \in asked
  /\ asked' = asked \ {NewSession(c)} /\ opened' = opened \cup {c}
  /\ act' = [act EXCEPT ![Loop(c)] = [Idle EXCEPT !.at = "receive", !.conv = c]]
  /\ UNCHANGED <<schedVars, reg, failed, dead, histVars, bounds>>

\* The session/new response: only WaitReady hears of it.
Handshake(c) ==
  /\ At(Loop(c), "idle") /\ NewSession(c) \in asked
  /\ asked' = asked \ {NewSession(c)} /\ opened' = opened \cup {c}
  /\ UNCHANGED <<schedVars, reg, failed, dead, act, histVars, bounds>>

\* Its error wakes WaitReady and, after that, is delivered.
HandshakeFails(c) ==
  /\ At(Loop(c), "idle") /\ NewSession(c) \in asked /\ upsets < MaxUpsets
  /\ upsets' = upsets + 1
  /\ asked' = asked \ {NewSession(c)} /\ opened' = opened \cup {c}
  /\ failed' = failed \cup {c} /\ upset' = upset \cup {c}
  /\ act' = [act EXCEPT ![Loop(c)] = [Idle EXCEPT !.at = "receive", !.conv = c]]
  /\ UNCHANGED <<schedVars, reg, dead, holder, answered, unsent, follows>>

\* The answer to a prompt, a result or an error.  The hook sees a result first, and asks for a
\* follow-up if the turn left changes.
Answer(q, follow) ==
  /\ At(Loop(q.conv), "idle") /\ q \in asked /\ q.of = "prompt"
  /\ follow => CommitHook /\ follows < MaxFollows
  /\ asked' = asked \ {q}
  /\ answered' = answered \cup ({q.run} \ {0})
  /\ follows' = IF follow THEN follows + 1 ELSE follows
  /\ act' = [act EXCEPT ![Loop(q.conv)] =
              [Idle EXCEPT !.at = "receive", !.conv = q.conv, !.follow = follow]]
  /\ UNCHANGED <<schedVars, reg, opened, failed, dead, holder, upset, unsent, upsets>>

\* triggerPrompt, after the response was delivered.
FollowUp(c) ==
  /\ At(Loop(c), "follow")
  /\ act' = [act EXCEPT ![Loop(c)] = Idle]
  /\ IF c \in dead
       THEN unsent' = unsent \cup {c} /\ UNCHANGED <<asked, upset>>
       ELSE asked' = asked \cup {Prompt(c, 0)} /\ upset' = upset \cup {c} /\ UNCHANGED unsent
  /\ UNCHANGED <<schedVars, reg, opened, failed, dead, holder, answered, bounds>>

\* The process ends by itself ...
Exit(c) ==
  /\ c \in reg \ dead /\ upsets < MaxUpsets
  /\ upsets' = upsets + 1
  /\ dead' = dead \cup {c} /\ asked' = asked \ AskedOf(c) /\ upset' = upset \cup {c}
  /\ UNCHANGED <<schedVars, reg, opened, failed, act, holder, answered, unsent, follows>>

\* ... and watchProcess closes the conversation if it is still registered.
Watch(c) ==
  /\ c \in dead \cap reg /\ At(Watcher(c), "idle")
  /\ act' = [act EXCEPT ![Watcher(c)] = [Idle EXCEPT !.at = "delete", !.conv = c]]
  /\ UNCHANGED <<schedVars, routerVars, histVars, bounds>>

-----------------------------------------------------------------------------
RunJob(r) ==
  \/ RunFails(r) \/ RunReuses(r) \/ RunCreates(r) \/ RunRecords(r) \/ RunHands(r) \/ RunLooks(r)
  \/ RunWakes(r) \/ RunIsReady(r) \/ RunSends(r) \/ RunAsks(r)

Receive(a) == ReceiveLooks(a) \/ Finish(a) \/ Delete(a) \/ Kill(a)

Next ==
  \/ \E r \in Convs : Tick(r) \/ RunJob(r)
  \/ \E a \in Actors : Receive(a)
  \/ \E c \in Convs :
       Handshake(c) \/ HandshakeFails(c) \/ FollowUp(c) \/ Exit(c) \/ Watch(c)
  \/ \E q \in asked, follow \in BOOLEAN : Answer(q, follow)

Spec == Init /\ [][Next]_vars

\* Goroutines run.  Cron need not tick, and agents need not answer.
Fairness ==
  /\ \A r \in Convs : WF_vars(RunJob(r)) /\ WF_vars(FollowUp(r)) /\ WF_vars(Watch(r))
  /\ \A a \in Actors : WF_vars(Receive(a))

FairSpec == Spec /\ Fairness

-----------------------------------------------------------------------------
(* Properties *)

Places == {"idle", "acquire", "record", "hand", "look", "wait", "woken", "send", "ask", "done",
           "receive", "finish", "delete", "kill", "follow"}

\* The shape of every variable.
TypeOK ==
  /\ reuse \in BOOLEAN /\ running \in BOOLEAN
  /\ reusable \in Convs \cup {0} /\ inflight \subseteq Convs /\ reg \subseteq Convs
  /\ opened \subseteq Convs /\ failed \subseteq Convs /\ dead \subseteq Convs
  /\ asked \subseteq [conv : Convs, of : {"new", "prompt"}, run : Convs \cup {0}]
  /\ act \in [Actors -> [at : Places, conv : Convs \cup {0},
                         kill : BOOLEAN, follow : BOOLEAN]]
  /\ holder \in Convs \cup {0} /\ answered \subseteq Convs
  /\ upset \subseteq Convs /\ unsent \subseteq Convs
  /\ upsets \in 0..MaxUpsets /\ follows \in 0..MaxFollows

\* The prompts of the job that are being worked on.
Turns == {q \in asked : q.run # 0}

\* Two prompts of the job are in work at once only if a process exited, a handshake failed or
\* a hook sent a follow-up (running, Receive, finish).
OverlapNeedsUpset == Cardinality(Turns) <= 1 \/ upset # {}

\* As long as none of that happened, a job that keeps its conversation has no more than one.
OneKept == reuse => Cardinality(reg) <= 1 \/ upset # {}

\* A job works on one thing at a time, in one conversation if it keeps it.
OneAtATime == OverlapNeedsUpset /\ OneKept

\* The scheduler never closes a conversation while its job's prompt is in work there.
TurnIsNotCut ==
  \A c \in Convs, a \in Actors :
    a[1] # "watch" /\ act[a].conv = c /\ act[a].at \in {"delete", "kill"}
      => AskedOf(c) \cap Turns = {}

\* However its turn ends, by an answer, an error, an exit or a failed handshake, the job is
\* released: no later tick is skipped for it.
TurnEnded(r) ==
  LET c == act[Run(r)].conv IN
  c # 0 /\ (r \in answered \/ c \notin reg \/ c \in failed)
JobIsReleased ==
  \A r \in Convs : running /\ holder = r /\ TurnEnded(r) ~> ~running \/ holder # r

\* The process of a conversation that is not kept ends after the answer to its prompt.
OneShotEnds == \A c \in Convs : ~reuse /\ c \in answered ~> c \in dead

\* "running guards against overlapping runs of the same job" (scheduler.go, Scheduler).
RunsDoNotOverlap == Cardinality(Turns) <= 1

\* "auto-commits a dirty git working tree after each substantive prompt turn by injecting a
\* follow-up commit prompt" (hook/commit.go): the follow-up can be sent unless the process ended
\* by itself.
FollowUpIsSent == unsent \subseteq upset
=============================================================================
