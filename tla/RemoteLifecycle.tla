-------------------------- MODULE RemoteLifecycle --------------------------
(***************************************************************************)
(* Which processes of a location run, and which of them the server has a   *)
(* handle for (remote/hub.go, remote/agent.go).  One hub, one location,    *)
(* one remote agent; a stream is a process together with its records at    *)
(* both ends.  The bytes of the streams are the business of RemoteStdout   *)
(* and RemoteStdin, which show that resuming one always succeeds.          *)
(*                                                                         *)
(* Every message about a stream is written by a goroutine of its own, so   *)
(* the order of two of them is not fixed and what is in flight is a set.   *)
(* A message to an end that has closed is lost.                            *)
(*                                                                         *)
(* finish is two critical sections, dropHandle and markFinished, and       *)
(* attach is one for each stream it answers: other goroutines run between. *)
(***************************************************************************)
EXTENDS Naturals, FiniteSets

CONSTANTS
  Ids,          \* streams
  MaxDrops,     \* bound: connections that break
  MaxServers,   \* bound: server restarts
  MaxAgents     \* bound: remote agent restarts

ASSUME LifecycleAssumption ==
  /\ IsFiniteSet(Ids)
  /\ MaxDrops \in Nat /\ MaxServers \in Nat /\ MaxAgents \in Nat

VARIABLES
  \* Server: the location.
  conn,      \* "off", "claimed", "attach", "lost", "ready"
  grace,     \* its grace timer runs
  handles,   \* streams with a handle
  tomb,      \* streams given up, to be stopped when the agent reports them
  fin,       \* streams this hub saw end
  ending,    \* handles whose finish has been called ...
  marking,   \* ... and has dropped them, but not yet marked them finished
  done,      \* handles whose Done is closed
  todo,      \* attach: streams of the hello still to be answered
  lost,      \* attach: handles the hello did not mention
  \* Server: the callers of the hub.
  start,     \* Start: "no", "hosted", "registered", "asked", "broken", "failed", "up"
  desc,      \* handles that hold a descriptor with a session
  closing,   \* handles whose Close waits for the exit
  leaving,   \* the server is shutting down: the router has let go of its streams
  \* Connection.
  hs,        \* the handshake message in flight: "none", "hello", "welcome"
  said,      \* contents of the last hello
  answer,    \* contents of the last welcome
  toSrv, toAgent,
  \* Remote agent.
  link,      \* "off", "hello", "on"
  rec,       \* streams it has a record of
  proc,      \* "none", "running", "stopping", "exited"
  adesc,     \* records whose descriptor names a session
  spawning,  \* spawn goroutines: "no", "live", "stale" (their connection is gone)
  agrace,    \* its grace timer runs
  reaping,   \* processes its expire is about to stop
  \* History.
  cause,     \* why this server gave up on a stream: "no", "start", "close", "expire"
  \* Bounds.
  drops, servers, agents

locVars    == <<conn, grace, handles, tomb, fin, ending, marking, done, todo, lost>>
callerVars == <<start, desc, closing, leaving>>
wireVars   == <<hs, said, answer, toSrv, toAgent>>
agentVars  == <<link, rec, proc, adesc, spawning, agrace, reaping>>
histVars   == <<cause>>
bounds     == <<drops, servers, agents>>
vars       == <<locVars, callerVars, wireVars, agentVars, histVars, bounds>>

None == [ids |-> {}, exited |-> {}, desc |-> {}]
NoAnswer == [resume |-> {}, kill |-> {}]
Msg(t, id) == [type |-> t, id |-> id]

\* Nothing known at the server: a process just started.
FreshServer ==
  /\ conn' = "off" /\ grace' = FALSE /\ handles' = {} /\ tomb' = {} /\ fin' = {}
  /\ ending' = {} /\ marking' = {} /\ done' = {} /\ todo' = {} /\ lost' = {}
  /\ start' = [id \in Ids |-> IF start[id] = "no" THEN "no" ELSE "failed"]
  /\ desc' = {} /\ closing' = {} /\ leaving' = FALSE
  /\ cause' = [id \in Ids |-> "no"]

Init ==
  /\ conn = "off" /\ grace = FALSE /\ handles = {} /\ tomb = {} /\ fin = {}
  /\ ending = {} /\ marking = {} /\ done = {} /\ todo = {} /\ lost = {}
  /\ start = [id \in Ids |-> "no"] /\ desc = {} /\ closing = {} /\ leaving = FALSE
  /\ hs = "none" /\ said = None /\ answer = NoAnswer /\ toSrv = {} /\ toAgent = {}
  /\ link = "off" /\ rec = {} /\ proc = [id \in Ids |-> "none"] /\ adesc = {}
  /\ spawning = [id \in Ids |-> "no"] /\ agrace = FALSE /\ reaping = {}
  /\ cause = [id \in Ids |-> "no"]
  /\ drops = 0 /\ servers = 0 /\ agents = 0

ToAgent(S) == toAgent' = IF link = "off" THEN toAgent ELSE toAgent \cup S
ToServer(S) == toSrv' = IF conn = "off" THEN toSrv ELSE toSrv \cup S

-----------------------------------------------------------------------------
(* The end of a handle *)

\* finish(id), up to the point where the goroutine has called it.
Finish(S) == ending' = ending \cup S

\* dropHandle
FinishDrop(id) ==
  /\ id \in ending \ marking
  /\ handles' = handles \ {id} /\ marking' = marking \cup {id}
  /\ UNCHANGED <<conn, grace, tomb, fin, ending, done, todo, lost, callerVars, wireVars,
                 agentVars, histVars, bounds>>

\* Mutant: the end is not remembered as finished.
FinishMarkUnmarked(id) ==
  /\ id \in marking
  /\ marking' = marking \ {id} /\ ending' = ending \ {id}
  /\ done' = done \cup {id}
  /\ closing' = closing \ {id}
  /\ UNCHANGED <<conn, grace, handles, tomb, fin, todo, lost, start, desc, leaving, wireVars,
                 agentVars, cause, bounds>>

\* markFinished, and Done closes: the router hears of the end.
FinishMark(id) ==
  /\ id \in marking
  /\ fin' = fin \cup {id} /\ marking' = marking \ {id} /\ ending' = ending \ {id}
  /\ done' = done \cup {id}
  /\ closing' = closing \ {id}
  /\ UNCHANGED <<conn, grace, handles, tomb, todo, lost, start, desc, leaving, wireVars,
                 agentVars, cause, bounds>>

-----------------------------------------------------------------------------
(* Start *)

\* Router.Create asks for the host while the location is connected; its session
\* hooks run before Start.
Host(id) ==
  /\ ~leaving /\ conn = "ready" /\ start[id] = "no"
  /\ start' = [start EXCEPT ![id] = "hosted"]
  /\ UNCHANGED <<locVars, desc, closing, leaving, wireVars, agentVars, histVars, bounds>>

\* The handle is registered first.
StartRegister(id) ==
  /\ start[id] = "hosted"
  /\ start' = [start EXCEPT ![id] = "registered"]
  /\ handles' = handles \cup {id}
  /\ UNCHANGED <<conn, grace, tomb, fin, ending, marking, done, todo, lost, desc, closing,
                 leaving, wireVars, agentVars, histVars, bounds>>

\* request: the spawn is sent if the location is ready.
StartAsk(id) ==
  /\ start[id] = "registered"
  /\ IF conn = "ready"
       THEN /\ start' = [start EXCEPT ![id] = "asked"]
            /\ ToAgent({Msg("spawn", id)})
       ELSE /\ start' = [start EXCEPT ![id] = "broken"]
            /\ UNCHANGED toAgent
  /\ UNCHANGED <<locVars, desc, closing, leaving, hs, said, answer, toSrv, agentVars, histVars,
                 bounds>>

\* No reply: the spawn may or may not have happened.
StartFails(id) ==
  /\ start[id] = "broken"
  /\ start' = [start EXCEPT ![id] = "failed"]
  /\ handles' = handles \ {id} /\ tomb' = tomb \cup {id}
  /\ cause' = [cause EXCEPT ![id] = "start"]
  /\ UNCHANGED <<conn, grace, fin, ending, marking, done, todo, lost, desc, closing, leaving,
                 wireVars, agentVars, bounds>>

\* The reply: Start returns the handle, or the agent's error.
RecvSpawned(id) ==
  /\ conn = "ready" /\ Msg("spawned", id) \in toSrv
  /\ toSrv' = toSrv \ {Msg("spawned", id)}
  /\ start' = [start EXCEPT ![id] = IF @ = "asked" THEN "up" ELSE @]
  /\ UNCHANGED <<locVars, desc, closing, leaving, hs, said, answer, toAgent, agentVars, histVars,
                 bounds>>

RecvRefused(id) ==
  /\ conn = "ready" /\ Msg("refused", id) \in toSrv
  /\ toSrv' = toSrv \ {Msg("refused", id)}
  /\ start' = [start EXCEPT ![id] = IF @ = "asked" THEN "failed" ELSE @]
  /\ handles' = IF start[id] = "asked" THEN handles \ {id} ELSE handles
  /\ UNCHANGED <<conn, grace, tomb, fin, ending, marking, done, todo, lost, desc, closing,
                 leaving, hs, said, answer, toAgent, agentVars, histVars, bounds>>

-----------------------------------------------------------------------------
(* What else the router asks of a handle *)

\* UpdateDescriptor, once the ACP session is known.
UpdateDescriptor(id) ==
  /\ ~leaving /\ start[id] = "up" /\ id \notin done \cup desc
  /\ desc' = desc \cup {id}
  /\ IF conn = "ready" THEN ToAgent({Msg("descriptor", id)}) ELSE UNCHANGED toAgent
  /\ UNCHANGED <<locVars, start, closing, leaving, hs, said, answer, toSrv, agentVars, histVars,
                 bounds>>

\* Close.  The send fails when the location is not ready, or on a connection whose
\* other end is gone: the process is to be stopped when the agent returns.
Close(id) ==
  /\ ~leaving /\ start[id] = "up" /\ id \notin done \cup closing /\ cause[id] = "no"
  /\ \/ /\ conn = "ready"
        /\ ToAgent({Msg("close", id)})
        /\ closing' = closing \cup {id}
        /\ UNCHANGED <<tomb, ending, cause>>
     \/ /\ conn # "ready" \/ link = "off"
        /\ tomb' = tomb \cup {id}
        /\ Finish({id})
        /\ cause' = [cause EXCEPT ![id] = "close"]
        /\ UNCHANGED <<toAgent, closing>>
  /\ UNCHANGED <<conn, grace, handles, fin, marking, done, todo, lost, start, desc, leaving, hs,
                 said, answer, toSrv, agentVars, bounds>>

\* The remote process did not exit in time.
CloseTimeout(id) ==
  /\ id \in closing \ ending
  /\ closing' = closing \ {id}
  /\ tomb' = tomb \cup {id}
  /\ Finish({id})
  /\ cause' = [cause EXCEPT ![id] = "close"]
  /\ UNCHANGED <<conn, grace, handles, fin, marking, done, todo, lost, start, desc, leaving,
                 wireVars, agentVars, bounds>>

\* Router.Close detaches its remote streams and then closes everything else; the hub
\* closes its connections last (cli/serve.go).
Leave ==
  /\ ~leaving /\ conn = "ready"
  /\ \A id \in Ids : start[id] \in {"no", "up", "failed"}
  /\ ending = {} /\ closing = {}
  /\ leaving' = TRUE
  /\ handles' = {}
  /\ UNCHANGED <<conn, grace, tomb, fin, ending, marking, done, todo, lost, start, desc, closing,
                 wireVars, agentVars, cause, bounds>>

-----------------------------------------------------------------------------
(* The connection *)

\* Mutant: the grace timer is not started.
DetachUntimed ==
  /\ conn' = "off" /\ toSrv' = {}
  /\ hs' = IF hs = "hello" THEN "none" ELSE hs
  /\ start' = [id \in Ids |-> IF start[id] = "asked" THEN "broken" ELSE start[id]]
  /\ grace' = grace

\* Mutant: pending requests go on waiting.
DetachForgetsRequests ==
  /\ conn' = "off" /\ toSrv' = {}
  /\ hs' = IF hs = "hello" THEN "none" ELSE hs
  /\ start' = start
  /\ grace' = (grace \/ handles # {})

\* detachConn: pending requests fail, and the grace timer starts over.
Detach ==
  /\ conn' = "off" /\ toSrv' = {}
  /\ hs' = IF hs = "hello" THEN "none" ELSE hs
  /\ start' = [id \in Ids |-> IF start[id] = "asked" THEN "broken" ELSE start[id]]
  /\ grace' = (grace \/ handles # {})

\* The server notices the loss when it reads: before the hello or after attach.
ServerLoses ==
  /\ conn \in {"claimed", "ready"}
  /\ link = "off" \/ drops < MaxDrops
  /\ drops' = IF link = "off" THEN drops ELSE drops + 1
  /\ Detach
  /\ UNCHANGED <<handles, tomb, fin, ending, marking, done, todo, lost, desc, closing, leaving,
                 said, answer, toAgent, agentVars, histVars, servers, agents>>

\* The server process ends, gracefully or not, and another one starts.
ServerRestarts ==
  /\ servers < MaxServers /\ servers' = servers + 1
  /\ FreshServer
  /\ toSrv' = {} /\ hs' = IF hs = "hello" THEN "none" ELSE hs
  /\ UNCHANGED <<said, answer, toAgent, agentVars, drops, agents>>

\* disconnected: a connection that got its welcome starts the grace timer, unless
\* there is no stream.
AgentLoses ==
  /\ link # "off"
  /\ conn = "off" \/ drops < MaxDrops
  /\ drops' = IF conn = "off" THEN drops ELSE drops + 1
  /\ link' = "off" /\ toAgent' = {}
  /\ hs' = IF hs = "welcome" THEN "none" ELSE hs
  /\ spawning' = [id \in Ids |-> IF spawning[id] = "live" THEN "stale" ELSE spawning[id]]
  /\ agrace' = (agrace \/ (link = "on" /\ rec # {}))
  /\ UNCHANGED <<locVars, callerVars, said, answer, toSrv, rec, proc, adesc, reaping, histVars,
                 servers, agents>>

\* Another remote agent process takes over the location, without any stream.
AgentRestarts ==
  /\ agents < MaxAgents /\ agents' = agents + 1
  /\ link' = "off" /\ toAgent' = {} /\ hs' = IF hs = "welcome" THEN "none" ELSE hs
  /\ rec' = {} /\ adesc' = {} /\ reaping' = {} /\ agrace' = FALSE
  /\ spawning' = [id \in Ids |-> "no"]
  /\ proc' = [id \in Ids |-> IF proc[id] = "none" THEN "none" ELSE "exited"]
  /\ UNCHANGED <<locVars, callerVars, said, answer, toSrv, histVars, drops, servers>>

\* A new session, refused while the location is claimed.  Bound: none while the
\* server shuts down.
Dial ==
  /\ link = "off" /\ conn = "off" /\ ~leaving
  /\ link' = "hello" /\ conn' = "claimed" /\ hs' = "hello"
  /\ said' = [ids |-> rec, exited |-> {id \in rec : proc[id] = "exited"}, desc |-> adesc]
  /\ UNCHANGED <<grace, handles, tomb, fin, ending, marking, done, todo, lost, callerVars, answer,
                 toSrv, toAgent, rec, proc, adesc, spawning, agrace, reaping, histVars, bounds>>

\* attach reads the hello: the connection is the location's, its timer stops.
AttachBegin ==
  /\ conn = "claimed" /\ hs = "hello"
  /\ conn' = "attach" /\ hs' = "none" /\ grace' = FALSE
  /\ todo' = said.ids /\ answer' = NoAnswer
  /\ UNCHANGED <<handles, tomb, fin, ending, marking, done, lost, callerVars, said, toSrv,
                 toAgent, agentVars, histVars, bounds>>

\* One stream of the hello: known here, given up or finished here, ended while no
\* server watched, or to be adopted.  Adopt refuses a stream without a session and
\* may fail for reasons of its own.  Bound: nothing is adopted between the two halves of
\* a finish, which would have to be suspended over two whole handshakes.
Answered(id, how) ==
  /\ conn = "attach" /\ id \in todo
  /\ todo' = todo \ {id} /\ tomb' = tomb \ {id}
  /\ answer' = [answer EXCEPT ![how] = @ \cup {id}]

AnswerKnown(id) ==
  /\ id \in handles /\ Answered(id, "resume")
  /\ UNCHANGED <<conn, grace, handles, fin, ending, marking, done, lost, callerVars, hs, said,
                 toSrv, toAgent, agentVars, histVars, bounds>>

AnswerGivenUp(id) ==
  /\ id \notin handles /\ id \in tomb \cup fin /\ Answered(id, "kill")
  /\ UNCHANGED <<conn, grace, handles, fin, ending, marking, done, lost, callerVars, hs, said,
                 toSrv, toAgent, agentVars, histVars, bounds>>

AnswerEnded(id) ==
  /\ id \notin handles \cup tomb \cup fin /\ id \in said.exited /\ Answered(id, "kill")
  /\ UNCHANGED <<conn, grace, handles, fin, ending, marking, done, lost, callerVars, hs, said,
                 toSrv, toAgent, agentVars, histVars, bounds>>

\* Mutant: a refused adoption leaves its handle behind.
AnswerNewKeepsHandle(id) ==
  /\ id \notin handles \cup tomb \cup fin \cup said.exited
  /\ \/ /\ id \in said.desc \ marking /\ Answered(id, "resume")
        /\ handles' = handles \cup {id} /\ done' = done \ {id}
        /\ start' = [start EXCEPT ![id] = "up"] /\ desc' = desc \cup {id}
     \/ /\ Answered(id, "kill")
        /\ handles' = handles \cup {id}
        /\ UNCHANGED <<done, start, desc>>
  /\ UNCHANGED <<conn, grace, fin, ending, marking, lost, closing, leaving, hs, said, toSrv,
                 toAgent, agentVars, histVars, bounds>>

AnswerNew(id) ==
  /\ id \notin handles \cup tomb \cup fin \cup said.exited
  /\ \/ /\ id \in said.desc \ marking /\ Answered(id, "resume")
        /\ handles' = handles \cup {id} /\ done' = done \ {id}
        /\ start' = [start EXCEPT ![id] = "up"] /\ desc' = desc \cup {id}
     \/ /\ Answered(id, "kill")
        /\ UNCHANGED <<handles, done, start, desc>>
  /\ UNCHANGED <<conn, grace, fin, ending, marking, lost, closing, leaving, hs, said, toSrv,
                 toAgent, agentVars, histVars, bounds>>

\* Mutant: a stream the agent no longer has is waited for.
AttachLostKeeps ==
  /\ conn = "attach" /\ todo = {}
  /\ conn' = "lost"
  /\ UNCHANGED lost
  /\ Finish({})
  /\ UNCHANGED <<grace, handles, tomb, fin, marking, done, todo, callerVars, wireVars, agentVars,
                 histVars, bounds>>

\* Handles the hello did not mention are finished as lost.
AttachLost ==
  /\ conn = "attach" /\ todo = {}
  /\ conn' = "lost"
  /\ lost' = handles \ said.ids
  /\ Finish(handles \ said.ids)
  /\ UNCHANGED <<grace, handles, tomb, fin, marking, done, todo, callerVars, wireVars, agentVars,
                 histVars, bounds>>

\* The welcome goes out and the location is ready; descriptors are sent again.
AttachEnd ==
  /\ conn = "lost" /\ lost \cap ending = {}
  /\ conn' = "ready" /\ lost' = {}
  /\ hs' = IF link = "hello" THEN "welcome" ELSE "none"
  /\ ToAgent({Msg("descriptor", id) : id \in answer.resume \cap desc})
  /\ UNCHANGED <<grace, handles, tomb, fin, ending, marking, done, todo, callerVars, said, answer,
                 toSrv, agentVars, histVars, bounds>>

\* Or it cannot be sent.
AttachFails ==
  /\ conn = "lost" /\ lost \cap ending = {} /\ link = "off"
  /\ lost' = {}
  /\ Detach
  /\ UNCHANGED <<handles, tomb, fin, ending, marking, done, todo, desc, closing, leaving, said,
                 answer, toAgent, agentVars, histVars, bounds>>

\* expire: the timer finds the location still without a connection.
HubExpire ==
  /\ grace /\ conn \in {"off", "claimed"}
  /\ grace' = FALSE
  /\ tomb' = tomb \cup handles
  /\ Finish(handles)
  /\ cause' = [id \in Ids |-> IF id \in handles THEN "expire" ELSE cause[id]]
  /\ UNCHANGED <<conn, handles, fin, marking, done, todo, lost, callerVars, wireVars, agentVars,
                 bounds>>

\* exit: the handle, if there is one, finishes once its stdout is read; the agent may
\* forget the stream in any case.
RecvExit(id) ==
  /\ conn = "ready" /\ Msg("exit", id) \in toSrv
  /\ toSrv' = toSrv \ {Msg("exit", id)}
  /\ Finish({id} \cap handles)
  /\ ToAgent({Msg("forget", id)})
  /\ UNCHANGED <<conn, grace, handles, tomb, fin, marking, done, todo, lost, callerVars, hs, said,
                 answer, agentVars, histVars, bounds>>

-----------------------------------------------------------------------------
(* The remote agent *)

Stop(S) == proc' = [id \in Ids |-> IF id \in S /\ proc[id] = "running" THEN "stopping" ELSE proc[id]]

\* Mutant: an exit reported before the break is not reported again.
WelcomeNoExit ==
  /\ link = "hello" /\ hs = "welcome"
  /\ link' = "on" /\ hs' = "none" /\ agrace' = FALSE
  /\ rec' = rec \ answer.kill
  /\ Stop(rec \cap answer.kill)
  /\ ToServer({})
  /\ UNCHANGED <<locVars, callerVars, said, answer, toAgent, adesc, spawning, reaping, histVars,
                 bounds>>

\* welcome: streams are resumed, an exit is sent again, or they are killed and
\* forgotten.
Welcome ==
  /\ link = "hello" /\ hs = "welcome"
  /\ link' = "on" /\ hs' = "none" /\ agrace' = FALSE
  /\ rec' = rec \ answer.kill
  /\ Stop(rec \cap answer.kill)
  /\ ToServer({Msg("exit", id) : id \in {i \in rec \cap answer.resume : proc[i] = "exited"}})
  /\ UNCHANGED <<locVars, callerVars, said, answer, toAgent, adesc, spawning, reaping, histVars,
                 bounds>>

RecvSpawn(id) ==
  /\ link = "on" /\ Msg("spawn", id) \in toAgent
  /\ toAgent' = toAgent \ {Msg("spawn", id)}
  /\ spawning' = [spawning EXCEPT ![id] = "live"]
  /\ UNCHANGED <<locVars, callerVars, hs, said, answer, toSrv, link, rec, proc, adesc, agrace,
                 reaping, histVars, bounds>>

\* The spawn goroutine starts the process, or fails to, and replies on the connection
\* the request came by.
Spawn(id) ==
  /\ spawning[id] # "no"
  /\ spawning' = [spawning EXCEPT ![id] = "no"]
  /\ \/ /\ rec' = rec \cup {id} /\ proc' = [proc EXCEPT ![id] = "running"]
        /\ IF spawning[id] = "live" THEN ToServer({Msg("spawned", id)}) ELSE UNCHANGED toSrv
     \/ /\ IF spawning[id] = "live" THEN ToServer({Msg("refused", id)}) ELSE UNCHANGED toSrv
        /\ UNCHANGED <<rec, proc>>
  /\ UNCHANGED <<locVars, callerVars, hs, said, answer, toAgent, link, adesc, agrace, reaping,
                 histVars, bounds>>

RecvClose(id) ==
  /\ link = "on" /\ Msg("close", id) \in toAgent
  /\ toAgent' = toAgent \ {Msg("close", id)}
  /\ Stop({id} \cap rec)
  /\ UNCHANGED <<locVars, callerVars, hs, said, answer, toSrv, link, rec, adesc, spawning, agrace,
                 reaping, histVars, bounds>>

RecvDescriptor(id) ==
  /\ link = "on" /\ Msg("descriptor", id) \in toAgent
  /\ toAgent' = toAgent \ {Msg("descriptor", id)}
  /\ adesc' = adesc \cup ({id} \cap rec)
  /\ UNCHANGED <<locVars, callerVars, hs, said, answer, toSrv, link, rec, proc, spawning, agrace,
                 reaping, histVars, bounds>>

RecvForget(id) ==
  /\ link = "on" /\ Msg("forget", id) \in toAgent
  /\ toAgent' = toAgent \ {Msg("forget", id)}
  /\ rec' = rec \ {id}
  /\ UNCHANGED <<locVars, callerVars, hs, said, answer, toSrv, link, proc, adesc, spawning, agrace,
                 reaping, histVars, bounds>>

\* A process ends, and its pump reports the exit on the current connection.
ProcEnds(id) ==
  /\ proc[id] \in {"running", "stopping"}
  /\ proc' = [proc EXCEPT ![id] = "exited"]
  /\ IF link = "on" THEN ToServer({Msg("exit", id)}) ELSE UNCHANGED toSrv
  /\ UNCHANGED <<locVars, callerVars, hs, said, answer, toAgent, link, rec, adesc, spawning,
                 agrace, reaping, histVars, bounds>>

\* expire: the processes are listed under the lock and stopped after it.  It runs when
\* the timer fires, or before a hello that comes too late by the wall clock.
AgentExpire ==
  /\ link # "on" /\ rec # {}
  /\ agrace \/ (link = "off" /\ conn = "off")
  /\ agrace' = FALSE
  /\ reaping' = reaping \cup {id \in rec : proc[id] = "running"}
  /\ UNCHANGED <<locVars, callerVars, wireVars, link, rec, proc, adesc, spawning, histVars, bounds>>

AgentReap ==
  /\ reaping # {} /\ reaping' = {}
  /\ Stop(reaping)
  /\ UNCHANGED <<locVars, callerVars, wireVars, link, rec, adesc, spawning, agrace, histVars,
                 bounds>>

-----------------------------------------------------------------------------
Next ==
  \/ ServerLoses \/ ServerRestarts \/ AgentLoses \/ AgentRestarts \/ Dial
  \/ AttachBegin \/ AttachLost \/ AttachEnd \/ AttachFails \/ HubExpire \/ Leave
  \/ Welcome \/ AgentExpire \/ AgentReap
  \/ \E id \in Ids :
       \/ FinishDrop(id) \/ FinishMark(id)
       \/ Host(id) \/ StartRegister(id) \/ StartAsk(id) \/ StartFails(id)
       \/ RecvSpawned(id) \/ RecvRefused(id)
       \/ UpdateDescriptor(id) \/ Close(id) \/ CloseTimeout(id)
       \/ AnswerKnown(id) \/ AnswerGivenUp(id) \/ AnswerEnded(id) \/ AnswerNew(id)
       \/ RecvExit(id)
       \/ RecvSpawn(id) \/ Spawn(id) \/ RecvClose(id) \/ RecvDescriptor(id) \/ RecvForget(id)
       \/ ProcEnds(id)

Spec == Init /\ [][Next]_vars

\* Goroutines run and timers fire; a broken connection is noticed at both ends and the
\* agent keeps dialling.  Nothing makes a process end, unless it is being stopped.
Fairness ==
  /\ WF_vars(ServerLoses /\ link = "off") /\ WF_vars(AgentLoses /\ conn = "off")
  /\ WF_vars(Dial) /\ WF_vars(AttachBegin) /\ WF_vars(AttachLost)
  /\ WF_vars(AttachEnd \/ AttachFails) /\ WF_vars(Welcome) /\ WF_vars(AgentReap)
  /\ \A id \in Ids :
       /\ WF_vars(FinishDrop(id)) /\ WF_vars(FinishMark(id))
       /\ WF_vars(StartRegister(id)) /\ WF_vars(StartAsk(id)) /\ WF_vars(StartFails(id))
       /\ WF_vars(RecvSpawned(id)) /\ WF_vars(RecvRefused(id)) /\ WF_vars(CloseTimeout(id))
       /\ WF_vars(AnswerKnown(id) \/ AnswerGivenUp(id) \/ AnswerEnded(id) \/ AnswerNew(id))
       /\ WF_vars(RecvExit(id)) /\ WF_vars(RecvSpawn(id)) /\ WF_vars(Spawn(id))
       /\ WF_vars(RecvClose(id)) /\ WF_vars(RecvDescriptor(id)) /\ WF_vars(RecvForget(id))
       /\ WF_vars(ProcEnds(id) /\ proc[id] = "stopping")

FairSpec == Spec /\ Fairness

-----------------------------------------------------------------------------
(* Properties *)

UpTypes == {"spawned", "refused", "exit"}
DownTypes == {"spawn", "close", "descriptor", "forget"}
Msgs(T) == [type : T, id : Ids]
Starts == {"no", "hosted", "registered", "asked", "broken", "failed", "up"}

LocTypeOK ==
  /\ conn \in {"off", "claimed", "attach", "lost", "ready"} /\ grace \in BOOLEAN
  /\ handles \subseteq Ids /\ tomb \subseteq Ids /\ fin \subseteq Ids
  /\ ending \subseteq Ids /\ marking \subseteq ending /\ done \subseteq Ids
  /\ todo \subseteq Ids /\ lost \subseteq Ids
CallerTypeOK ==
  /\ start \in [Ids -> Starts]
  /\ desc \subseteq Ids /\ closing \subseteq Ids /\ leaving \in BOOLEAN
LinkTypeOK ==
  /\ hs \in {"none", "hello", "welcome"}
  /\ said \in [ids : SUBSET Ids, exited : SUBSET Ids, desc : SUBSET Ids]
  /\ answer \in [resume : SUBSET Ids, kill : SUBSET Ids]
  /\ toSrv \subseteq Msgs(UpTypes) /\ toAgent \subseteq Msgs(DownTypes)
RemoteTypeOK ==
  /\ link \in {"off", "hello", "on"} /\ rec \subseteq Ids /\ adesc \subseteq Ids
  /\ proc \in [Ids -> {"none", "running", "stopping", "exited"}]
  /\ spawning \in [Ids -> {"no", "live", "stale"}]
  /\ agrace \in BOOLEAN /\ reaping \subseteq Ids

\* The shape of every variable.
TypeOK ==
  /\ LocTypeOK /\ CallerTypeOK /\ LinkTypeOK /\ RemoteTypeOK
  /\ cause \in [Ids -> {"no", "start", "close", "expire"}]
  /\ drops \in Nat /\ servers \in Nat /\ agents \in Nat

\* A connection on which nothing is under way.
Settled ==
  /\ conn = "ready" /\ link = "on" /\ toSrv = {} /\ toAgent = {} /\ ending = {}
  /\ ~leaving /\ reaping = {}
  /\ \A id \in Ids : spawning[id] = "no" /\ start[id] \notin {"registered", "asked", "broken"}

\* Once a connection has settled, every handle the router holds has a process behind
\* it whose exit is still to come: whatever was lost or restarted in the meantime, no
\* conversation waits for a process that is gone.
HandleHasProcess ==
  Settled => \A id \in handles : id \in rec /\ proc[id] \in {"running", "stopping"}

\* A handle whose location is not connected is always on its way out: the grace timer
\* runs, or expire has the handle already.
AwayIsTimed ==
  conn \in {"off", "claimed"} =>
    \A id \in handles : start[id] = "up" => grace \/ id \in ending

\* A server's word, in a welcome or a close, stops only a process it has no handle for
\* or is closing; expire, which unlocks between listing and stopping, stops only what it
\* listed before the welcome.
StopsUnwanted ==
  [][\A id \in Ids :
       link' = "on" /\ proc[id] = "running" /\ proc'[id] = "stopping"
         => id \notin handles \/ id \in closing \cup ending \/ id \in reaping]_vars

\* A stream that a server gave up on is not adopted by that server, although its
\* tombstone goes with the first hello that names it and the welcome may be lost: from
\* then on it is the finished mark, or the missing session of a failed Start, that
\* keeps it away.  Only while its finish still runs is there neither.
GivenUpIsNotAdopted ==
  [][\A id \in Ids \ ending :
       cause[id] # "no" /\ cause'[id] # "no" => (id \in handles' => id \in handles)]_vars

\* The end of a process reaches its handle, however often the connection breaks.
ExitIsReported == \A id \in Ids : id \in handles /\ proc[id] = "exited" ~> id \notin handles

\* Start and Close return, whatever happens to the connection and to their messages.
StartReturns == \A id \in Ids : start[id] = "hosted" ~> start[id] \in {"up", "failed"}
CloseReturns == \A id \in Ids : id \in closing ~> id \notin closing
CallsReturn == StartReturns /\ CloseReturns

\* A stream the server gave up on does not go on running with the agent connected: after
\* a failed Start "make sure it does not linger" (hub.go, Start), after a Close while
\* disconnected "stop it when the agent returns" (Close), after an expiry "it must stop
\* the process" (expire).
GivenUpIsStopped ==
  Settled => \A id \in Ids : cause[id] # "no" => ~(id \in rec /\ proc[id] = "running")
=============================================================================
