----------------------- MODULE RemoteLifecycle_proof -----------------------
(***************************************************************************)
(* That a handle of the server has a process behind it, is timed while its *)
(* location is away, and that a process is stopped and a stream adopted    *)
(* only as RemoteLifecycle promises, for any number of streams, broken     *)
(* connections and restarts of either end.                                 *)
(***************************************************************************)
EXTENDS RemoteLifecycle, TLAPS

\* What is said of a stream in flight.
Down(t, id) == Msg(t, id) \in toAgent
Up(t, id) == Msg(t, id) \in toSrv

Pending(id) == start[id] \in {"registered", "asked", "broken"}

\* A stream whose spawn was never sent exists nowhere.
Unborn(id) ==
  /\ id \notin rec \cup adesc \cup reaping \cup desc \cup closing
  /\ proc[id] = "none" /\ spawning[id] = "no"
  /\ \A t \in UpTypes : ~Up(t, id)
  /\ \A t \in DownTypes : ~Down(t, id)
  /\ id \notin said.ids \cup said.desc \cup answer.resume \cup answer.kill

\* Before Start has registered it, the server has nothing of it either.
Unknown(id) == id \notin handles \cup ending \cup tomb \cup fin /\ cause[id] = "no"

Births ==
  \A id \in Ids :
    /\ start[id] \in {"no", "hosted", "registered"} => Unborn(id)
    /\ start[id] \in {"no", "hosted"} => Unknown(id)
    /\ id \in handles => Pending(id) \/ start[id] = "up"
    /\ id \in closing \cup desc => start[id] = "up"

\* Where the two ends of a connection can be, and what is in flight then.
Links ==
  /\ conn = "claimed" <=> hs = "hello"
  /\ hs = "welcome" => link = "hello" /\ conn \in {"ready", "off"}
  /\ link = "hello" /\ conn = "ready" => hs = "welcome"
  /\ link = "on" => conn \in {"ready", "off"}
  /\ link = "off" \/ conn \in {"claimed", "attach", "lost"} => toAgent = {}
  /\ link = "hello" \/ conn = "off" => toSrv = {}
  /\ \A id \in Ids : spawning[id] = "live" => link = "on"
  /\ link = "hello" => said.ids \subseteq rec
  /\ \A id \in rec : proc[id] # "none"

\* Without a session a stream is not adopted, and a failed Start leaves it without one.
NoSession(id) == id \notin desc \cup adesc \cup said.desc /\ ~Down("descriptor", id)

\* What keeps a stream away that the server gave up on.
GivenUp ==
  \A id \in Ids :
    /\ start[id] \in {"asked", "broken"} \/ cause[id] = "start" => NoSession(id)
    /\ cause[id] = "start" => start[id] = "failed"
    /\ cause[id] \in {"close", "expire"} => id \in ending \cup fin

\* A handle that finish has dropped is gone.
Ends == marking \cap handles = {}

\* The server stops and forgets only what it no longer holds, or is closing.
Words ==
  /\ \A id \in handles : Down("close", id) => id \in closing \cup ending
  /\ \A id \in handles : Down("forget", id) => id \in ending
  /\ conn \in {"attach", "lost"} \/ hs = "welcome" => answer.kill \cap handles = {}

\* attach answers every stream of the hello, and what it resumes the agent has.
Answers ==
  /\ conn = "attach" => /\ said.ids = todo \cup answer.resume \cup answer.kill
                        /\ todo \cap answer.kill = {}
  /\ conn = "lost" \/ (conn = "ready" /\ link = "hello") =>
       \A id \in handles : id \in ending \/ Pending(id) \/ id \in answer.resume \cap said.ids

Running(id) == (id \in rec /\ proc[id] \in {"running", "stopping"}) \/ Up("exit", id)

\* On a connection, the process of a handle runs or its exit is on its way.
Held ==
  conn = "ready" /\ link = "on" =>
    \A id \in handles \ ending : ~Pending(id) \/ Up("spawned", id) => Running(id)

IInv ==
  /\ TypeOK /\ Births /\ Links /\ GivenUp /\ Ends /\ Words /\ Answers /\ Held /\ AwayIsTimed

\* A message says what it is and of which stream.
LEMMA Messages ==
  /\ \A t, u, i, j : Msg(t, i) = Msg(u, j) <=> t = u /\ i = j
  /\ \A i \in Ids : /\ \A t \in UpTypes : Msg(t, i) \in Msgs(UpTypes)
                    /\ \A t \in DownTypes : Msg(t, i) \in Msgs(DownTypes)
BY DEF Msg, Msgs

\* Every step keeps the invariant, which is what the theorems below rest on.
LEMMA NextInv == IInv /\ [Next]_vars => IInv'
<1> SUFFICES ASSUME IInv, [Next]_vars PROVE IInv'
  OBVIOUS
<1> USE DEF IInv, locVars, callerVars, wireVars, agentVars, histVars, bounds
<1>1. CASE ServerLoses
  <2>1. TypeOK'
    BY <1>1, Messages
    DEF ServerLoses, Detach, TypeOK, LocTypeOK, CallerTypeOK, LinkTypeOK, RemoteTypeOK, Msgs,
        UpTypes, DownTypes, Starts
  <2>2. Births'
    BY <1>1, Messages DEF ServerLoses, Detach, Births, Unborn, Unknown, Pending, Up, Down
  <2>3. Links'
    BY <1>1 DEF ServerLoses, Detach, Links
  <2>4. GivenUp'
    BY <1>1, Messages DEF ServerLoses, Detach, GivenUp, NoSession, Down
  <2>5. Words'
    BY <1>1, Messages DEF ServerLoses, Detach, Words, Down
  <2>6. Answers'
    BY <1>1 DEF ServerLoses, Detach, Answers, Pending
  <2>7. Held'
    BY <1>1, Messages DEF ServerLoses, Detach, Held, Pending, Up, Running
  <2>8. AwayIsTimed'
    BY <1>1 DEF ServerLoses, Detach, AwayIsTimed
  <2>9. Ends'
    BY <1>1 DEF ServerLoses, Detach, Ends
  <2> QED
    BY <2>1, <2>2, <2>3, <2>4, <2>5, <2>6, <2>7, <2>8, <2>9 DEF IInv
<1>2. CASE ServerRestarts
  <2>1. TypeOK'
    <3>1. LocTypeOK' /\ CallerTypeOK'
      BY <1>2 DEF TypeOK, LocTypeOK, CallerTypeOK, Starts, ServerRestarts, FreshServer
    <3>2. LinkTypeOK'
      <4>1. toSrv' \subseteq Msgs(UpTypes)
        BY <1>2, Messages DEF TypeOK, LinkTypeOK, UpTypes, ServerRestarts, FreshServer
      <4>2. toAgent' \subseteq Msgs(DownTypes)
        BY <1>2, Messages DEF TypeOK, LinkTypeOK, DownTypes, ServerRestarts, FreshServer
      <4> QED
        BY <1>2, <4>1, <4>2 DEF TypeOK, LinkTypeOK, ServerRestarts, FreshServer
    <3>3. RemoteTypeOK'
      BY <1>2 DEF TypeOK, RemoteTypeOK, ServerRestarts, FreshServer
    <3> QED
      BY <1>2, <3>1, <3>2, <3>3 DEF TypeOK, ServerRestarts, FreshServer
  <2>2. Births'
    BY <1>2, Messages DEF ServerRestarts, FreshServer, Births, Unborn, Unknown, Pending, Up, Down
  <2>3. Links'
    BY <1>2 DEF ServerRestarts, FreshServer, Links
  <2>4. GivenUp'
    BY <1>2, Messages DEF ServerRestarts, FreshServer, GivenUp, NoSession, Down
  <2>5. Ends'
    BY <1>2 DEF ServerRestarts, FreshServer, Ends
  <2>6. Words'
    BY <1>2, Messages DEF ServerRestarts, FreshServer, Words, Down
  <2>7. Answers'
    BY <1>2 DEF ServerRestarts, FreshServer, Answers, Pending
  <2>8. Held'
    BY <1>2, Messages DEF ServerRestarts, FreshServer, Held, Pending, Up, Running
  <2>9. AwayIsTimed'
    BY <1>2 DEF ServerRestarts, FreshServer, AwayIsTimed
  <2> QED
    BY <2>1, <2>2, <2>3, <2>4, <2>5, <2>6, <2>7, <2>8, <2>9 DEF IInv
<1>3. CASE AgentLoses
  <2>1. TypeOK'
    BY <1>3, Messages
    DEF AgentLoses, TypeOK, LocTypeOK, CallerTypeOK, LinkTypeOK, RemoteTypeOK, Msgs, UpTypes,
        DownTypes, Starts
  <2>2. Births'
    BY <1>3, Messages DEF AgentLoses, Births, Unborn, Unknown, Pending, Up, Down
  <2>3. Links'
    BY <1>3 DEF AgentLoses, Links
  <2>4. GivenUp'
    BY <1>3, Messages DEF AgentLoses, GivenUp, NoSession, Down
  <2>5. Words'
    BY <1>3, Messages DEF AgentLoses, Words, Down
  <2>6. Answers'
    BY <1>3 DEF AgentLoses, Answers, Pending
  <2>7. Held'
    BY <1>3, Messages DEF AgentLoses, Held, Pending, Up, Running
  <2>8. Ends' /\ AwayIsTimed'
    BY <1>3 DEF AgentLoses, Ends, AwayIsTimed
  <2> QED
    BY <2>1, <2>2, <2>3, <2>4, <2>5, <2>6, <2>7, <2>8 DEF IInv
<1>4. CASE AgentRestarts
  <2>1. TypeOK'
    <3>1. LocTypeOK' /\ CallerTypeOK'
      BY <1>4 DEF TypeOK, LocTypeOK, CallerTypeOK, Starts, AgentRestarts
    <3>2. LinkTypeOK'
      <4>1. toSrv' \subseteq Msgs(UpTypes)
        BY <1>4, Messages DEF TypeOK, LinkTypeOK, UpTypes, AgentRestarts
      <4>2. toAgent' \subseteq Msgs(DownTypes)
        BY <1>4, Messages DEF TypeOK, LinkTypeOK, DownTypes, AgentRestarts
      <4> QED
        BY <1>4, <4>1, <4>2 DEF TypeOK, LinkTypeOK, AgentRestarts
    <3>3. RemoteTypeOK'
      BY <1>4 DEF TypeOK, RemoteTypeOK, AgentRestarts
    <3> QED
      BY <1>4, <3>1, <3>2, <3>3 DEF TypeOK, AgentRestarts
  <2>2. Births'
    BY <1>4, Messages DEF AgentRestarts, Births, Unborn, Unknown, Pending, Up, Down
  <2>3. Links'
    BY <1>4 DEF AgentRestarts, Links
  <2>4. GivenUp'
    BY <1>4, Messages DEF AgentRestarts, GivenUp, NoSession, Down
  <2>5. Words'
    BY <1>4, Messages DEF AgentRestarts, Words, Down
  <2>6. Answers'
    BY <1>4 DEF AgentRestarts, Answers, Pending
  <2>7. Held'
    BY <1>4, Messages DEF AgentRestarts, Held, Pending, Up, Running
  <2>8. Ends' /\ AwayIsTimed'
    BY <1>4 DEF AgentRestarts, Ends, AwayIsTimed
  <2> QED
    BY <2>1, <2>2, <2>3, <2>4, <2>5, <2>6, <2>7, <2>8 DEF IInv
<1>5. CASE Dial
  <2>1. TypeOK'
    BY <1>5
    DEF Dial, TypeOK, LocTypeOK, CallerTypeOK, LinkTypeOK, RemoteTypeOK, Msgs, UpTypes,
        DownTypes, Starts
  <2>2. Births'
    BY <1>5 DEF Dial, Births, Unborn, Unknown, Pending, Up, Down
  <2>3. Links'
    BY <1>5 DEF Dial, Links
  <2>4. GivenUp'
    BY <1>5 DEF Dial, GivenUp, NoSession, Down
  <2>5. Words'
    BY <1>5 DEF Dial, Words, Down
  <2>6. Answers'
    BY <1>5 DEF Dial, Answers, Pending
  <2>7. Held'
    BY <1>5 DEF Dial, Held, Pending, Up, Running
  <2>8. AwayIsTimed'
    BY <1>5 DEF Dial, AwayIsTimed
  <2>9. Ends'
    BY <1>5 DEF Dial, Ends
  <2> QED
    BY <2>1, <2>2, <2>3, <2>4, <2>5, <2>6, <2>7, <2>8, <2>9 DEF IInv
<1>6. CASE AttachBegin
  <2>1. TypeOK'
    BY <1>6
    DEF AttachBegin, NoAnswer, TypeOK, LocTypeOK, CallerTypeOK, LinkTypeOK, RemoteTypeOK,
        Msgs, UpTypes, DownTypes, Starts
  <2>2. Births'
    BY <1>6 DEF AttachBegin, NoAnswer, Births, Unborn, Unknown, Pending, Up, Down
  <2>3. Links'
    BY <1>6 DEF AttachBegin, NoAnswer, Links
  <2>4. Words'
    BY <1>6 DEF AttachBegin, NoAnswer, Words, Down
  <2>5. Answers'
    BY <1>6 DEF AttachBegin, NoAnswer, Answers, Pending
  <2>6. Held'
    BY <1>6 DEF AttachBegin, NoAnswer, Held, Pending, Up, Running
  <2>7. AwayIsTimed'
    BY <1>6 DEF AttachBegin, NoAnswer, AwayIsTimed
  <2>8. GivenUp' /\ Ends'
    BY <1>6 DEF AttachBegin, NoAnswer, GivenUp, NoSession, Down, Ends
  <2> QED
    BY <2>1, <2>2, <2>3, <2>4, <2>5, <2>6, <2>7, <2>8 DEF IInv
<1>7. CASE AttachLost
  <2>1. TypeOK'
    BY <1>7
    DEF AttachLost, Finish, TypeOK, LocTypeOK, CallerTypeOK, LinkTypeOK, RemoteTypeOK, Msgs,
        UpTypes, DownTypes, Starts
  <2>2. Births'
    BY <1>7 DEF AttachLost, Finish, Births, Unborn, Unknown, Pending, Up, Down
  <2>3. Links'
    BY <1>7 DEF AttachLost, Finish, Links
  <2>4. GivenUp'
    BY <1>7 DEF AttachLost, Finish, GivenUp, NoSession, Down
  <2>5. Words'
    BY <1>7 DEF AttachLost, Finish, Words, Down
  <2>6. Answers'
    BY <1>7
    DEF AttachLost, Finish, Answers, Pending, Words, Down, TypeOK, LocTypeOK, CallerTypeOK,
        LinkTypeOK, RemoteTypeOK
  <2>7. Held'
    BY <1>7 DEF AttachLost, Finish, Held, Pending, Up, Running
  <2>8. AwayIsTimed'
    BY <1>7 DEF AttachLost, Finish, AwayIsTimed
  <2>9. Ends'
    BY <1>7 DEF AttachLost, Finish, Ends
  <2> QED
    BY <2>1, <2>2, <2>3, <2>4, <2>5, <2>6, <2>7, <2>8, <2>9 DEF IInv
<1>8. CASE AttachEnd
  <2>1. TypeOK'
    <3>1. LocTypeOK' /\ CallerTypeOK'
      BY <1>8 DEF TypeOK, LocTypeOK, CallerTypeOK, Starts, AttachEnd, ToAgent
    <3>2. LinkTypeOK'
      <4>1. toSrv' \subseteq Msgs(UpTypes)
        BY <1>8, Messages DEF TypeOK, LinkTypeOK, UpTypes, AttachEnd, ToAgent
      <4>2. toAgent' \subseteq Msgs(DownTypes)
        BY <1>8, Messages DEF TypeOK, LinkTypeOK, DownTypes, AttachEnd, ToAgent
      <4> QED
        BY <1>8, <4>1, <4>2 DEF TypeOK, LinkTypeOK, AttachEnd, ToAgent
    <3>3. RemoteTypeOK'
      BY <1>8 DEF TypeOK, RemoteTypeOK, AttachEnd, ToAgent
    <3> QED
      BY <1>8, <3>1, <3>2, <3>3 DEF TypeOK, AttachEnd, ToAgent
  <2>2. Births'
    BY <1>8, Messages DEF AttachEnd, ToAgent, Births, Unborn, Unknown, Pending, Up, Down
  <2>3. Links'
    BY <1>8 DEF AttachEnd, ToAgent, Links
  <2>4. GivenUp'
    BY <1>8, Messages DEF AttachEnd, ToAgent, GivenUp, NoSession, Down
  <2>5. Words'
    BY <1>8, Messages DEF AttachEnd, ToAgent, Words, Down
  <2>6. Answers'
    BY <1>8 DEF AttachEnd, ToAgent, Answers, Pending
  <2>7. Held'
    BY <1>8, Messages
    DEF AttachEnd, ToAgent, Held, Pending, Up, Running, Links, TypeOK, LocTypeOK,
        CallerTypeOK, LinkTypeOK, RemoteTypeOK
  <2>8. AwayIsTimed'
    BY <1>8 DEF AttachEnd, ToAgent, AwayIsTimed
  <2>9. Ends'
    BY <1>8 DEF AttachEnd, ToAgent, Ends
  <2> QED
    BY <2>1, <2>2, <2>3, <2>4, <2>5, <2>6, <2>7, <2>8, <2>9 DEF IInv
<1>9. CASE AttachFails
  <2>1. TypeOK'
    BY <1>9, Messages
    DEF AttachFails, Detach, TypeOK, LocTypeOK, CallerTypeOK, LinkTypeOK, RemoteTypeOK, Msgs,
        UpTypes, DownTypes, Starts
  <2>2. Births'
    BY <1>9, Messages DEF AttachFails, Detach, Births, Unborn, Unknown, Pending, Up, Down
  <2>3. Links'
    BY <1>9 DEF AttachFails, Detach, Links
  <2>4. GivenUp'
    BY <1>9, Messages DEF AttachFails, Detach, GivenUp, NoSession, Down
  <2>5. Words'
    BY <1>9, Messages DEF AttachFails, Detach, Words, Down
  <2>6. Answers'
    BY <1>9 DEF AttachFails, Detach, Answers, Pending
  <2>7. Held'
    BY <1>9, Messages DEF AttachFails, Detach, Held, Pending, Up, Running
  <2>8. AwayIsTimed'
    BY <1>9 DEF AttachFails, Detach, AwayIsTimed
  <2>9. Ends'
    BY <1>9 DEF AttachFails, Detach, Ends
  <2> QED
    BY <2>1, <2>2, <2>3, <2>4, <2>5, <2>6, <2>7, <2>8, <2>9 DEF IInv
<1>10. CASE HubExpire
  <2>1. TypeOK'
    BY <1>10
    DEF HubExpire, Finish, TypeOK, LocTypeOK, CallerTypeOK, LinkTypeOK, RemoteTypeOK, Msgs,
        UpTypes, DownTypes, Starts
  <2>2. Births'
    BY <1>10 DEF HubExpire, Finish, Births, Unborn, Unknown, Pending, Up, Down
  <2>3. GivenUp'
    BY <1>10 DEF HubExpire, Finish, GivenUp, NoSession, Down
  <2>4. Words'
    BY <1>10 DEF HubExpire, Finish, Words, Down
  <2>5. Answers'
    BY <1>10 DEF HubExpire, Finish, Answers, Pending
  <2>6. Held'
    BY <1>10 DEF HubExpire, Finish, Held, Pending, Up, Running
  <2>7. AwayIsTimed'
    BY <1>10 DEF HubExpire, Finish, AwayIsTimed
  <2>8. Links' /\ Ends'
    BY <1>10 DEF HubExpire, Finish, Links, Ends
  <2> QED
    BY <2>1, <2>2, <2>3, <2>4, <2>5, <2>6, <2>7, <2>8 DEF IInv
<1>11. CASE Leave
  <2>1. TypeOK'
    BY <1>11
    DEF Leave, TypeOK, LocTypeOK, CallerTypeOK, LinkTypeOK, RemoteTypeOK, Msgs, UpTypes,
        DownTypes, Starts
  <2>2. Births'
    BY <1>11 DEF Leave, Births, Unborn, Unknown, Pending, Up, Down
  <2>3. Ends'
    BY <1>11 DEF Leave, Ends
  <2>4. Words'
    BY <1>11 DEF Leave, Words, Down
  <2>5. Answers'
    BY <1>11 DEF Leave, Answers, Pending
  <2>6. Held'
    BY <1>11 DEF Leave, Held, Pending, Up, Running
  <2>7. AwayIsTimed'
    BY <1>11 DEF Leave, AwayIsTimed
  <2>8. Links' /\ GivenUp'
    BY <1>11 DEF Leave, Links, GivenUp, NoSession, Down
  <2> QED
    BY <2>1, <2>2, <2>3, <2>4, <2>5, <2>6, <2>7, <2>8 DEF IInv
<1>12. CASE Welcome
  <2>1. TypeOK'
    <3>1. LocTypeOK' /\ CallerTypeOK'
      BY <1>12 DEF TypeOK, LocTypeOK, CallerTypeOK, Starts, Welcome, ToServer, Stop
    <3>2. LinkTypeOK'
      <4>1. toSrv' \subseteq Msgs(UpTypes)
        BY <1>12, Messages DEF TypeOK, LinkTypeOK, UpTypes, Welcome, ToServer, Stop
      <4>2. toAgent' \subseteq Msgs(DownTypes)
        BY <1>12, Messages DEF TypeOK, LinkTypeOK, DownTypes, Welcome, ToServer, Stop
      <4> QED
        BY <1>12, <4>1, <4>2 DEF TypeOK, LinkTypeOK, Welcome, ToServer, Stop
    <3>3. RemoteTypeOK'
      BY <1>12 DEF TypeOK, RemoteTypeOK, Welcome, ToServer, Stop
    <3> QED
      BY <1>12, <3>1, <3>2, <3>3 DEF TypeOK, Welcome, ToServer, Stop
  <2>2. Births'
    BY <1>12, Messages DEF Welcome, ToServer, Stop, Births, Unborn, Unknown, Pending, Up, Down
  <2>3. Links'
    BY <1>12
    DEF Welcome, ToServer, Stop, Links, TypeOK, LocTypeOK, CallerTypeOK, LinkTypeOK,
        RemoteTypeOK
  <2>4. Words'
    BY <1>12, Messages DEF Welcome, ToServer, Stop, Words, Down
  <2>5. Answers'
    BY <1>12 DEF Welcome, ToServer, Stop, Answers, Pending
  <2>6. Held'
    <3> SUFFICES ASSUME conn = "ready", NEW i \in handles \ ending, ~Pending(i) \/ Up("spawned", i)'
                 PROVE  Running(i)'
      BY <1>12 DEF Held, Pending, Welcome
    <3>1. i \in answer.resume /\ i \in rec /\ i \notin answer.kill /\ ~Pending(i)
      BY <1>12, Messages DEF Welcome, Answers, Words, Links, Up, ToServer
    <3>2. CASE proc[i] = "exited"
      BY <1>12, <3>1, <3>2 DEF Welcome, ToServer, Running, Up
    <3>3. CASE proc[i] # "exited"
      BY <1>12, <3>1, <3>3 DEF Welcome, Stop, Running, Links, TypeOK, RemoteTypeOK
    <3> QED
      BY <3>2, <3>3
  <2>7. GivenUp' /\ Ends' /\ AwayIsTimed'
    BY <1>12 DEF Welcome, ToServer, Stop, GivenUp, NoSession, Down, Ends, AwayIsTimed
  <2> QED
    BY <2>1, <2>2, <2>3, <2>4, <2>5, <2>6, <2>7 DEF IInv
<1>13. CASE AgentExpire
  <2>1. TypeOK'
    BY <1>13
    DEF AgentExpire, TypeOK, LocTypeOK, CallerTypeOK, LinkTypeOK, RemoteTypeOK, Msgs, UpTypes,
        DownTypes, Starts
  <2>2. Births'
    BY <1>13 DEF AgentExpire, Births, Unborn, Unknown, Pending, Up, Down
  <2>3. Links' /\ GivenUp' /\ Ends' /\ Words' /\ Answers' /\ Held' /\ AwayIsTimed'
    BY <1>13
    DEF AgentExpire, Links, GivenUp, NoSession, Down, Ends, Words, Answers, Pending, Held, Up,
        Running, AwayIsTimed
  <2> QED
    BY <2>1, <2>2, <2>3 DEF IInv
<1>14. CASE AgentReap
  <2>1. TypeOK'
    BY <1>14
    DEF AgentReap, Stop, TypeOK, LocTypeOK, CallerTypeOK, LinkTypeOK, RemoteTypeOK, Msgs,
        UpTypes, DownTypes, Starts
  <2>2. Births'
    BY <1>14 DEF AgentReap, Stop, Births, Unborn, Unknown, Pending, Up, Down
  <2>3. Links'
    BY <1>14 DEF AgentReap, Stop, Links, TypeOK, LocTypeOK, CallerTypeOK, LinkTypeOK, RemoteTypeOK
  <2>4. Held'
    BY <1>14
    DEF AgentReap, Stop, Held, Pending, Up, Running, TypeOK, LocTypeOK, CallerTypeOK,
        LinkTypeOK, RemoteTypeOK
  <2>5. GivenUp' /\ Ends' /\ Words' /\ Answers' /\ AwayIsTimed'
    BY <1>14
    DEF AgentReap, Stop, GivenUp, NoSession, Down, Ends, Words, Answers, Pending, AwayIsTimed
  <2> QED
    BY <2>1, <2>2, <2>3, <2>4, <2>5 DEF IInv
<1>15. ASSUME NEW id \in Ids, FinishDrop(id) PROVE IInv'
  <2>1. TypeOK'
    BY <1>15
    DEF FinishDrop, TypeOK, LocTypeOK, CallerTypeOK, LinkTypeOK, RemoteTypeOK, Msgs, UpTypes,
        DownTypes, Starts
  <2>2. Births'
    BY <1>15 DEF FinishDrop, Births, Unborn, Unknown, Pending, Up, Down
  <2>3. Ends'
    BY <1>15 DEF FinishDrop, Ends
  <2>4. Words'
    BY <1>15 DEF FinishDrop, Words, Down
  <2>5. Answers'
    BY <1>15 DEF FinishDrop, Answers, Pending
  <2>6. Held'
    BY <1>15 DEF FinishDrop, Held, Pending, Up, Running
  <2>7. AwayIsTimed'
    BY <1>15 DEF FinishDrop, AwayIsTimed
  <2>8. Links' /\ GivenUp'
    BY <1>15 DEF FinishDrop, Links, GivenUp, NoSession, Down
  <2> QED
    BY <2>1, <2>2, <2>3, <2>4, <2>5, <2>6, <2>7, <2>8 DEF IInv
<1>16. ASSUME NEW id \in Ids, FinishMark(id) PROVE IInv'
  <2>1. TypeOK'
    BY <1>16
    DEF FinishMark, TypeOK, LocTypeOK, CallerTypeOK, LinkTypeOK, RemoteTypeOK, Msgs, UpTypes,
        DownTypes, Starts
  <2>2. Births'
    BY <1>16
    DEF FinishMark, Births, Unborn, Unknown, Pending, Up, Down, TypeOK, LocTypeOK,
        CallerTypeOK, LinkTypeOK, RemoteTypeOK
  <2>3. GivenUp'
    BY <1>16 DEF FinishMark, GivenUp, NoSession, Down
  <2>4. Ends'
    BY <1>16 DEF FinishMark, Ends
  <2>5. Words'
    BY <1>16
    DEF FinishMark, Words, Down, Ends, TypeOK, LocTypeOK, CallerTypeOK, LinkTypeOK,
        RemoteTypeOK
  <2>6. Answers'
    BY <1>16
    DEF FinishMark, Answers, Pending, Ends, TypeOK, LocTypeOK, CallerTypeOK, LinkTypeOK,
        RemoteTypeOK
  <2>7. Held'
    BY <1>16
    DEF FinishMark, Held, Pending, Up, Running, Ends, TypeOK, LocTypeOK, CallerTypeOK,
        LinkTypeOK, RemoteTypeOK
  <2>8. AwayIsTimed'
    BY <1>16
    DEF FinishMark, AwayIsTimed, Ends, TypeOK, LocTypeOK, CallerTypeOK, LinkTypeOK,
        RemoteTypeOK
  <2>9. Links'
    BY <1>16 DEF FinishMark, Links
  <2> QED
    BY <2>1, <2>2, <2>3, <2>4, <2>5, <2>6, <2>7, <2>8, <2>9 DEF IInv
<1>17. ASSUME NEW id \in Ids, Host(id) PROVE IInv'
  <2>1. TypeOK'
    BY <1>17
    DEF Host, TypeOK, LocTypeOK, CallerTypeOK, LinkTypeOK, RemoteTypeOK, Msgs, UpTypes,
        DownTypes, Starts
  <2>2. Births'
    BY <1>17 DEF Host, Births, Unborn, Unknown, Pending, Up, Down
  <2>3. GivenUp'
    BY <1>17 DEF Host, GivenUp, NoSession, Down
  <2>4. Answers'
    BY <1>17 DEF Host, Answers, Pending
  <2>5. Held'
    BY <1>17 DEF Host, Held, Pending, Up, Running
  <2>6. AwayIsTimed'
    BY <1>17 DEF Host, AwayIsTimed
  <2>7. Links' /\ Ends' /\ Words'
    BY <1>17 DEF Host, Links, Ends, Words, Down
  <2> QED
    BY <2>1, <2>2, <2>3, <2>4, <2>5, <2>6, <2>7 DEF IInv
<1>18. ASSUME NEW id \in Ids, StartRegister(id) PROVE IInv'
  <2>1. TypeOK'
    BY <1>18
    DEF StartRegister, TypeOK, LocTypeOK, CallerTypeOK, LinkTypeOK, RemoteTypeOK, Msgs,
        UpTypes, DownTypes, Starts
  <2>2. Births'
    BY <1>18
    DEF StartRegister, Births, Unborn, Unknown, Pending, Up, Down, TypeOK, LocTypeOK,
        CallerTypeOK, LinkTypeOK, RemoteTypeOK
  <2>3. GivenUp'
    BY <1>18 DEF StartRegister, GivenUp, NoSession, Down
  <2>4. Ends'
    BY <1>18
    DEF StartRegister, Ends, Births, Unborn, Unknown, Pending, Up, Down, TypeOK, LocTypeOK,
        CallerTypeOK, LinkTypeOK, RemoteTypeOK
  <2>5. Words'
    BY <1>18
    DEF StartRegister, Words, Down, Births, Unborn, Unknown, Pending, Up, TypeOK, LocTypeOK,
        CallerTypeOK, LinkTypeOK, RemoteTypeOK, Msgs, UpTypes, DownTypes, Starts
  <2>6. Answers'
    BY <1>18
    DEF StartRegister, Answers, Pending, TypeOK, LocTypeOK, CallerTypeOK, LinkTypeOK,
        RemoteTypeOK
  <2>7. Held'
    BY <1>18
    DEF StartRegister, Held, Pending, Up, Running, Births, Unborn, Unknown, Down, TypeOK,
        LocTypeOK, CallerTypeOK, LinkTypeOK, RemoteTypeOK, Msgs, UpTypes, DownTypes, Starts
  <2>8. AwayIsTimed'
    BY <1>18 DEF StartRegister, AwayIsTimed
  <2>9. Links'
    BY <1>18 DEF StartRegister, Links
  <2> QED
    BY <2>1, <2>2, <2>3, <2>4, <2>5, <2>6, <2>7, <2>8, <2>9 DEF IInv
<1>19. ASSUME NEW id \in Ids, StartAsk(id) PROVE IInv'
  <2>1. TypeOK'
    <3>1. LocTypeOK' /\ CallerTypeOK'
      BY <1>19 DEF TypeOK, LocTypeOK, CallerTypeOK, Starts, StartAsk, ToAgent
    <3>2. LinkTypeOK'
      <4>1. toSrv' \subseteq Msgs(UpTypes)
        BY <1>19, Messages DEF TypeOK, LinkTypeOK, UpTypes, StartAsk, ToAgent
      <4>2. toAgent' \subseteq Msgs(DownTypes)
        BY <1>19, Messages DEF TypeOK, LinkTypeOK, DownTypes, StartAsk, ToAgent
      <4> QED
        BY <1>19, <4>1, <4>2 DEF TypeOK, LinkTypeOK, StartAsk, ToAgent
    <3>3. RemoteTypeOK'
      BY <1>19 DEF TypeOK, RemoteTypeOK, StartAsk, ToAgent
    <3> QED
      BY <1>19, <3>1, <3>2, <3>3 DEF TypeOK, StartAsk, ToAgent
  <2>2. Births'
    BY <1>19, Messages
    DEF StartAsk, ToAgent, Births, Unborn, Unknown, Pending, Up, Down, TypeOK, LocTypeOK,
        CallerTypeOK, LinkTypeOK, RemoteTypeOK
  <2>3. Links'
    BY <1>19 DEF StartAsk, ToAgent, Links
  <2>4. GivenUp'
    BY <1>19, Messages
    DEF StartAsk, ToAgent, GivenUp, NoSession, Down, Births, Unborn, Unknown, Pending, Up,
        TypeOK, LocTypeOK, CallerTypeOK, LinkTypeOK, RemoteTypeOK, Msgs, UpTypes, DownTypes,
        Starts
  <2>5. Words'
    BY <1>19, Messages DEF StartAsk, ToAgent, Words, Down
  <2>6. Answers'
    BY <1>19
    DEF StartAsk, ToAgent, Answers, Pending, TypeOK, LocTypeOK, CallerTypeOK, LinkTypeOK,
        RemoteTypeOK
  <2>7. Held'
    BY <1>19, Messages
    DEF StartAsk, ToAgent, Held, Pending, Up, Running, TypeOK, LocTypeOK, CallerTypeOK,
        LinkTypeOK, RemoteTypeOK
  <2>8. AwayIsTimed'
    BY <1>19
    DEF StartAsk, ToAgent, AwayIsTimed, TypeOK, LocTypeOK, CallerTypeOK, LinkTypeOK,
        RemoteTypeOK
  <2>9. Ends'
    BY <1>19 DEF StartAsk, ToAgent, Ends
  <2> QED
    BY <2>1, <2>2, <2>3, <2>4, <2>5, <2>6, <2>7, <2>8, <2>9 DEF IInv
<1>20. ASSUME NEW id \in Ids, StartFails(id) PROVE IInv'
  <2>1. TypeOK'
    BY <1>20
    DEF StartFails, TypeOK, LocTypeOK, CallerTypeOK, LinkTypeOK, RemoteTypeOK, Msgs, UpTypes,
        DownTypes, Starts
  <2>2. Births'
    BY <1>20 DEF StartFails, Births, Unborn, Unknown, Pending, Up, Down
  <2>3. GivenUp'
    BY <1>20
    DEF StartFails, GivenUp, NoSession, Down, TypeOK, LocTypeOK, CallerTypeOK, LinkTypeOK,
        RemoteTypeOK
  <2>4. Ends'
    BY <1>20 DEF StartFails, Ends
  <2>5. Words'
    BY <1>20 DEF StartFails, Words, Down
  <2>6. Answers'
    BY <1>20 DEF StartFails, Answers, Pending
  <2>7. Held'
    BY <1>20 DEF StartFails, Held, Pending, Up, Running
  <2>8. AwayIsTimed'
    BY <1>20 DEF StartFails, AwayIsTimed
  <2>9. Links'
    BY <1>20 DEF StartFails, Links
  <2> QED
    BY <2>1, <2>2, <2>3, <2>4, <2>5, <2>6, <2>7, <2>8, <2>9 DEF IInv
<1>21. ASSUME NEW id \in Ids, RecvSpawned(id) PROVE IInv'
  <2>1. TypeOK'
    BY <1>21, Messages
    DEF RecvSpawned, TypeOK, LocTypeOK, CallerTypeOK, LinkTypeOK, RemoteTypeOK, Msgs, UpTypes,
        DownTypes, Starts
  <2>2. Births'
    BY <1>21, Messages DEF RecvSpawned, Births, Unborn, Unknown, Pending, Up, Down
  <2>3. Links'
    BY <1>21 DEF RecvSpawned, Links
  <2>4. GivenUp'
    BY <1>21, Messages DEF RecvSpawned, GivenUp, NoSession, Down
  <2>5. Answers'
    BY <1>21
    DEF RecvSpawned, Answers, Pending, Links, TypeOK, LocTypeOK, CallerTypeOK, LinkTypeOK,
        RemoteTypeOK
  <2>6. Held'
    BY <1>21, Messages DEF RecvSpawned, Held, Pending, Up, Running
  <2>7. AwayIsTimed'
    BY <1>21 DEF RecvSpawned, AwayIsTimed
  <2>8. Ends' /\ Words'
    BY <1>21 DEF RecvSpawned, Ends, Words, Down
  <2> QED
    BY <2>1, <2>2, <2>3, <2>4, <2>5, <2>6, <2>7, <2>8 DEF IInv
<1>22. ASSUME NEW id \in Ids, RecvRefused(id) PROVE IInv'
  <2>1. TypeOK'
    BY <1>22, Messages
    DEF RecvRefused, TypeOK, LocTypeOK, CallerTypeOK, LinkTypeOK, RemoteTypeOK, Msgs, UpTypes,
        DownTypes, Starts
  <2>2. Births'
    BY <1>22, Messages DEF RecvRefused, Births, Unborn, Unknown, Pending, Up, Down
  <2>3. Links'
    BY <1>22 DEF RecvRefused, Links
  <2>4. GivenUp'
    BY <1>22, Messages DEF RecvRefused, GivenUp, NoSession, Down
  <2>5. Ends'
    BY <1>22 DEF RecvRefused, Ends
  <2>6. Words'
    BY <1>22, Messages DEF RecvRefused, Words, Down
  <2>7. Answers'
    BY <1>22 DEF RecvRefused, Answers, Pending
  <2>8. Held'
    BY <1>22, Messages DEF RecvRefused, Held, Pending, Up, Running
  <2>9. AwayIsTimed'
    BY <1>22 DEF RecvRefused, AwayIsTimed
  <2> QED
    BY <2>1, <2>2, <2>3, <2>4, <2>5, <2>6, <2>7, <2>8, <2>9 DEF IInv
<1>23. ASSUME NEW id \in Ids, UpdateDescriptor(id) PROVE IInv'
  <2>1. TypeOK'
    <3>1. LocTypeOK' /\ CallerTypeOK'
      BY <1>23 DEF TypeOK, LocTypeOK, CallerTypeOK, Starts, UpdateDescriptor, ToAgent
    <3>2. LinkTypeOK'
      <4>1. toSrv' \subseteq Msgs(UpTypes)
        BY <1>23, Messages DEF TypeOK, LinkTypeOK, UpTypes, UpdateDescriptor, ToAgent
      <4>2. toAgent' \subseteq Msgs(DownTypes)
        BY <1>23, Messages DEF TypeOK, LinkTypeOK, DownTypes, UpdateDescriptor, ToAgent
      <4> QED
        BY <1>23, <4>1, <4>2 DEF TypeOK, LinkTypeOK, UpdateDescriptor, ToAgent
    <3>3. RemoteTypeOK'
      BY <1>23 DEF TypeOK, RemoteTypeOK, UpdateDescriptor, ToAgent
    <3> QED
      BY <1>23, <3>1, <3>2, <3>3 DEF TypeOK, UpdateDescriptor, ToAgent
  <2>2. Births'
    BY <1>23, Messages DEF UpdateDescriptor, ToAgent, Births, Unborn, Unknown, Pending, Up, Down
  <2>3. Links'
    BY <1>23 DEF UpdateDescriptor, ToAgent, Links
  <2>4. GivenUp'
    BY <1>23, Messages DEF UpdateDescriptor, ToAgent, GivenUp, NoSession, Down
  <2>5. Words'
    BY <1>23, Messages DEF UpdateDescriptor, ToAgent, Words, Down
  <2>6. Ends' /\ Answers' /\ Held' /\ AwayIsTimed'
    BY <1>23 DEF UpdateDescriptor, ToAgent, Ends, Answers, Pending, Held, Up, Running, AwayIsTimed
  <2> QED
    BY <2>1, <2>2, <2>3, <2>4, <2>5, <2>6 DEF IInv
<1>24. ASSUME NEW id \in Ids, Close(id) PROVE IInv'
  <2>1. TypeOK'
    <3>1. LocTypeOK' /\ CallerTypeOK'
      BY <1>24 DEF TypeOK, LocTypeOK, CallerTypeOK, Starts, Close, Finish, ToAgent
    <3>2. LinkTypeOK'
      <4>1. toSrv' \subseteq Msgs(UpTypes)
        BY <1>24, Messages DEF TypeOK, LinkTypeOK, UpTypes, Close, Finish, ToAgent
      <4>2. toAgent' \subseteq Msgs(DownTypes)
        BY <1>24, Messages DEF TypeOK, LinkTypeOK, DownTypes, Close, Finish, ToAgent
      <4> QED
        BY <1>24, <4>1, <4>2 DEF TypeOK, LinkTypeOK, Close, Finish, ToAgent
    <3>3. RemoteTypeOK'
      BY <1>24 DEF TypeOK, RemoteTypeOK, Close, Finish, ToAgent
    <3> QED
      BY <1>24, <3>1, <3>2, <3>3 DEF TypeOK, Close, Finish, ToAgent
  <2>2. Births'
    BY <1>24, Messages
    DEF Close, Finish, ToAgent, Births, Unborn, Unknown, Pending, Up, Down, TypeOK, LocTypeOK,
        CallerTypeOK, LinkTypeOK, RemoteTypeOK
  <2>3. Links'
    BY <1>24 DEF Close, Finish, ToAgent, Links
  <2>4. GivenUp'
    BY <1>24, Messages
    DEF Close, Finish, ToAgent, GivenUp, NoSession, Down, TypeOK, LocTypeOK, CallerTypeOK,
        LinkTypeOK, RemoteTypeOK
  <2>5. Words'
    BY <1>24, Messages DEF Close, Finish, ToAgent, Words, Down
  <2>6. Answers'
    BY <1>24 DEF Close, Finish, ToAgent, Answers, Pending
  <2>7. Held'
    BY <1>24, Messages DEF Close, Finish, ToAgent, Held, Pending, Up, Running
  <2>8. AwayIsTimed'
    BY <1>24 DEF Close, Finish, ToAgent, AwayIsTimed
  <2>9. Ends'
    BY <1>24 DEF Close, Finish, ToAgent, Ends
  <2> QED
    BY <2>1, <2>2, <2>3, <2>4, <2>5, <2>6, <2>7, <2>8, <2>9 DEF IInv
<1>25. ASSUME NEW id \in Ids, CloseTimeout(id) PROVE IInv'
  <2>1. TypeOK'
    BY <1>25
    DEF CloseTimeout, Finish, TypeOK, LocTypeOK, CallerTypeOK, LinkTypeOK, RemoteTypeOK, Msgs,
        UpTypes, DownTypes, Starts
  <2>2. Births'
    BY <1>25 DEF CloseTimeout, Finish, Births, Unborn, Unknown, Pending, Up, Down
  <2>3. GivenUp'
    BY <1>25 DEF CloseTimeout, Finish, GivenUp, NoSession, Down
  <2>4. Words'
    BY <1>25 DEF CloseTimeout, Finish, Words, Down
  <2>5. Answers'
    BY <1>25 DEF CloseTimeout, Finish, Answers, Pending
  <2>6. Held'
    BY <1>25 DEF CloseTimeout, Finish, Held, Pending, Up, Running
  <2>7. AwayIsTimed'
    BY <1>25 DEF CloseTimeout, Finish, AwayIsTimed
  <2>8. Links' /\ Ends'
    BY <1>25 DEF CloseTimeout, Finish, Links, Ends
  <2> QED
    BY <2>1, <2>2, <2>3, <2>4, <2>5, <2>6, <2>7, <2>8 DEF IInv
<1>26. ASSUME NEW id \in Ids, AnswerKnown(id) PROVE IInv'
  <2>1. TypeOK'
    BY <1>26
    DEF AnswerKnown, Answered, TypeOK, LocTypeOK, CallerTypeOK, LinkTypeOK, RemoteTypeOK,
        Msgs, UpTypes, DownTypes, Starts
  <2>2. Births'
    BY <1>26
    DEF AnswerKnown, Answered, Births, Unborn, Unknown, Pending, Up, Down, Words, Answers,
        Links, TypeOK, LocTypeOK, CallerTypeOK, LinkTypeOK, RemoteTypeOK
  <2>3. Words'
    BY <1>26 DEF AnswerKnown, Answered, Words, Down
  <2>4. Answers'
    BY <1>26
    DEF AnswerKnown, Answered, Answers, Pending, TypeOK, LocTypeOK, CallerTypeOK, LinkTypeOK,
        RemoteTypeOK
  <2>5. Links' /\ GivenUp' /\ Ends' /\ Held' /\ AwayIsTimed'
    BY <1>26
    DEF AnswerKnown, Answered, Links, GivenUp, NoSession, Down, Ends, Held, Pending, Up,
        Running, AwayIsTimed
  <2> QED
    BY <2>1, <2>2, <2>3, <2>4, <2>5 DEF IInv
<1>27. ASSUME NEW id \in Ids, AnswerGivenUp(id) PROVE IInv'
  <2>1. TypeOK'
    BY <1>27
    DEF AnswerGivenUp, Answered, TypeOK, LocTypeOK, CallerTypeOK, LinkTypeOK, RemoteTypeOK,
        Msgs, UpTypes, DownTypes, Starts
  <2>2. Births'
    BY <1>27
    DEF AnswerGivenUp, Answered, Births, Unborn, Unknown, Pending, Up, Down, Words, Answers,
        Links, TypeOK, LocTypeOK, CallerTypeOK, LinkTypeOK, RemoteTypeOK
  <2>3. Words'
    BY <1>27 DEF AnswerGivenUp, Answered, Words, Down
  <2>4. Answers'
    BY <1>27
    DEF AnswerGivenUp, Answered, Answers, Pending, TypeOK, LocTypeOK, CallerTypeOK,
        LinkTypeOK, RemoteTypeOK
  <2>5. Links' /\ GivenUp' /\ Ends' /\ Held' /\ AwayIsTimed'
    BY <1>27
    DEF AnswerGivenUp, Answered, Links, GivenUp, NoSession, Down, Ends, Held, Pending, Up,
        Running, AwayIsTimed
  <2> QED
    BY <2>1, <2>2, <2>3, <2>4, <2>5 DEF IInv
<1>28. ASSUME NEW id \in Ids, AnswerEnded(id) PROVE IInv'
  <2>1. TypeOK'
    BY <1>28
    DEF AnswerEnded, Answered, TypeOK, LocTypeOK, CallerTypeOK, LinkTypeOK, RemoteTypeOK,
        Msgs, UpTypes, DownTypes, Starts
  <2>2. Births'
    BY <1>28
    DEF AnswerEnded, Answered, Births, Unborn, Unknown, Pending, Up, Down, Words, Answers,
        Links, TypeOK, LocTypeOK, CallerTypeOK, LinkTypeOK, RemoteTypeOK
  <2>3. Words'
    BY <1>28 DEF AnswerEnded, Answered, Words, Down
  <2>4. Answers'
    BY <1>28
    DEF AnswerEnded, Answered, Answers, Pending, TypeOK, LocTypeOK, CallerTypeOK, LinkTypeOK,
        RemoteTypeOK
  <2>5. Links' /\ GivenUp' /\ Ends' /\ Held' /\ AwayIsTimed'
    BY <1>28
    DEF AnswerEnded, Answered, Links, GivenUp, NoSession, Down, Ends, Held, Pending, Up,
        Running, AwayIsTimed
  <2> QED
    BY <2>1, <2>2, <2>3, <2>4, <2>5 DEF IInv
<1>29. ASSUME NEW id \in Ids, AnswerNew(id) PROVE IInv'
  <2>1. TypeOK'
    BY <1>29
    DEF AnswerNew, Answered, TypeOK, LocTypeOK, CallerTypeOK, LinkTypeOK, RemoteTypeOK, Msgs,
        UpTypes, DownTypes, Starts
  <2>2. Births'
    BY <1>29
    DEF AnswerNew, Answered, Births, Unborn, Unknown, Pending, Up, Down, Words, Answers,
        Links, TypeOK, LocTypeOK, CallerTypeOK, LinkTypeOK, RemoteTypeOK
  <2>3. GivenUp'
    BY <1>29
    DEF AnswerNew, Answered, GivenUp, NoSession, Down, TypeOK, LocTypeOK, CallerTypeOK,
        LinkTypeOK, RemoteTypeOK
  <2>4. Ends'
    BY <1>29 DEF AnswerNew, Answered, Ends
  <2>5. Words'
    BY <1>29
    DEF AnswerNew, Answered, Words, Down, Answers, Pending, Links, TypeOK, LocTypeOK,
        CallerTypeOK, LinkTypeOK, RemoteTypeOK
  <2>6. Answers'
    BY <1>29
    DEF AnswerNew, Answered, Answers, Pending, TypeOK, LocTypeOK, CallerTypeOK, LinkTypeOK,
        RemoteTypeOK
  <2>7. Held'
    BY <1>29 DEF AnswerNew, Answered, Held, Pending, Up, Running
  <2>8. AwayIsTimed'
    BY <1>29 DEF AnswerNew, Answered, AwayIsTimed
  <2>9. Links'
    BY <1>29 DEF AnswerNew, Answered, Links
  <2> QED
    BY <2>1, <2>2, <2>3, <2>4, <2>5, <2>6, <2>7, <2>8, <2>9 DEF IInv
<1>30. ASSUME NEW id \in Ids, RecvExit(id) PROVE IInv'
  <2>1. TypeOK'
    <3>1. LocTypeOK' /\ CallerTypeOK'
      BY <1>30 DEF TypeOK, LocTypeOK, CallerTypeOK, Starts, RecvExit, Finish, ToAgent
    <3>2. LinkTypeOK'
      <4>1. toSrv' \subseteq Msgs(UpTypes)
        BY <1>30, Messages DEF TypeOK, LinkTypeOK, UpTypes, RecvExit, Finish, ToAgent
      <4>2. toAgent' \subseteq Msgs(DownTypes)
        BY <1>30, Messages DEF TypeOK, LinkTypeOK, DownTypes, RecvExit, Finish, ToAgent
      <4> QED
        BY <1>30, <4>1, <4>2 DEF TypeOK, LinkTypeOK, RecvExit, Finish, ToAgent
    <3>3. RemoteTypeOK'
      BY <1>30 DEF TypeOK, RemoteTypeOK, RecvExit, Finish, ToAgent
    <3> QED
      BY <1>30, <3>1, <3>2, <3>3 DEF TypeOK, RecvExit, Finish, ToAgent
  <2>2. Births'
    BY <1>30, Messages
    DEF RecvExit, Finish, ToAgent, Births, Unborn, Unknown, Pending, Up, Down, TypeOK,
        LocTypeOK, CallerTypeOK, LinkTypeOK, RemoteTypeOK, Msgs, UpTypes, DownTypes, Starts
  <2>3. Links'
    BY <1>30 DEF RecvExit, Finish, ToAgent, Links
  <2>4. GivenUp'
    BY <1>30, Messages DEF RecvExit, Finish, ToAgent, GivenUp, NoSession, Down
  <2>5. Words'
    BY <1>30, Messages DEF RecvExit, Finish, ToAgent, Words, Down
  <2>6. Answers'
    BY <1>30 DEF RecvExit, Finish, ToAgent, Answers, Pending
  <2>7. Held'
    BY <1>30, Messages DEF RecvExit, Finish, ToAgent, Held, Pending, Up, Running
  <2>8. AwayIsTimed'
    BY <1>30 DEF RecvExit, Finish, ToAgent, AwayIsTimed
  <2>9. Ends'
    BY <1>30 DEF RecvExit, Finish, ToAgent, Ends
  <2> QED
    BY <2>1, <2>2, <2>3, <2>4, <2>5, <2>6, <2>7, <2>8, <2>9 DEF IInv
<1>31. ASSUME NEW id \in Ids, RecvSpawn(id) PROVE IInv'
  <2>1. TypeOK'
    BY <1>31, Messages
    DEF RecvSpawn, TypeOK, LocTypeOK, CallerTypeOK, LinkTypeOK, RemoteTypeOK, Msgs, UpTypes,
        DownTypes, Starts
  <2>2. Births'
    BY <1>31, Messages
    DEF RecvSpawn, Births, Unborn, Unknown, Pending, Up, Down, TypeOK, LocTypeOK,
        CallerTypeOK, LinkTypeOK, RemoteTypeOK, Msgs, UpTypes, DownTypes, Starts
  <2>3. Links'
    BY <1>31 DEF RecvSpawn, Links
  <2>4. GivenUp'
    BY <1>31, Messages DEF RecvSpawn, GivenUp, NoSession, Down
  <2>5. Words'
    BY <1>31, Messages DEF RecvSpawn, Words, Down
  <2>6. Ends' /\ Answers' /\ Held' /\ AwayIsTimed'
    BY <1>31 DEF RecvSpawn, Ends, Answers, Pending, Held, Up, Running, AwayIsTimed
  <2> QED
    BY <2>1, <2>2, <2>3, <2>4, <2>5, <2>6 DEF IInv
<1>32. ASSUME NEW id \in Ids, Spawn(id) PROVE IInv'
  <2>1. TypeOK'
    <3>1. LocTypeOK' /\ CallerTypeOK'
      BY <1>32 DEF TypeOK, LocTypeOK, CallerTypeOK, Starts, Spawn, ToServer
    <3>2. LinkTypeOK'
      <4>1. toSrv' \subseteq Msgs(UpTypes)
        BY <1>32, Messages DEF TypeOK, LinkTypeOK, UpTypes, Spawn, ToServer
      <4>2. toAgent' \subseteq Msgs(DownTypes)
        BY <1>32, Messages DEF TypeOK, LinkTypeOK, DownTypes, Spawn, ToServer
      <4> QED
        BY <1>32, <4>1, <4>2 DEF TypeOK, LinkTypeOK, Spawn, ToServer
    <3>3. RemoteTypeOK'
      BY <1>32 DEF TypeOK, RemoteTypeOK, Spawn, ToServer
    <3> QED
      BY <1>32, <3>1, <3>2, <3>3 DEF TypeOK, Spawn, ToServer
  <2>2. Births'
    BY <1>32, Messages
    DEF Spawn, ToServer, Births, Unborn, Unknown, Pending, Up, Down, TypeOK, LocTypeOK,
        CallerTypeOK, LinkTypeOK, RemoteTypeOK
  <2>3. Links'
    BY <1>32 DEF Spawn, ToServer, Links, TypeOK, LocTypeOK, CallerTypeOK, LinkTypeOK, RemoteTypeOK
  <2>4. Held'
    BY <1>32, Messages
    DEF Spawn, ToServer, Held, Pending, Up, Running, TypeOK, LocTypeOK, CallerTypeOK,
        LinkTypeOK, RemoteTypeOK
  <2>5. GivenUp' /\ Ends' /\ Words' /\ Answers' /\ AwayIsTimed'
    BY <1>32
    DEF Spawn, ToServer, GivenUp, NoSession, Down, Ends, Words, Answers, Pending, AwayIsTimed
  <2> QED
    BY <2>1, <2>2, <2>3, <2>4, <2>5 DEF IInv
<1>33. ASSUME NEW id \in Ids, RecvClose(id) PROVE IInv'
  <2>1. TypeOK'
    BY <1>33, Messages
    DEF RecvClose, Stop, TypeOK, LocTypeOK, CallerTypeOK, LinkTypeOK, RemoteTypeOK, Msgs,
        UpTypes, DownTypes, Starts
  <2>2. Births'
    BY <1>33, Messages DEF RecvClose, Stop, Births, Unborn, Unknown, Pending, Up, Down
  <2>3. Links'
    BY <1>33 DEF RecvClose, Stop, Links, TypeOK, LocTypeOK, CallerTypeOK, LinkTypeOK, RemoteTypeOK
  <2>4. GivenUp'
    BY <1>33, Messages DEF RecvClose, Stop, GivenUp, NoSession, Down
  <2>5. Words'
    BY <1>33, Messages DEF RecvClose, Stop, Words, Down
  <2>6. Held'
    BY <1>33, Messages
    DEF RecvClose, Stop, Held, Pending, Up, Running, TypeOK, LocTypeOK, CallerTypeOK,
        LinkTypeOK, RemoteTypeOK
  <2>7. Ends' /\ Answers' /\ AwayIsTimed'
    BY <1>33 DEF RecvClose, Stop, Ends, Answers, Pending, AwayIsTimed
  <2> QED
    BY <2>1, <2>2, <2>3, <2>4, <2>5, <2>6, <2>7 DEF IInv
<1>34. ASSUME NEW id \in Ids, RecvDescriptor(id) PROVE IInv'
  <2>1. TypeOK'
    BY <1>34, Messages
    DEF RecvDescriptor, TypeOK, LocTypeOK, CallerTypeOK, LinkTypeOK, RemoteTypeOK, Msgs,
        UpTypes, DownTypes, Starts
  <2>2. Births'
    BY <1>34, Messages DEF RecvDescriptor, Births, Unborn, Unknown, Pending, Up, Down
  <2>3. Links'
    BY <1>34 DEF RecvDescriptor, Links
  <2>4. GivenUp'
    BY <1>34, Messages DEF RecvDescriptor, GivenUp, NoSession, Down
  <2>5. Words'
    BY <1>34, Messages DEF RecvDescriptor, Words, Down
  <2>6. Ends' /\ Answers' /\ Held' /\ AwayIsTimed'
    BY <1>34 DEF RecvDescriptor, Ends, Answers, Pending, Held, Up, Running, AwayIsTimed
  <2> QED
    BY <2>1, <2>2, <2>3, <2>4, <2>5, <2>6 DEF IInv
<1>35. ASSUME NEW id \in Ids, RecvForget(id) PROVE IInv'
  <2>1. TypeOK'
    BY <1>35, Messages
    DEF RecvForget, TypeOK, LocTypeOK, CallerTypeOK, LinkTypeOK, RemoteTypeOK, Msgs, UpTypes,
        DownTypes, Starts
  <2>2. Births'
    BY <1>35, Messages DEF RecvForget, Births, Unborn, Unknown, Pending, Up, Down
  <2>3. Links'
    BY <1>35 DEF RecvForget, Links
  <2>4. GivenUp'
    BY <1>35, Messages DEF RecvForget, GivenUp, NoSession, Down
  <2>5. Words'
    BY <1>35, Messages DEF RecvForget, Words, Down
  <2>6. Held'
    BY <1>35, Messages
    DEF RecvForget, Held, Pending, Up, Running, Words, Down, TypeOK, LocTypeOK, CallerTypeOK,
        LinkTypeOK, RemoteTypeOK
  <2>7. Ends' /\ Answers' /\ AwayIsTimed'
    BY <1>35 DEF RecvForget, Ends, Answers, Pending, AwayIsTimed
  <2> QED
    BY <2>1, <2>2, <2>3, <2>4, <2>5, <2>6, <2>7 DEF IInv
<1>36. ASSUME NEW id \in Ids, ProcEnds(id) PROVE IInv'
  <2>1. TypeOK'
    <3>1. LocTypeOK' /\ CallerTypeOK'
      BY <1>36 DEF TypeOK, LocTypeOK, CallerTypeOK, Starts, ProcEnds, ToServer
    <3>2. LinkTypeOK'
      <4>1. toSrv' \subseteq Msgs(UpTypes)
        BY <1>36, Messages DEF TypeOK, LinkTypeOK, UpTypes, ProcEnds, ToServer
      <4>2. toAgent' \subseteq Msgs(DownTypes)
        BY <1>36, Messages DEF TypeOK, LinkTypeOK, DownTypes, ProcEnds, ToServer
      <4> QED
        BY <1>36, <4>1, <4>2 DEF TypeOK, LinkTypeOK, ProcEnds, ToServer
    <3>3. RemoteTypeOK'
      BY <1>36 DEF TypeOK, RemoteTypeOK, ProcEnds, ToServer
    <3> QED
      BY <1>36, <3>1, <3>2, <3>3 DEF TypeOK, ProcEnds, ToServer
  <2>2. Births'
    BY <1>36, Messages DEF ProcEnds, ToServer, Births, Unborn, Unknown, Pending, Up, Down
  <2>3. Links'
    BY <1>36 DEF ProcEnds, ToServer, Links
  <2>4. Held'
    BY <1>36, Messages DEF ProcEnds, ToServer, Held, Pending, Up, Running
  <2>5. GivenUp' /\ Ends' /\ Words' /\ Answers' /\ AwayIsTimed'
    BY <1>36
    DEF ProcEnds, ToServer, GivenUp, NoSession, Down, Ends, Words, Answers, Pending,
        AwayIsTimed
  <2> QED
    BY <2>1, <2>2, <2>3, <2>4, <2>5 DEF IInv
<1>37. CASE UNCHANGED vars
  <2>1. TypeOK'
    BY <1>37 DEF vars, TypeOK, LocTypeOK, CallerTypeOK, LinkTypeOK, RemoteTypeOK
  <2>2. Births'
    BY <1>37 DEF vars, Births, Unborn, Unknown, Pending, Up, Down
  <2>3. Links'
    BY <1>37 DEF vars, Links
  <2>4. GivenUp'
    BY <1>37 DEF vars, GivenUp, NoSession, Down
  <2>5. Ends'
    BY <1>37 DEF vars, Ends
  <2>6. Words'
    BY <1>37 DEF vars, Words, Down
  <2>7. Answers'
    BY <1>37 DEF vars, Answers, Pending
  <2>8. Held'
    BY <1>37 DEF vars, Held, Pending, Up, Running
  <2>9. AwayIsTimed'
    BY <1>37 DEF vars, AwayIsTimed
  <2> QED
    BY <2>1, <2>2, <2>3, <2>4, <2>5, <2>6, <2>7, <2>8, <2>9 DEF IInv
<1> QED
  BY <1>1, <1>2, <1>3, <1>4, <1>5, <1>6, <1>7, <1>8, <1>9, <1>10, <1>11, <1>12, <1>13, <1>14,
     <1>15, <1>16, <1>17, <1>18, <1>19, <1>20, <1>21, <1>22, <1>23, <1>24, <1>25, <1>26,
     <1>27, <1>28, <1>29, <1>30, <1>31, <1>32, <1>33, <1>34, <1>35, <1>36, <1>37
  DEF Next

\* What changes what is known of processes.
LEMMA ProcSteps ==
  ASSUME [Next]_vars
  PROVE  \/ UNCHANGED proc
         \/ AgentRestarts
         \/ Welcome
         \/ AgentReap
         \/ \E i \in Ids : Spawn(i)
         \/ \E i \in Ids : RecvClose(i)
         \/ \E i \in Ids : ProcEnds(i)
<1> USE DEF locVars, callerVars, wireVars, agentVars, histVars, bounds
<1>1. ASSUME ServerLoses \/ ServerRestarts \/ AgentLoses \/ Dial \/ AttachBegin \/ AttachLost \/
            AttachEnd \/ AttachFails \/ HubExpire \/ Leave \/ AgentExpire
      PROVE  UNCHANGED proc
  BY <1>1
  DEF ServerLoses, ServerRestarts, AgentLoses, Dial, AttachBegin, AttachLost, AttachEnd,
      AttachFails, HubExpire, Leave, AgentExpire
<1>2. ASSUME NEW i \in Ids, FinishDrop(i) \/ FinishMark(i) \/ Host(i) \/ StartRegister(i) \/
            StartAsk(i) \/ StartFails(i) \/ RecvSpawned(i) \/ RecvRefused(i) \/
            UpdateDescriptor(i) \/ Close(i) \/ CloseTimeout(i) \/ AnswerKnown(i) \/
            AnswerGivenUp(i) \/ AnswerEnded(i) \/ AnswerNew(i) \/ RecvExit(i) \/ RecvSpawn(i) \/
            RecvDescriptor(i) \/ RecvForget(i)
      PROVE  UNCHANGED proc
  BY <1>2
  DEF FinishDrop, FinishMark, Host, StartRegister, StartAsk, StartFails, RecvSpawned,
      RecvRefused, UpdateDescriptor, Close, CloseTimeout, AnswerKnown, AnswerGivenUp,
      AnswerEnded, AnswerNew, RecvExit, RecvSpawn, RecvDescriptor, RecvForget
<1>3. CASE UNCHANGED vars
  BY <1>3 DEF vars
<1> QED
  BY <1>1, <1>2, <1>3 DEF Next

\* What changes handles, or why they were given up.
LEMMA HandleSteps ==
  ASSUME [Next]_vars
  PROVE  \/ UNCHANGED <<handles, cause>>
         \/ ServerRestarts
         \/ HubExpire
         \/ Leave
         \/ \E i \in Ids : FinishDrop(i)
         \/ \E i \in Ids : StartRegister(i)
         \/ \E i \in Ids : StartFails(i)
         \/ \E i \in Ids : RecvRefused(i)
         \/ \E i \in Ids : Close(i)
         \/ \E i \in Ids : CloseTimeout(i)
         \/ \E i \in Ids : AnswerNew(i)
<1> USE DEF locVars, callerVars, wireVars, agentVars, histVars, bounds
<1>1. ASSUME ServerLoses \/ AgentLoses \/ AgentRestarts \/ Dial \/ AttachBegin \/ AttachLost \/
            AttachEnd \/ AttachFails \/ Welcome \/ AgentExpire \/ AgentReap
      PROVE  UNCHANGED <<handles, cause>>
  BY <1>1
  DEF ServerLoses, AgentLoses, AgentRestarts, Dial, AttachBegin, AttachLost, AttachEnd,
      AttachFails, Welcome, AgentExpire, AgentReap
<1>2. ASSUME NEW i \in Ids, FinishMark(i) \/ Host(i) \/ StartAsk(i) \/ RecvSpawned(i) \/
            UpdateDescriptor(i) \/ AnswerKnown(i) \/ AnswerGivenUp(i) \/ AnswerEnded(i) \/
            RecvExit(i) \/ RecvSpawn(i) \/ Spawn(i) \/ RecvClose(i) \/ RecvDescriptor(i) \/
            RecvForget(i) \/ ProcEnds(i)
      PROVE  UNCHANGED <<handles, cause>>
  BY <1>2
  DEF FinishMark, Host, StartAsk, RecvSpawned, UpdateDescriptor, AnswerKnown, AnswerGivenUp,
      AnswerEnded, RecvExit, RecvSpawn, Spawn, RecvClose, RecvDescriptor, RecvForget, ProcEnds
<1>3. CASE UNCHANGED vars
  BY <1>3 DEF vars
<1> QED
  BY <1>1, <1>2, <1>3 DEF Next

\* The invariant holds in every reachable state.
THEOREM Invariant == Spec => []IInv
<1>1. Init => IInv
  <2> SUFFICES ASSUME Init PROVE IInv
    OBVIOUS
  <2> USE DEF Init, None, NoAnswer
  <2>1. TypeOK
    BY DEF TypeOK, LocTypeOK, CallerTypeOK, LinkTypeOK, RemoteTypeOK, Starts, Msgs
  <2>2. Births
    BY DEF Births, Unborn, Unknown, Pending, Up, Down
  <2>3. Links /\ Ends /\ Words /\ Answers /\ Held /\ AwayIsTimed
    BY DEF Links, Ends, Words, Down, Answers, Held, AwayIsTimed
  <2>4. GivenUp
    BY DEF GivenUp, NoSession, Down
  <2> QED
    BY <2>1, <2>2, <2>3, <2>4 DEF IInv
<1> QED
  BY <1>1, NextInv, PTL DEF Spec

\* Once a connection has settled, the process of every handle runs, or is being stopped: its exit
\* is still to come (attach and exit in hub.go, welcome and pump in agent.go).
THEOREM HandlesHaveProcesses == Spec => []HandleHasProcess
<1>1. IInv => HandleHasProcess
  BY DEF IInv, TypeOK, LocTypeOK, Held, Pending, Running, Up, Settled, HandleHasProcess
<1> QED
  BY Invariant, <1>1, PTL

\* A handle whose location is away is on its way out (detachConn and expire in hub.go).
THEOREM AwayTimesOut == Spec => []AwayIsTimed
<1>1. IInv => AwayIsTimed
  BY DEF IInv
<1> QED
  BY Invariant, <1>1, PTL

\* A welcome or a close stops a process only if the server has no handle for it, or is closing
\* it; expire stops what it listed (attach and Close in hub.go, welcome and expire in agent.go).
THEOREM OnlyUnwantedStops == Spec => StopsUnwanted
<1>1. ASSUME IInv, [Next]_vars, NEW id \in Ids,
             link' = "on", proc[id] = "running", proc'[id] = "stopping"
      PROVE  id \notin handles \/ id \in closing \cup ending \/ id \in reaping
  <2>1. CASE UNCHANGED proc
    BY <1>1, <2>1
  <2>2. CASE Welcome
    BY <1>1, <2>2 DEF IInv, Words, Welcome, Stop
  <2>3. CASE AgentReap
    BY <1>1, <2>3 DEF AgentReap, Stop
  <2>4. ASSUME NEW i \in Ids, RecvClose(i)
        PROVE  id \notin handles \/ id \in closing \cup ending
    BY <1>1, <2>4 DEF IInv, Words, Down, RecvClose, Stop
  <2>5. ~AgentRestarts /\ \A i \in Ids : ~Spawn(i) /\ ~ProcEnds(i)
    BY <1>1 DEF IInv, TypeOK, RemoteTypeOK, AgentRestarts, Spawn, ProcEnds
  <2> QED
    BY <1>1, <2>1, <2>2, <2>3, <2>4, <2>5, ProcSteps
<1>2. IInv /\ [Next]_vars =>
        [\A id \in Ids :
           link' = "on" /\ proc[id] = "running" /\ proc'[id] = "stopping"
             => id \notin handles \/ id \in closing \cup ending \/ id \in reaping]_vars
  BY <1>1
<1> QED
  BY Invariant, <1>2, PTL DEF Spec, StopsUnwanted

\* A stream that the server gave up on is not adopted again by that server (Start, Close, expire
\* and attach in hub.go).
THEOREM NoSecondAdoption == Spec => GivenUpIsNotAdopted
<1>1. ASSUME IInv, [Next]_vars, NEW id \in Ids \ ending, cause[id] # "no", cause'[id] # "no",
             id \in handles'
      PROVE  id \in handles
  <2>1. ASSUME NEW i \in Ids, StartRegister(i) PROVE id \in handles
    BY <1>1, <2>1 DEF IInv, Births, Unknown, StartRegister
  <2>2. ASSUME NEW i \in Ids, AnswerNew(i) PROVE id \in handles
    BY <1>1, <2>2 DEF IInv, TypeOK, GivenUp, NoSession, AnswerNew
  <2>3. handles' \subseteq handles \/ \E i \in Ids : StartRegister(i) \/ AnswerNew(i)
    BY <1>1, HandleSteps DEF ServerRestarts, FreshServer, HubExpire, Leave, FinishDrop, StartFails,
         RecvRefused, Close, CloseTimeout, locVars
  <2> QED
    BY <1>1, <2>1, <2>2, <2>3
<1>2. IInv /\ [Next]_vars =>
        [\A id \in Ids \ ending :
           cause[id] # "no" /\ cause'[id] # "no" => (id \in handles' => id \in handles)]_vars
  BY <1>1
<1> QED
  BY Invariant, <1>2, PTL DEF Spec, GivenUpIsNotAdopted
=============================================================================
