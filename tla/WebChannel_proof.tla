-------------------------- MODULE WebChannel_proof --------------------------
(***************************************************************************)
(* A live conversation of the web channel stays reachable; what a page     *)
(* shows, its taskbar and whether the conversation is over, becomes true   *)
(* once nothing is under way.  For any number of conversations,            *)
(* goroutines, requests and messages a channel of the hub can hold.        *)
(***************************************************************************)
EXTENDS WebChannel, SequenceTheorems, TLAPS

Fields == {"at", "conv", "next", "say", "to"}

Statuses == {"pending", "running", "done"}

Shape ==
  /\ rows \in Seq(Statuses) /\ Len(rows) > 0
  /\ current \in Seq(Nat) /\ Len(current) = Len(rows)
  /\ \A c \in DOMAIN rows : current[c] \in DOMAIN rows
  /\ act = [g \in Goroutines |-> act[g]] /\ \A g \in Goroutines : DOMAIN act[g] = Fields
  /\ live \subseteq DOMAIN rows /\ ours \subseteq DOMAIN rows /\ byID \subseteq ours
  /\ 1 \in live => 1 \in ours

\* What a goroutine still knows of the conversation it works on: one that is to be unmapped,
\* or that was restarted, does not come back to life.
HeldBy(a) ==
  /\ a.at \in {"mapping", "stillborn"} => a.conv \in DOMAIN rows /\ a.conv # 1
  /\ a.at \in {"submit", "prompting", "unknown"} => a.conv \in DOMAIN rows
  /\ a.at = "closing" => a.conv \in ours
  /\ a.at = "unmapping" => a.conv \in ours \ live
  /\ a.at \in {"restarting", "replacing"} => /\ a.conv \in DOMAIN rows \ live
                                             /\ a.next \in DOMAIN rows
                                             /\ a.conv = 1 => 1 \in ours

Held == \A g \in Goroutines : HeldBy(act[g])

IInv == Shape /\ Held /\ StaysReachable

-----------------------------------------------------------------------------
\* The invariant holds before anything is asked.
LEMMA InitInv == Init => IInv
<1> SUFFICES ASSUME Init PROVE IInv
  OBVIOUS
<1>1. /\ rows \in Seq(Statuses) /\ Len(rows) = 1 /\ DOMAIN rows = 1..1
      /\ current \in Seq(Nat) /\ Len(current) = 1 /\ current[1] = 1
  <2>1. rows = <<"done">> /\ current = <<1>>
    BY DEF Init
  <2>2. "done" \in Statuses
    BY DEF Statuses
  <2> QED
    BY <2>1, <2>2
<1>2. DOMAIN Rest = Fields
  BY DEF Rest, Fields
<1>3. act = [g \in Goroutines |-> act[g]] /\ \A g \in Goroutines : act[g] = Rest
  BY DEF Init
<1>4. Shape
  BY <1>1, <1>2, <1>3 DEF Init, Shape
<1>5. Held /\ StaysReachable
  BY <1>3 DEF Init, Rest, Held, HeldBy, StaysReachable
<1> QED
  BY <1>4, <1>5 DEF IInv

\* What a step of goroutine g does to act, and to the rows.
Placed(g, at, c, n) ==
  /\ act' = [h \in Goroutines |-> act'[h]] /\ \A h \in Goroutines : DOMAIN act'[h] = Fields
  /\ act'[g].at = at /\ act'[g].conv = c /\ act'[g].next = n
  /\ \A h \in Goroutines :
       h # g => /\ act'[h].at = act[h].at /\ act'[h].conv = act[h].conv
                /\ act'[h].next = act[h].next

OneMore ==
  /\ rows' \in Seq(Statuses) /\ Len(rows') > 0
  /\ New # 1 /\ New \notin DOMAIN rows /\ DOMAIN rows' = DOMAIN rows \cup {New}
  /\ current' \in Seq(Nat) /\ Len(current') = Len(rows')
  /\ \A c \in DOMAIN rows' : current'[c] \in DOMAIN rows'

AsMany ==
  /\ rows' \in Seq(Statuses) /\ Len(rows') > 0 /\ DOMAIN rows' = DOMAIN rows
  /\ Len(rows') = Len(rows) /\ current' = current

\* Goes gives one goroutine a new place.
LEMMA Gone ==
  ASSUME IInv, NEW g \in Goroutines, NEW at, NEW c, NEW n, NEW say, Goes(g, at, c, n, say)
  PROVE  Placed(g, at, c, n)
<1>1. act' = [h \in Goroutines |-> act'[h]] /\ \A h \in Goroutines : h # g => act'[h] = act[h]
  BY DEF IInv, Shape, Goes
<1>2. act'[g] = [Rest EXCEPT !.at = at, !.conv = c, !.next = n, !.say = say]
  BY DEF IInv, Shape, Goes
<1>3. DOMAIN act'[g] = Fields /\ act'[g].at = at /\ act'[g].conv = c /\ act'[g].next = n
  BY <1>2 DEF Rest, Fields
<1> QED
  BY <1>1, <1>3 DEF IInv, Shape, Placed

\* Ends sets it free.
LEMMA Ended ==
  ASSUME IInv, NEW g \in Goroutines, NEW say, Ends(g, say)
  PROVE  Placed(g, "idle", 0, 0)
  BY Gone DEF Ends

\* A page that gives a socket up changes no goroutine's place, nor what it has to say.
LEMMA Became ==
  ASSUME NEW p, NEW a, BecomesWhile(p, a), \A h \in Goroutines : DOMAIN a[h] = Fields
  PROVE  /\ page' = p /\ act' = [h \in Goroutines |-> act'[h]]
         /\ \A h \in Goroutines :
              /\ DOMAIN act'[h] = Fields /\ act'[h].at = a[h].at /\ act'[h].conv = a[h].conv
              /\ act'[h].next = a[h].next /\ act'[h].say = a[h].say
<1>1. ASSUME NEW h \in Goroutines
      PROVE  act'[h] = a[h] \/ act'[h] = [a[h] EXCEPT !.to = "closed"]
  BY DEF BecomesWhile
<1>2. ASSUME NEW h \in Goroutines
      PROVE  /\ DOMAIN act'[h] = Fields /\ act'[h].at = a[h].at /\ act'[h].conv = a[h].conv
             /\ act'[h].next = a[h].next /\ act'[h].say = a[h].say
  BY <1>1 DEF Fields
<1> QED
  BY <1>2 DEF BecomesWhile

\* A goroutine that answers is free.
LEMMA Answered ==
  ASSUME IInv, NEW g \in Goroutines, NEW p, Answers(g, p)
  PROVE  /\ page' = p /\ Placed(g, "idle", 0, 0) /\ act'[g].say = <<>>
         /\ \A h \in Goroutines : h # g => act'[h].say = act[h].say
<1>1. PICK a : a = [act EXCEPT ![g] = Rest]
  OBVIOUS
<1>2. a[g] = Rest /\ \A h \in Goroutines : h # g => a[h] = act[h]
  BY <1>1 DEF IInv, Shape
<1>3. \A h \in Goroutines : DOMAIN a[h] = Fields
  BY <1>2 DEF IInv, Shape, Rest, Fields
<1>4. /\ page' = p /\ act' = [h \in Goroutines |-> act'[h]]
      /\ \A h \in Goroutines :
           /\ DOMAIN act'[h] = Fields /\ act'[h].at = a[h].at /\ act'[h].conv = a[h].conv
           /\ act'[h].next = a[h].next /\ act'[h].say = a[h].say
  <2>1. BecomesWhile(p, a)
    BY <1>1 DEF Answers
  <2> QED
    BY <1>3, <2>1, Became
<1>5. Rest.at = "idle" /\ Rest.conv = 0 /\ Rest.next = 0 /\ Rest.say = <<>>
  BY DEF Rest
<1> QED
  BY <1>2, <1>4, <1>5 DEF Placed

\* A new row is one more, and its own process serves it.
LEMMA Appended ==
  ASSUME IInv, NEW status \in Statuses, Creates(status)
  PROVE  OneMore
<1>1. Len(rows) \in Nat /\ Len(rows) > 0 /\ DOMAIN rows = 1..Len(rows)
  BY LenProperties DEF IInv, Shape
<1>2. rows' \in Seq(Statuses) /\ Len(rows') = Len(rows) + 1
  BY AppendProperties DEF IInv, Shape, Creates
<1>3. DOMAIN rows' = 1..Len(rows')
  BY <1>2, LenProperties
<1>4. 1..(Len(rows) + 1) = (1..Len(rows)) \cup {Len(rows) + 1}
  BY <1>1
<1>5. New \in Nat /\ New = Len(rows) + 1 /\ current \in Seq(Nat) /\ Len(current) = Len(rows)
  BY <1>1 DEF New, IInv, Shape
<1>6. /\ current' \in Seq(Nat) /\ Len(current') = Len(rows) + 1 /\ current'[New] = New
      /\ \A c \in 1..Len(rows) : current'[c] = current[c]
  BY <1>5, AppendProperties DEF Creates
<1>7. \A c \in DOMAIN rows' : current'[c] \in DOMAIN rows'
  BY <1>1, <1>2, <1>3, <1>4, <1>5, <1>6 DEF IInv, Shape
<1> QED
  BY <1>1, <1>2, <1>3, <1>4, <1>6, <1>7 DEF New, OneMore

\* So is that of a restart, and every process that served the old one serves it.
LEMMA Restarted ==
  ASSUME IInv, NEW g, NEW c, Restart(g, c)
  PROVE  OneMore
<1>1. Len(rows) \in Nat /\ Len(rows) > 0 /\ DOMAIN rows = 1..Len(rows)
  BY LenProperties DEF IInv, Shape
<1>2. rows' \in Seq(Statuses) /\ Len(rows') = Len(rows) + 1
  BY AppendProperties DEF IInv, Shape, Restart, Statuses
<1>3. DOMAIN rows' = 1..Len(rows')
  BY <1>2, LenProperties
<1>4. 1..(Len(rows) + 1) = (1..Len(rows)) \cup {Len(rows) + 1}
  BY <1>1
<1>5. New \in Nat /\ New = Len(rows) + 1
  BY <1>1 DEF New
<1>6. PICK f : f = [d \in 1..New |-> IF d = New \/ current[d] = c THEN New ELSE current[d]]
  OBVIOUS
<1>7. \A d \in 1..New : f[d] \in 1..New
  BY <1>1, <1>4, <1>5, <1>6 DEF IInv, Shape
<1>8. f = [d \in 1..New |-> f[d]] /\ \A d \in 1..New : f[d] \in Nat
  BY <1>5, <1>6, <1>7
<1>9. f \in Seq(Nat) /\ Len(f) = New
  BY <1>5, <1>8, IsASeq
<1>10. current' = f
  BY <1>6 DEF Restart
<1> QED
  BY <1>1, <1>2, <1>3, <1>4, <1>5, <1>7, <1>9, <1>10 DEF New, OneMore

\* A change of one status.
LEMMA Changed ==
  ASSUME IInv, NEW c \in DOMAIN rows, NEW status \in Statuses,
         rows' = [rows EXCEPT ![c] = status], current' = current
  PROVE  AsMany
  BY ExceptSeq, LenProperties DEF IInv, Shape, AsMany

\* A step of the hub or the page, which leaves the goroutines where they are.
Aside ==
  /\ UNCHANGED server
  /\ act' = [h \in Goroutines |-> act'[h]] /\ \A h \in Goroutines : DOMAIN act'[h] = Fields
  /\ \A h \in Goroutines :
       act'[h].at = act[h].at /\ act'[h].conv = act[h].conv /\ act'[h].next = act[h].next

\* Such a step keeps the invariant.
LEMMA AsideKeeps == IInv /\ Aside => IInv'
  BY DEF IInv, Shape, Held, HeldBy, StaysReachable, Aside, server, agents

\* A message said, whoever it reached,
LEMMA ToldAside ==
  ASSUME IInv, UNCHANGED server, NEW g \in Goroutines, Said(g)
  PROVE  Aside
  BY DEF IInv, Shape, Aside, Said, Fields

\* ... the end of a socket or of a page,
LEMMA BecomesAside ==
  ASSUME IInv, UNCHANGED server, NEW p, Becomes(p)
  PROVE  Aside /\ page' = p /\ \A h \in Goroutines : act'[h].say = act[h].say
  BY Became DEF IInv, Shape, Aside, Becomes

\* ... and what happens in the page alone are such steps.
LEMMA UntouchedAside == IInv /\ UNCHANGED <<server, act>> => Aside
  BY DEF IInv, Shape, Aside

\* Of a step that ends conversations, or brings new ones or the adopted one to life, each
\* goroutine still knows what it knew.
LEMMA HeldKeeps ==
  ASSUME IInv, NEW g \in Goroutines, NEW at, NEW c, NEW n, Placed(g, at, c, n),
         DOMAIN rows \subseteq DOMAIN rows', ours \subseteq ours',
         \A d \in live' : d \in live \/ d \notin DOMAIN rows \/ (d = 1 /\ 1 \notin ours),
         HeldBy(act[g])'
  PROVE  Held'
<1>1. ASSUME NEW h \in Goroutines, h # g PROVE HeldBy(act[h])'
  <2>1. HeldBy(act[h])
    BY DEF IInv, Held
  <2>2. act'[h].at = act[h].at /\ act'[h].conv = act[h].conv /\ act'[h].next = act[h].next
    BY <1>1 DEF Placed
  <2> QED
    BY <2>1, <2>2 DEF HeldBy, IInv, Shape
<1> QED
  BY <1>1 DEF Held

-----------------------------------------------------------------------------
\* No step of a goroutine, of the network or of the page breaks it.
LEMMA NextInv == IInv /\ [Next]_vars => IInv'
<1> SUFFICES ASSUME IInv, [Next]_vars PROVE IInv'
  OBVIOUS
<1> USE DEF Statuses, agents
<1>0. 1 \in DOMAIN rows
  BY LenProperties DEF IInv, Shape
<1>1. ASSUME NEW g \in Goroutines, StartSessionWeb(g) PROVE IInv'
  <2>1. Placed(g, "mapping", New, 0)
    BY <1>1, Gone DEF StartSessionWeb
  <2>2. OneMore
    BY <1>1, Appended DEF StartSessionWeb
  <2>3. live' = live \cup {New} /\ UNCHANGED <<byID, ours, orphans>>
    BY <1>1 DEF StartSessionWeb
  <2>4. Shape' /\ StaysReachable'
    BY <1>0, <2>1, <2>2, <2>3 DEF IInv, Shape, StaysReachable, Placed, OneMore
  <2>5. Held'
    BY <2>1, <2>2, <2>3, HeldKeeps DEF HeldBy, Placed, OneMore
  <2> QED
    BY <2>4, <2>5 DEF IInv
<1>2. ASSUME NEW g \in Goroutines, viewProjects(g) PROVE IInv'
  <2>1. Placed(g, "listed", 0, 0)
    BY <1>2, Gone DEF viewProjects
  <2> QED
    BY <1>2, <2>1 DEF viewProjects, server, IInv, Shape, Held, HeldBy, StaysReachable, Placed
<1>3. ASSUME NEW g \in Goroutines, startPendingSession(g) PROVE IInv'
  <2>1. CASE StartSessionWeb(g)
    BY <1>1, <2>1
  <2>2. CASE Ends(g, <<>>) /\ UNCHANGED server
    <3>1. Placed(g, "idle", 0, 0)
      BY <2>2, Ended
    <3> QED
      BY <2>2, <3>1 DEF server, IInv, Shape, Held, HeldBy, StaysReachable, Placed
  <2> QED
    BY <1>3, <2>1, <2>2 DEF startPendingSession
<1>4. ASSUME NEW g \in Goroutines, createSession(g) PROVE IInv'
  BY <1>1, <1>4 DEF createSession
<1>5. ASSUME NEW g \in Goroutines, StartMaps(g) PROVE IInv'
  <2>1. Placed(g, "idle", 0, 0)
    BY <1>5, Answered DEF StartMaps
  <2> QED
    BY <1>5, <2>1 DEF StartMaps, At, IInv, Shape, Held, HeldBy, StaysReachable, Placed
<1>6. ASSUME NEW g \in Goroutines, StartFailedSessionWeb(g) PROVE IInv'
  <2>1. Placed(g, "stillborn", New, 0)
    BY <1>6, Gone DEF StartFailedSessionWeb
  <2>2. OneMore
    BY <1>6, Appended DEF StartFailedSessionWeb
  <2> QED
    BY <1>6, <2>1, <2>2
    DEF StartFailedSessionWeb, IInv, Shape, Held, HeldBy, StaysReachable, Placed, OneMore
<1>7. ASSUME NEW g \in Goroutines, createProjectSession(g) PROVE IInv'
  BY <1>1, <1>6, <1>7 DEF createProjectSession
<1>8. ASSUME NEW g \in Goroutines, StartFailed(g) PROVE IInv'
  <2>1. Placed(g, "idle", 0, 0)
    BY <1>8, Answered DEF StartFailed
  <2> QED
    BY <1>8, <2>1 DEF StartFailed, server, IInv, Shape, Held, HeldBy, StaysReachable, Placed
<1>9. ASSUME NEW g \in Goroutines, NEW c \in DOMAIN rows, SubmitPrompt(g, c) PROVE IInv'
  <2>1. Placed(g, "submit", c, 0)
    BY <1>9, Gone DEF SubmitPrompt
  <2> QED
    BY <1>9, <2>1 DEF SubmitPrompt, server, IInv, Shape, Held, HeldBy, StaysReachable, Placed
<1>10. ASSUME NEW g \in Goroutines, SendPrompt(g) PROVE IInv'
  <2>1. PICK c : c = current[act[g].conv]
    OBVIOUS
  <2>2. c \in DOMAIN rows
    BY <1>10, <2>1 DEF SendPrompt, At, IInv, Shape, Held, HeldBy
  <2>3. Placed(g, "prompting", c, 0) \/ Placed(g, "idle", 0, 0)
    BY <1>10, <2>1, Gone, Ended DEF SendPrompt
  <2> QED
    BY <1>10, <2>2, <2>3
    DEF SendPrompt, server, IInv, Shape, Held, HeldBy, StaysReachable, Placed
<1>11. ASSUME NEW g \in Goroutines, PromptRuns(g) PROVE IInv'
  <2>1. Placed(g, "idle", 0, 0)
    BY <1>11, Ended DEF PromptRuns
  <2>2. AsMany
    BY <1>11, Changed DEF PromptRuns, Runs, At, IInv, Shape, Held, HeldBy
  <2> QED
    BY <1>11, <2>1, <2>2 DEF PromptRuns, IInv, Shape, Held, HeldBy, StaysReachable, Placed, AsMany
<1>12. ASSUME NEW g \in Goroutines, NEW c \in DOMAIN rows, NEW followUp \in BOOLEAN,
              TurnEnds(g, c, followUp) PROVE IInv'
  <2>1. PICK now : now = current[c]
    OBVIOUS
  <2>2. now \in DOMAIN rows
    BY <2>1 DEF IInv, Shape
  <2>3. AsMany
    BY <1>12, <2>1, <2>2, Changed DEF TurnEnds, Runs
  <2>4. CASE followUp
    <3>1. Placed(g, "prompting", now, 0)
      BY <1>12, <2>1, <2>4, Gone DEF TurnEnds
    <3> QED
      BY <1>12, <2>2, <2>3, <3>1
      DEF TurnEnds, IInv, Shape, Held, HeldBy, StaysReachable, Placed, AsMany
  <2>5. CASE ~followUp
    BY <1>12, <2>3, <2>5 DEF TurnEnds, IInv, Shape, Held, HeldBy, StaysReachable, AsMany
  <2> QED
    BY <2>4, <2>5
<1>13. ASSUME NEW g \in Goroutines, NEW c, Restart(g, c) PROVE IInv'
  <2>1. Placed(g, "restarting", c, New)
    BY <1>13, Gone DEF Restart
  <2>2. OneMore
    BY <1>13, Restarted
  <2>3. c \in live /\ live' = (live \ {c}) \cup {New} /\ UNCHANGED <<byID, ours, orphans>>
    BY <1>13 DEF Restart
  <2>4. Shape' /\ StaysReachable'
    BY <1>0, <2>1, <2>2, <2>3 DEF IInv, Shape, StaysReachable, Placed, OneMore
  <2>5. Held'
    <3>1. c \in DOMAIN rows /\ (c = 1 => 1 \in ours) /\ c # New
      BY <2>2, <2>3 DEF IInv, Shape, OneMore
    <3> QED
      BY <2>1, <2>2, <2>3, <3>1, HeldKeeps DEF HeldBy, Placed, OneMore
  <2> QED
    BY <2>4, <2>5 DEF IInv
<1>14. ASSUME NEW g \in Goroutines, RestartWaits(g) PROVE IInv'
  <2>1. Placed(g, "replacing", act[g].conv, act[g].next)
    BY <1>14, Gone DEF RestartWaits
  <2> QED
    BY <1>14, <2>1
    DEF RestartWaits, At, server, IInv, Shape, Held, HeldBy, StaysReachable, Placed
<1>15. ASSUME NEW g \in Goroutines, handleReplaced(g) PROVE IInv'
  <2>1. PICK old, new : old = act[g].conv /\ new = current[act[g].next]
    OBVIOUS
  <2>2. old \in DOMAIN rows \ live /\ new \in DOMAIN rows
    BY <1>15, <2>1 DEF handleReplaced, At, IInv, Shape, Held, HeldBy
  <2>3. Placed(g, "idle", 0, 0)
    BY <1>15, Ended DEF handleReplaced
  <2>4. AsMany
    BY <1>15, <2>1, <2>2, Changed DEF handleReplaced
  <2>5. CASE old \in byID
    <3>1. /\ live' = live /\ byID' = (byID \ {old}) \cup {new} /\ ours' = ours \cup {new}
          /\ orphans' = orphans
      BY <1>15, <2>1, <2>5 DEF handleReplaced
    <3>2. Held'
      BY <2>3, <2>4, <3>1, HeldKeeps DEF HeldBy, Placed, AsMany
    <3> QED
      BY <2>2, <2>3, <2>4, <2>5, <3>1, <3>2 DEF IInv, Shape, StaysReachable, Placed, AsMany
  <2>6. CASE old \notin byID
    <3>1. PICK left : left = IF old \in ours THEN {new} \ byID ELSE {}
      OBVIOUS
    <3>2. /\ live' = live /\ byID' = byID /\ ours' = ours \cup left
          /\ orphans' = orphans \cup left
      BY <1>15, <2>1, <2>6, <3>1 DEF handleReplaced, Orphaned
    <3>3. left \subseteq DOMAIN rows
      BY <2>2, <3>1
    <3>4. Held'
      BY <2>3, <2>4, <3>2, HeldKeeps DEF HeldBy, Placed, AsMany
    <3> QED
      BY <2>3, <2>4, <3>2, <3>3, <3>4 DEF IInv, Shape, StaysReachable, Placed, AsMany
  <2> QED
    BY <2>5, <2>6
<1>16. ASSUME NEW g \in Goroutines, RestartFails(g) PROVE IInv'
  <2>1. Placed(g, "idle", 0, 0)
    BY <1>16, Ended DEF RestartFails
  <2> QED
    BY <1>16, <2>1
    DEF RestartFails, At, Orphaned, IInv, Shape, Held, HeldBy, StaysReachable, Placed
<1>17. ASSUME NEW g \in Goroutines, NEW c \in DOMAIN rows, CloseSession(g, c) PROVE IInv'
  <2>1. Placed(g, IF c \in byID THEN "closing" ELSE "unknown", c, 0)
    BY <1>17, Gone DEF CloseSession
  <2> QED
    BY <1>17, <2>1 DEF CloseSession, IInv, Shape, Held, HeldBy, StaysReachable, Placed
<1>18. ASSUME NEW g \in Goroutines, CloseRefused(g) PROVE IInv'
  <2>1. Placed(g, "idle", 0, 0)
    BY <1>18, Answered DEF CloseRefused
  <2> QED
    BY <1>18, <2>1
    DEF CloseRefused, At, server, IInv, Shape, Held, HeldBy, StaysReachable, Placed
<1>19. ASSUME NEW g \in Goroutines, CloseGoes(g) PROVE IInv'
  <2>1. Placed(g, "unmapping", act[g].conv, 0)
    BY <1>19, Gone DEF CloseGoes
  <2>2. CASE act[g].conv \in live
    <3>1. AsMany
      BY <1>19, <2>2, Changed DEF CloseGoes, closeConversation, At, IInv, Shape, Held, HeldBy
    <3>2. /\ live' = live \ {act[g].conv} /\ act[g].conv \in ours
          /\ UNCHANGED <<byID, ours, orphans>>
      BY <1>19, <2>2 DEF CloseGoes, closeConversation, At, IInv, Held, HeldBy
    <3>3. Held'
      BY <2>1, <3>1, <3>2, HeldKeeps DEF HeldBy, Placed, AsMany
    <3> QED
      BY <2>1, <3>1, <3>2, <3>3 DEF IInv, Shape, StaysReachable, Placed, AsMany
  <2>3. CASE act[g].conv \notin live
    <3>1. /\ act[g].conv \in ours \ live
          /\ UNCHANGED <<rows, current, live, byID, ours, orphans>>
      BY <1>19, <2>3 DEF CloseGoes, agents, At, IInv, Held, HeldBy
    <3>2. Held'
      BY <2>1, <3>1 DEF IInv, Held, HeldBy, Placed
    <3> QED
      BY <2>1, <3>1, <3>2 DEF IInv, Shape, StaysReachable, Placed
  <2> QED
    BY <2>2, <2>3
<1>20. ASSUME NEW g \in Goroutines, CloseUnmaps(g) PROVE IInv'
  <2>1. Placed(g, "idle", 0, 0)
    BY <1>20, Answered DEF CloseUnmaps
  <2>2. /\ byID' \subseteq byID /\ \A c \in byID \ byID' : c \notin live
        /\ UNCHANGED <<rows, current, live, ours, orphans>>
    BY <1>20 DEF CloseUnmaps, At, IInv, Held, HeldBy
  <2> QED
    BY <2>1, <2>2 DEF IInv, Shape, Held, HeldBy, StaysReachable, Placed
<1>21. ASSUME NEW g \in Goroutines, NEW c \in DOMAIN rows, Exit(g, c) PROVE IInv'
  <2>1. Placed(g, "idle", 0, 0)
    BY <1>21, Ended DEF Exit
  <2>2. AsMany
    BY <1>21, Changed DEF Exit, closeConversation, IInv, Shape, Held, HeldBy
  <2> QED
    BY <1>21, <2>1, <2>2
    DEF Exit, closeConversation, IInv, Shape, Held, HeldBy, StaysReachable, Placed, AsMany
<1>22. ASSUME NEW g \in Goroutines, OtherCreates(g) PROVE IInv'
  <2>1. Placed(g, "idle", 0, 0)
    BY <1>22, Ended DEF OtherCreates
  <2>2. OneMore
    BY <1>22, Appended DEF OtherCreates
  <2>3. live' = live \cup {New} /\ UNCHANGED <<byID, ours, orphans>>
    BY <1>22 DEF OtherCreates
  <2>4. Shape' /\ StaysReachable'
    BY <1>0, <2>1, <2>2, <2>3 DEF IInv, Shape, StaysReachable, Placed, OneMore
  <2>5. Held'
    BY <2>1, <2>2, <2>3, HeldKeeps DEF HeldBy, Placed, OneMore
  <2> QED
    BY <2>4, <2>5 DEF IInv
<1>23. ASSUME NEW g \in Goroutines, Adopt(g) PROVE IInv'
  <2>1. Placed(g, "idle", 0, 0)
    BY <1>23, Ended DEF Adopt
  <2>2. AsMany
    BY <1>0, <1>23, Changed DEF Adopt
  <2> QED
    BY <1>0, <1>23, <2>1, <2>2
    DEF Adopt, IInv, Shape, Held, HeldBy, StaysReachable, Placed, AsMany
<1>24. ASSUME NEW g \in Goroutines, PublishFinds(g) PROVE IInv'
  <2>1. Aside
    BY <1>24 DEF PublishFinds, IInv, Shape, Aside, Fields
  <2> QED
    BY <2>1, AsideKeeps
<1>25. ASSUME NEW g \in Goroutines, PublishFindsNone(g) PROVE IInv'
  BY <1>25, ToldAside, AsideKeeps DEF PublishFindsNone
<1>26. ASSUME NEW g \in Goroutines, PublishSends(g) PROVE IInv'
  BY <1>26, ToldAside, AsideKeeps DEF PublishSends
<1>27. ASSUME NEW g \in Goroutines, PublishPanics(g) PROVE IInv'
  BY <1>27, UntouchedAside, AsideKeeps DEF PublishPanics
<1>28. ASSUME Browse PROVE IInv'
  BY <1>28, BecomesAside, UntouchedAside, AsideKeeps
  DEF Browse, serveWebSocket, OnNudge, OnReplaced, viewTaskbar, TaskbarArrives
<1>29. ASSUME Disturb PROVE IInv'
  BY <1>29, BecomesAside, UntouchedAside, AsideKeeps
  DEF Disturb, ViewSession, SocketBreaks, TaskbarFails
<1>30. CASE UNCHANGED vars
  BY <1>30, UntouchedAside, AsideKeeps DEF vars, server
<1> QED
  <2>1. ASSUME NEW g \in Goroutines, Begin(g) PROVE IInv'
    BY <2>1, <1>2, <1>4, <1>7, <1>22, <1>23, <1>9, <1>17, <1>21, <1>12, <1>13 DEF Begin
  <2>2. ASSUME NEW g \in Goroutines, GoOn(g) PROVE IInv'
    BY <2>2, <1>3, <1>5, <1>8, <1>10, <1>11, <1>12, <1>13, <1>14, <1>15, <1>16, <1>18, <1>19,
       <1>20, <1>24, <1>25, <1>26
    DEF GoOn
  <2> QED
    BY <2>1, <2>2, <1>27, <1>28, <1>29, <1>30 DEF Next

-----------------------------------------------------------------------------
\* The invariant holds in every state.
THEOREM Invariant == Spec => []IInv
<1>1. Init => IInv
  BY InitInv
<1>2. IInv /\ [Next]_vars => IInv'
  BY NextInv
<1> QED
  BY <1>1, <1>2, PTL DEF Spec

\* A live conversation of the web can be prompted and stopped from there
\* (channel.go:281-307), however requests, restarts and exits interleave.
THEOREM SessionsStayReachable == Spec => []StaysReachable
<1>1. IInv => StaysReachable
  BY DEF IInv
<1> QED
  BY <1>1, Invariant, PTL

-----------------------------------------------------------------------------
(* What the page learns *)

Phases == {"created", "running", "closed", "replaced", "adopted"}
Msgs == [topic : Topics, conv : Nat, phase : Phases, new : Nat]
Bars == SUBSET (Nat \X Statuses)
Flights == [bar : Bars, late : BOOLEAN]

Unsaid(g) == ToSet(act[g].say)
Queued(t) == ToSet(page.queue[t])

\* What says that conversation c is over is right, or will be found to be excepted.
Over(c) == ~Open(c) \/ c \in noops \cup reopened

\* The end of a conversation is only told of one that is over, and stays so unless a turn sets
\* it running again; the feed only tells that it was replaced.
Truthful(m) ==
  /\ m.phase = "closed" =>
       /\ m.topic = "life" /\ m.conv \in DOMAIN rows /\ (~Open(m.conv) \/ m.conv \in reopened)
       /\ m.conv = 1 => 1 \in ours
  /\ m.topic = "feed" => m.phase = "replaced"

Messages ==
  /\ \A g \in Goroutines : act[g].say \in Seq(Msgs) /\ \A m \in Unsaid(g) : Truthful(m)
  /\ \A t \in Topics : \A m \in Queued(t) : Truthful(m) /\ m.topic = t

\* A goroutine that is to answer a Stop has ended the conversation, or found nothing to end; if
\* that was adopted meanwhile, a page that shows it and waits for the answer was not told.
Answering == {"unmapping", "unknown"}
Adopted(g, c) == c = 1 /\ 1 \in ours /\ (g \in page.asks /\ page.view = 1 => page.deaf)
Stopping ==
  \A g \in Goroutines :
    act[g].at \in Answering => Over(act[g].conv) \/ Adopted(g, act[g].conv)

PageTypes ==
  [view : Nat, pill : {"none", "live", "done"}, subs : SUBSET Topics,
   queue : [Topics -> Seq(Msgs)], timer : BOOLEAN, flights : Seq(Flights), bar : Bars,
   asks : SUBSET Goroutines, cut : BOOLEAN, missed : BOOLEAN, deaf : BOOLEAN,
   misled : BOOLEAN]

PageShape ==
  /\ page \in PageTypes
  /\ page.view = 0 => page.subs = {} /\ page.asks = {}
  /\ page.view # 0 => page.view \in DOMAIN rows /\ page.pill # "none"

\* Something will make the page fetch the taskbar.
Nudged ==
  \/ page.timer \/ page.queue["life"] # <<>>
  \/ \E g \in Goroutines : \E m \in Unsaid(g) : m.topic = "life"

\* The answer that the page will go by is that of this moment: the last it asked for, or the
\* one that is there if all others are late.
Fresh ==
  LET l == Len(page.flights) IN
  \/ l > 0 /\ ~page.flights[l].late /\ page.flights[l].bar = buildProjectTabs
  \/ page.bar = buildProjectTabs /\ \A i \in 1..l : page.flights[i].late

BarInv == page.view # 0 /\ ~page.missed => Nudged \/ Fresh

\* Something will tell the page that conversation c is over.
Ending(m, c) == m.conv = c /\ (m.phase = "closed" \/ m.topic = "feed")
Told(c) ==
  \/ \E g \in Goroutines : \E m \in Unsaid(g) : Ending(m, c)
  \/ \E m \in Queued("life") : Ending(m, c)
  \/ page.queue["feed"] # <<>>

PillInv ==
  page.view # 0 /\ ~page.deaf /\ ~page.misled =>
    /\ page.pill = "done" => Over(page.view)
    /\ page.pill = "live" => Open(page.view) \/ Told(page.view)

PageInv ==
  /\ PageShape /\ Messages /\ Stopping /\ BarInv /\ PillInv
  /\ \A c \in live : Open(c)

\* Nothing is open on the page before it is loaded.
LEMMA InitPage == Init => PageInv
<1> SUFFICES ASSUME Init PROVE PageInv
  OBVIOUS
<1>1. <<>> \in Seq(Msgs) /\ <<>> \in Seq(Flights) /\ Len(<<>>) = 0
  BY EmptySeq
<1>2. ToSet(<<>>) = {}
  BY DEF ToSet
<1>3. \A g \in Goroutines : act[g] = Rest
  BY DEF Init
<1>4. PageShape
  <2>1. {} \in Bars /\ {} \in SUBSET Topics
    BY DEF Bars
  <2> QED
    BY <1>1, <2>1 DEF Init, Blank, PageShape, PageTypes
<1>5. \A t \in Topics : page.queue[t] = <<>>
  BY DEF Init, Blank
<1>6. Messages /\ Stopping
  <2>1. \A g \in Goroutines : act[g].say = <<>> /\ act[g].at = "idle"
    BY <1>3 DEF Rest
  <2>2. \A g \in Goroutines : Unsaid(g) = {}
    BY <1>2, <2>1 DEF Unsaid
  <2>3. \A t \in Topics : Queued(t) = {}
    BY <1>2, <1>5 DEF Queued
  <2> QED
    BY <1>1, <2>1, <2>2, <2>3 DEF Messages, Stopping, Answering
<1>7. BarInv /\ PillInv /\ \A c \in live : Open(c)
  BY DEF Init, Blank, BarInv, PillInv
<1> QED
  BY <1>4, <1>6, <1>7 DEF PageInv

-----------------------------------------------------------------------------
(* Steps of the server *)

\* Goroutine g, which had nothing to say, has say now, and no other has more or less, nor moves.
Speaks(g, say) ==
  /\ act[g].say = <<>> /\ act'[g].say = say
  /\ \A h \in Goroutines :
       h # g => /\ act'[h].say = act[h].say /\ act'[h].at = act[h].at
                /\ act'[h].conv = act[h].conv

\* The page goes on as it is; what it waits for of g, and what it was not told, may change.
GoesOn(g) ==
  /\ page' \in PageTypes
  /\ page'.view = page.view /\ page'.pill = page.pill /\ page'.subs = page.subs
  /\ page'.queue = page.queue /\ page'.timer = page.timer /\ page'.flights = page.flights
  /\ page'.bar = page.bar /\ page'.misled = page.misled
  /\ page'.asks \subseteq page.asks \cup {g} /\ (page.view = 0 => page'.asks = page.asks)
  /\ page.missed => page'.missed
  /\ page.deaf => page'.deaf

\* What is history only grows.
Recalls == ours \subseteq ours' /\ noops \subseteq noops' /\ reopened \subseteq reopened'

\* A change of the rows is said or missed.
BarTold(say) == rows' = rows \/ page'.missed \/ \E m \in ToSet(say) : m.topic = "life"

\* No conversation opens again but one that a turn sets running, and the adopted one; who
\* shows that is told nothing.
Reopens ==
  \A c \in DOMAIN rows :
    /\ c \in DOMAIN rows'
    /\ Open(c)' /\ ~Open(c) =>
         \/ c \in reopened'
         \/ c = 1 /\ 1 \notin ours /\ 1 \in ours' /\ (page.view = 1 => page'.deaf)

\* The end of a conversation is told to whoever shows it.
EndTold(say) ==
  \A c \in DOMAIN rows :
    Open(c) /\ ~Open(c)' =>
      page.view # c \/ page'.deaf \/ \E m \in ToSet(say) : Ending(m, c)

\* If g is to answer a Stop now, it has ended the conversation, or found nothing to end.
Unmaps(g) == act'[g].at \in Answering => Over(act[g].conv)'

\* Such steps of the server keep the invariant of the page.
LEMMA ServerKeeps ==
  ASSUME IInv, PageInv, NEW g \in Goroutines, NEW say \in Seq(Msgs), Speaks(g, say), GoesOn(g),
         Recalls, \A m \in ToSet(say) : Truthful(m)',
         BarTold(say), Reopens, EndTold(say), Unmaps(g), \A c \in live' : Open(c)'
  PROVE  PageInv'
<1>0. ToSet(<<>>) = {}
  BY DEF ToSet
<1>1. \A h \in Goroutines : act'[h].say = act[h].say \/ (h = g /\ act[h].say = <<>>)
  BY DEF Speaks
<1>2. Unsaid(g)' = ToSet(say) /\ \A h \in Goroutines : Unsaid(h) \subseteq Unsaid(h)'
  BY <1>0, <1>1 DEF Speaks, Unsaid
<1>3. \A h \in Goroutines : \A m \in Unsaid(h)' : m \in ToSet(say) \/ m \in Unsaid(h)
  BY <1>1, <1>2 DEF Unsaid
<1>4. \A t \in Topics : Queued(t)' = Queued(t)
  BY DEF GoesOn, Queued
<1>5. PageShape'
  BY DEF GoesOn, PageInv, PageShape, Reopens
<1>6. ASSUME NEW m, Truthful(m) PROVE Truthful(m)'
  BY <1>6 DEF Truthful, Reopens, Recalls
<1>7. Messages'
  <2>1. \A h \in Goroutines : act'[h].say \in Seq(Msgs)
    BY <1>1 DEF Speaks, PageInv, Messages
  <2>2. \A h \in Goroutines : \A m \in Unsaid(h)' : Truthful(m)'
    BY <1>3, <1>6 DEF PageInv, Messages
  <2>3. \A t \in Topics : \A m \in Queued(t)' : Truthful(m)' /\ m.topic = t
    BY <1>4, <1>6 DEF PageInv, Messages
  <2> QED
    BY <2>1, <2>2, <2>3 DEF Messages
<1>8. ASSUME NEW c \in DOMAIN rows, Over(c)
      PROVE  Over(c)' \/ (c = 1 /\ 1 \in ours' /\ (page.view = 1 => page'.deaf))
  BY <1>8 DEF Over, Reopens, Recalls
<1>9. Stopping'
  <2>1. ASSUME NEW h \in Goroutines, act'[h].at \in Answering
        PROVE  Over(act[h].conv)' \/ Adopted(h, act[h].conv)'
    <3>1. CASE h = g
      BY <2>1, <3>1 DEF Unmaps
    <3>2. CASE h # g
      <4>1. PICK c : c = act[h].conv /\ c = act'[h].conv
        BY <3>2 DEF Speaks
      <4>2. act[h].at \in Answering
        BY <2>1, <3>2 DEF Speaks
      <4>3. c \in DOMAIN rows
        BY <4>1, <4>2 DEF Answering, IInv, Shape, Held, HeldBy
      <4>4. Over(c) \/ Adopted(h, c)
        BY <4>1, <4>2 DEF PageInv, Stopping
      <4>5. CASE Over(c)
        <5>1. Over(c)' \/ Adopted(h, c)'
          BY <1>8, <4>3, <4>5 DEF Adopted, GoesOn
        <5> QED
          BY <4>1, <5>1 DEF Over, Adopted, Open
      <4>6. CASE Adopted(h, c)
        <5>1. h \in page'.asks => h \in page.asks
          BY <3>2 DEF GoesOn
        <5>2. c = 1 /\ 1 \in ours' /\ (h \in page'.asks /\ page'.view = 1 => page'.deaf)
          BY <4>6, <5>1 DEF Adopted, GoesOn, Recalls
        <5> QED
          BY <4>1, <5>2 DEF Adopted
      <4> QED
        BY <4>4, <4>5, <4>6
    <3> QED
      BY <3>1, <3>2
  <2> QED
    BY <2>1 DEF Stopping
<1>10. BarInv'
  <2> SUFFICES ASSUME page.view # 0, ~page'.missed PROVE Nudged' \/ Fresh'
    BY DEF BarInv, GoesOn
  <2>1. ~page.missed
    BY DEF GoesOn
  <2>2. Nudged \/ Fresh
    BY <2>1 DEF PageInv, BarInv
  <2>3. CASE Nudged
    BY <1>2, <2>3 DEF Nudged, GoesOn
  <2>4. CASE \E m \in ToSet(say) : m.topic = "life"
    BY <1>2, <2>4 DEF Nudged
  <2>5. CASE Fresh /\ rows' = rows
    <3>1. buildProjectTabs' = buildProjectTabs
      BY <2>5 DEF buildProjectTabs, OpenRows, Open
    <3> QED
      BY <2>5, <3>1 DEF Fresh, GoesOn
  <2> QED
    BY <2>2, <2>3, <2>4, <2>5 DEF BarTold
<1>11. PillInv'
  <2>1. PICK v : v = page.view /\ v = page'.view
    BY DEF GoesOn
  <2> SUFFICES ASSUME v # 0, ~page'.deaf, ~page'.misled
               PROVE  /\ page'.pill = "done" => Over(v)'
                      /\ page'.pill = "live" => Open(v)' \/ Told(v)'
    <3>1. /\ Over(v)' <=> Over(page.view)'
          /\ Open(v)' <=> Open(page.view)'
          /\ Told(v)' <=> Told(page.view)'
      BY <2>1 DEF Over, Open, Told, Ending
    <3> QED
      BY <2>1, <3>1 DEF PillInv
  <2>2. ~page.deaf /\ ~page.misled /\ page'.pill = page.pill /\ v \in DOMAIN rows
    BY <2>1 DEF GoesOn, PageInv, PageShape
  <2>3. Told(v) => Told(v)'
    BY <1>2, <1>4 DEF Told, GoesOn, Topics
  <2>4. Open(v) /\ ~Open(v)' => Told(v)'
    <3> SUFFICES ASSUME Open(v), ~Open(v)' PROVE Told(v)'
      OBVIOUS
    <3>1. \E m \in Unsaid(g)' : Ending(m, v)
      BY <1>2, <2>1, <2>2 DEF EndTold
    <3> QED
      BY <3>1 DEF Told
  <2>5. Over(v) => Over(v)'
    BY <1>8, <2>1, <2>2
  <2>6. /\ page.pill = "done" => Over(v)
        /\ page.pill = "live" => Open(v) \/ Told(v)
    BY <2>1, <2>2 DEF PageInv, PillInv
  <2> QED
    BY <2>2, <2>3, <2>4, <2>5, <2>6
<1> QED
  BY <1>5, <1>7, <1>9, <1>10, <1>11 DEF PageInv

\* What Goes makes a goroutine say.
LEMMA Speech ==
  ASSUME IInv, NEW g \in Goroutines, NEW at, NEW c, NEW n, NEW say, act[g].say = <<>>,
         Goes(g, at, c, n, say)
  PROVE  /\ Speaks(g, say)
         /\ at \notin Answering => Unmaps(g)
         /\ Over(c)' => Unmaps(g)
<1>1. act'[g] = [Rest EXCEPT !.at = at, !.conv = c, !.next = n, !.say = say]
  BY DEF IInv, Shape, Goes
<1>2. act'[g].at = at /\ act'[g].conv = c /\ act'[g].say = say
  BY <1>1 DEF Rest
<1>3. \A h \in Goroutines : h # g => act'[h] = act[h]
  BY DEF IInv, Shape, Goes
<1>4. Speaks(g, say)
  BY <1>2, <1>3 DEF Speaks
<1>5. Over(c)' => Unmaps(g)
  BY <1>2 DEF Unmaps, Over, Open
<1> QED
  BY <1>2, <1>4, <1>5 DEF Unmaps

\* Who is about to begin or to go on has nothing left to say.
LEMMA Silent ==
  /\ \A g \in Goroutines : Free(g) => act[g].say = <<>>
  /\ \A g \in Goroutines : \A at : At(g, at) => act[g].say = <<>>
BY DEF Free, At, Rest

\* The messages of the model are such messages.
LEMMA Said1 ==
  /\ <<>> \in Seq(Msgs) /\ ToSet(<<>>) = {}
  /\ \A m \in Msgs : <<m>> \in Seq(Msgs) /\ ToSet(<<m>>) = {m}
  /\ \A m, n \in Msgs : <<m, n>> \in Seq(Msgs) /\ ToSet(<<m, n>>) = {m, n}
  /\ \A c \in Nat, p \in Phases : publishLifecycle(c, p) \in Msgs
  /\ \A c, d \in Nat : sessionReplaced(c, d) \in Msgs
<1>1. ToSet(<<>>) = {} /\ <<>> \in Seq(Msgs)
  BY DEF ToSet
<1>2. ASSUME NEW m \in Msgs PROVE <<m>> \in Seq(Msgs) /\ ToSet(<<m>>) = {m}
  <2>1. Len(<<m>>) = 1 /\ <<m>>[1] = m /\ DOMAIN <<m>> = {1}
    OBVIOUS
  <2> QED
    BY <2>1 DEF ToSet
<1>3. ASSUME NEW m \in Msgs, NEW n \in Msgs
      PROVE  <<m, n>> \in Seq(Msgs) /\ ToSet(<<m, n>>) = {m, n}
  <2>1. <<m, n>>[1] = m /\ <<m, n>>[2] = n /\ DOMAIN <<m, n>> = {1, 2}
    OBVIOUS
  <2> QED
    BY <2>1 DEF ToSet
<1>4. /\ \A c \in Nat, p \in Phases : publishLifecycle(c, p) \in Msgs
      /\ \A c, d \in Nat : sessionReplaced(c, d) \in Msgs
  BY DEF publishLifecycle, sessionReplaced, Msgs, Phases, Topics
<1> QED
  BY <1>1, <1>2, <1>3, <1>4

\* A page that stays as it is, or waits for one answer more, goes on.
LEMMA SamePage ==
  ASSUME PageInv, NEW g \in Goroutines,
         page' = page \/ (page.view # 0 /\ page' = [page EXCEPT !.asks = @ \cup {g}])
  PROVE  GoesOn(g)
<1>1. page \in PageTypes
  BY DEF PageInv, PageShape
<1>2. CASE page' = page
  BY <1>1, <1>2 DEF PageTypes, GoesOn
<1>3. CASE page.view # 0 /\ page' = [page EXCEPT !.asks = @ \cup {g}]
  BY <1>1, <1>3 DEF PageTypes, GoesOn
<1> QED
  BY <1>2, <1>3

\* The rows after one was added ...
LEMMA RowAdded ==
  ASSUME IInv, NEW status \in Statuses, rows' = Append(rows, status)
  PROVE  /\ New \in Nat /\ New # 1 /\ New \notin DOMAIN rows /\ New \in DOMAIN rows'
         /\ rows'[New] = status /\ DOMAIN rows \subseteq Nat
         /\ \A c \in DOMAIN rows : c \in DOMAIN rows' /\ rows'[c] = rows[c]
<1>1. Len(rows) \in Nat /\ Len(rows) > 0 /\ DOMAIN rows = 1..Len(rows)
  BY LenProperties DEF IInv, Shape
<1>2. /\ rows' \in Seq(Statuses) /\ Len(rows') = Len(rows) + 1
      /\ \A c \in 1..Len(rows) : rows'[c] = rows[c]
      /\ rows'[Len(rows) + 1] = status
  BY AppendProperties DEF IInv, Shape
<1>3. DOMAIN rows' = 1..Len(rows')
  BY <1>2, LenProperties
<1> QED
  BY <1>1, <1>2, <1>3 DEF New

\* ... or one changed.
LEMMA RowChanged ==
  ASSUME IInv, NEW c \in DOMAIN rows, NEW status \in Statuses,
         rows' = [rows EXCEPT ![c] = status]
  PROVE  /\ DOMAIN rows' = DOMAIN rows /\ rows'[c] = status /\ DOMAIN rows \subseteq Nat
         /\ \A d \in DOMAIN rows : d # c => rows'[d] = rows[d]
<1>1. Len(rows) \in Nat /\ DOMAIN rows = 1..Len(rows)
  BY LenProperties DEF IInv, Shape
<1> QED
  BY <1>1

\* A step that changes no row and says nothing.
LEMMA QuietKeeps ==
  ASSUME IInv, PageInv, NEW g \in Goroutines, NEW at, NEW c, NEW n, act[g].say = <<>>,
         Goes(g, at, c, n, <<>>), rows' = rows, live' = live, Recalls, GoesOn(g),
         at \in Answering => Over(c)'
  PROVE  PageInv'
<1>1. Speaks(g, <<>>) /\ Unmaps(g)
  BY Speech
<1>2. BarTold(<<>>) /\ Reopens /\ EndTold(<<>>) /\ \A d \in live' : Open(d)'
  BY DEF PageInv, BarTold, Reopens, EndTold, Open
<1> QED
  BY <1>1, <1>2, Said1, ServerKeeps

\* A step that adds a row, and says so.
LEMMA CreateKeeps ==
  ASSUME IInv, PageInv, NEW g \in Goroutines, NEW at, NEW c, NEW n, NEW say \in Seq(Msgs),
         act[g].say = <<>>, Goes(g, at, c, n, say), at \notin Answering,
         NEW status \in Statuses, rows' = Append(rows, status), Recalls, GoesOn(g),
         live' \subseteq live \cup {New}, status = "done" => live' \subseteq live,
         \E m \in ToSet(say) : TRUE,
         \A m \in ToSet(say) :
           m.topic = "life" /\ m.conv = New /\ (m.phase = "closed" => status = "done")
  PROVE  PageInv'
<1>1. Speaks(g, say) /\ Unmaps(g)
  BY Speech
<1>2. /\ New \in Nat /\ New # 1 /\ New \notin DOMAIN rows /\ New \in DOMAIN rows'
      /\ rows'[New] = status
      /\ \A d \in DOMAIN rows : d \in DOMAIN rows' /\ rows'[d] = rows[d]
  BY RowAdded
<1>3. BarTold(say)
  BY DEF BarTold
<1>4. Reopens /\ EndTold(say)
  BY <1>2 DEF Reopens, EndTold, Open
<1>5. \A m \in ToSet(say) : Truthful(m)'
  <2>1. PICK k : k = New
    OBVIOUS
  <2>2. ASSUME NEW m \in ToSet(say) PROVE Truthful(m)'
    <3>1. m.conv = k /\ m.topic = "life" /\ (m.phase = "closed" => status = "done")
      BY <2>1
    <3>2. k # 1 /\ k \in DOMAIN rows' /\ rows'[k] = status
      BY <1>2, <2>1
    <3> QED
      BY <3>1, <3>2 DEF Truthful, Open
  <2> QED
    BY <2>2
<1>6. \A d \in live' : Open(d)'
  <2>1. ASSUME NEW d \in live' PROVE rows'[d] \in {"pending", "running"}
    <3>1. CASE d \in live
      <4>1. d \in DOMAIN rows /\ Open(d)
        BY <3>1 DEF IInv, Shape, PageInv
      <4> QED
        BY <1>2, <4>1 DEF Open
    <3>2. CASE d = New /\ status # "done"
      BY <1>2, <3>2 DEF Statuses
    <3> QED
      BY <3>1, <3>2
  <2> QED
    BY <2>1 DEF Open
<1> QED
  BY <1>1, <1>3, <1>4, <1>5, <1>6, ServerKeeps

\* The end of a conversation, which is told.
LEMMA EndKeeps ==
  ASSUME IInv, PageInv, NEW g \in Goroutines, NEW at, NEW d, NEW n, NEW c \in live,
         act[g].say = <<>>, Goes(g, at, d, n, <<publishLifecycleClosed(c)>>),
         closeConversation(c), ours' = ours, noops' = noops, page' = page,
         at \in Answering => d = c
  PROVE  PageInv'
<1>1. /\ c \in DOMAIN rows /\ (c = 1 => 1 \in ours) /\ live' = live \ {c}
      /\ rows' = [rows EXCEPT ![c] = "done"] /\ Recalls
  BY DEF IInv, Shape, closeConversation, Recalls
<1>2. /\ DOMAIN rows' = DOMAIN rows /\ rows'[c] = "done" /\ c \in Nat
      /\ \A e \in DOMAIN rows : e # c => rows'[e] = rows[e]
  BY <1>1, RowChanged DEF Statuses
<1>3. PICK m : m = publishLifecycleClosed(c)
  OBVIOUS
<1>4. /\ m \in Msgs /\ <<m>> \in Seq(Msgs) /\ ToSet(<<m>>) = {m}
      /\ m.topic = "life" /\ m.conv = c /\ m.phase = "closed"
  BY <1>2, <1>3, Said1 DEF publishLifecycleClosed, publishLifecycle, Phases
<1>5. Speaks(g, <<m>>) /\ Unmaps(g)
  <2>1. Over(c)'
    BY <1>2 DEF Over, Open
  <2>2. at \in Answering => Over(d)'
    BY <2>1 DEF Over, Open
  <2> QED
    BY <1>3, <2>2, Speech
<1>6. BarTold(<<m>>)
  BY <1>4 DEF BarTold
<1>7. Reopens
  BY <1>2 DEF Reopens, Open
<1>8. EndTold(<<m>>)
  BY <1>2, <1>4 DEF EndTold, Ending, Open
<1>9. \A x \in ToSet(<<m>>) : Truthful(x)'
  BY <1>1, <1>2, <1>4 DEF Truthful, Open
<1>10. \A x \in live' : Open(x)'
  BY <1>1, <1>2 DEF IInv, Shape, PageInv, Open
<1> QED
  BY <1>1, <1>4, <1>5, <1>6, <1>7, <1>8, <1>9, <1>10, SamePage, ServerKeeps

\* The steps of a server that add a conversation.
LEMMA ServerSteps ==
  ASSUME IInv, PageInv, NEW g \in Goroutines, act[g].say = <<>>, GoesOn(g)
  PROVE  /\ \A c : Restart(g, c) => PageInv'
         /\ StartSessionWeb(g) => PageInv'
         /\ StartFailedSessionWeb(g) => PageInv'
         /\ OtherCreates(g) => PageInv'
<1> USE DEF Creates, Recalls, agents
<1>0. New \in Nat
  BY LenProperties DEF IInv, Shape, New
<1>1. PICK m : m = publishLifecycle(New, "created")
  OBVIOUS
<1>2. PICK e : e = publishLifecycleClosed(New)
  OBVIOUS
<1>3. /\ m \in Msgs /\ m.topic = "life" /\ m.conv = New /\ m.phase = "created"
      /\ e \in Msgs /\ e.topic = "life" /\ e.conv = New
  BY <1>0, <1>1, <1>2, Said1 DEF publishLifecycleClosed, publishLifecycle, Phases
<1>4. /\ <<m>> \in Seq(Msgs) /\ ToSet(<<m>>) = {m}
      /\ <<m, e>> \in Seq(Msgs) /\ ToSet(<<m, e>>) = {m, e}
  BY <1>3, Said1
<1>5. "restarting" \notin Answering /\ "mapping" \notin Answering /\ "stillborn" \notin Answering
      /\ "idle" \notin Answering
  BY DEF Answering
<1>6. ASSUME NEW c, Restart(g, c) PROVE PageInv'
  <2>1. /\ rows' = Append(rows, "pending") /\ live' \subseteq live \cup {New}
        /\ Goes(g, "restarting", c, New, <<m>>) /\ Recalls
    BY <1>1, <1>6 DEF Restart
  <2> QED
    BY <1>3, <1>4, <1>5, <2>1, CreateKeeps DEF Statuses
<1>7. ASSUME StartSessionWeb(g) PROVE PageInv'
  <2>1. /\ rows' = Append(rows, "pending") /\ live' = live \cup {New}
        /\ Goes(g, "mapping", New, 0, <<m>>) /\ Recalls
    BY <1>1, <1>7 DEF StartSessionWeb
  <2> QED
    BY <1>3, <1>4, <1>5, <2>1, CreateKeeps DEF Statuses
<1>8. ASSUME StartFailedSessionWeb(g) PROVE PageInv'
  <2>1. /\ rows' = Append(rows, "done") /\ live' = live
        /\ Goes(g, "stillborn", New, 0, <<m, e>>) /\ Recalls
    BY <1>1, <1>2, <1>8 DEF StartFailedSessionWeb
  <2> QED
    BY <1>3, <1>4, <1>5, <2>1, CreateKeeps DEF Statuses
<1>9. ASSUME OtherCreates(g) PROVE PageInv'
  <2>1. /\ rows' = Append(rows, "pending") /\ live' = live \cup {New}
        /\ Goes(g, "idle", 0, 0, <<m>>) /\ Recalls
    BY <1>1, <1>9 DEF OtherCreates, Ends
  <2> QED
    BY <1>3, <1>4, <1>5, <2>1, CreateKeeps DEF Statuses
<1> QED
  BY <1>6, <1>7, <1>8, <1>9

\* What a turn does to the rows: a conversation that opens again is recalled as reopened.
LEMMA RunsFacts ==
  ASSUME IInv, PageInv, NEW c \in DOMAIN rows, Runs(c), live' = live, ours' = ours,
         noops' = noops
  PROVE  /\ Reopens /\ Recalls /\ (\A d \in live' : Open(d)') /\ \A say : EndTold(say)
         /\ rows[c] = "running" => rows' = rows
<1>1. /\ DOMAIN rows' = DOMAIN rows /\ rows'[c] = "running"
      /\ \A d \in DOMAIN rows : d # c => rows'[d] = rows[d]
  BY RowChanged DEF Runs, Statuses
<1>2. reopened \subseteq reopened' /\ (~Open(c) => c \in reopened')
  BY DEF Runs
<1>3. Reopens /\ Recalls
  BY <1>1, <1>2 DEF Reopens, Recalls, Open
<1>4. (\A d \in live' : Open(d)') /\ \A say : EndTold(say)
  BY <1>1 DEF IInv, Shape, PageInv, EndTold, Open
<1>5. ASSUME rows[c] = "running" PROVE rows' = rows
  <2>1. rows = [d \in DOMAIN rows |-> rows[d]]
    BY DEF IInv, Shape
  <2> QED
    BY <1>5, <2>1 DEF Runs
<1> QED
  BY <1>3, <1>4, <1>5

\* A prompt makes a conversation run, though it may be over, and says so.
LEMMA PromptKeeps ==
  ASSUME IInv, PageInv, NEW g \in Goroutines, PromptRuns(g)
  PROVE  PageInv'
<1>1. PICK c : c = act[g].conv
  OBVIOUS
<1>2. act[g].say = <<>> /\ c \in DOMAIN rows /\ c \in Nat
  BY <1>1, Silent, LenProperties DEF PromptRuns, At, IInv, Shape, Held, HeldBy
<1>3. /\ Runs(c) /\ Goes(g, "idle", 0, 0, <<publishLifecycle(c, "running")>>)
      /\ UNCHANGED <<live, ours, noops, page>>
  BY <1>1 DEF PromptRuns, Ends, agents
<1>4. /\ Reopens /\ Recalls /\ (\A d \in live' : Open(d)') /\ \A say : EndTold(say)
  BY <1>2, <1>3, RunsFacts
<1>5. PICK m : m = publishLifecycle(c, "running")
  OBVIOUS
<1>6. /\ m \in Msgs /\ <<m>> \in Seq(Msgs) /\ ToSet(<<m>>) = {m}
      /\ m.topic = "life" /\ m.phase = "running"
  BY <1>2, <1>5, Said1 DEF publishLifecycle, Phases
<1>7. Speaks(g, <<m>>) /\ Unmaps(g)
  BY <1>2, <1>3, <1>5, Speech DEF Answering
<1>8. BarTold(<<m>>) /\ \A x \in ToSet(<<m>>) : Truthful(x)'
  BY <1>6 DEF BarTold, Truthful
<1> QED
  BY <1>3, <1>4, <1>6, <1>7, <1>8, SamePage, ServerKeeps

\* The end of a turn tells no taskbar that a row runs.
LEMMA TurnKeeps ==
  ASSUME IInv, PageInv, NEW g \in Goroutines, NEW c \in DOMAIN rows, NEW followUp \in BOOLEAN,
         TurnEnds(g, c, followUp)
  PROVE  PageInv'
<1>1. PICK now : now = current[c]
  OBVIOUS
<1>2. act[g].say = <<>> /\ now \in DOMAIN rows
  BY <1>1, Silent DEF TurnEnds, IInv, Shape
<1>3. /\ Runs(now) /\ UNCHANGED <<live, ours, noops>>
      /\ page' = [page EXCEPT !.missed = @ \/ rows[now] # "running"]
      /\ IF followUp THEN Goes(g, "prompting", now, 0, <<>>) ELSE act' = act
  BY <1>1 DEF TurnEnds, agents
<1>4. /\ Reopens /\ Recalls /\ (\A d \in live' : Open(d)') /\ EndTold(<<>>)
      /\ rows[now] = "running" => rows' = rows
  BY <1>2, <1>3, RunsFacts
<1>5. GoesOn(g) /\ (rows[now] # "running" => page'.missed)
  <2>1. page \in PageTypes
    BY DEF PageInv, PageShape
  <2>2. PICK b \in BOOLEAN : b = (page.missed \/ rows[now] # "running")
    BY <2>1 DEF PageTypes
  <2>3. page' = [page EXCEPT !.missed = b]
    BY <1>3, <2>2
  <2> QED
    BY <2>1, <2>2, <2>3 DEF PageTypes, GoesOn
<1>6. Speaks(g, <<>>) /\ Unmaps(g)
  <2>1. CASE followUp
    BY <1>2, <1>3, <2>1, Speech DEF Answering
  <2>2. CASE ~followUp
    <3>1. act'[g].at \notin Answering
      BY <1>3, <2>2 DEF TurnEnds, Free, Rest, Answering
    <3> QED
      BY <1>2, <1>3, <2>2, <3>1 DEF Speaks, Unmaps
  <2> QED
    BY <2>1, <2>2
<1>7. BarTold(<<>>)
  BY <1>4, <1>5 DEF BarTold
<1> QED
  BY <1>4, <1>5, <1>6, <1>7, Said1, ServerKeeps

\* A restart ends the old conversation, for its page and the taskbars, unless the web does
\* not map it.
LEMMA ReplacedKeeps ==
  ASSUME IInv, PageInv, NEW g \in Goroutines, handleReplaced(g)
  PROVE  PageInv'
<1>1. PICK old, new : old = act[g].conv /\ new = current[act[g].next]
  OBVIOUS
<1>2. act[g].say = <<>>
  BY Silent DEF handleReplaced
<1>3. /\ old \in DOMAIN rows \ live /\ new \in DOMAIN rows /\ DOMAIN rows \subseteq Nat
  BY <1>1, LenProperties DEF handleReplaced, At, IInv, Shape, Held, HeldBy
<1>4. rows' = [rows EXCEPT ![old] = "done"] /\ UNCHANGED <<live, noops, reopened>>
  BY <1>1 DEF handleReplaced, agents
<1>5. /\ DOMAIN rows' = DOMAIN rows /\ rows'[old] = "done"
      /\ \A d \in DOMAIN rows : d # old => rows'[d] = rows[d]
  BY <1>3, <1>4, RowChanged DEF Statuses
<1>6. Reopens /\ \A d \in live' : Open(d)'
  <2>1. \A d \in live' : d \in DOMAIN rows /\ d # old /\ Open(d)
    BY <1>3, <1>4 DEF IInv, Shape, PageInv
  <2> QED
    BY <1>5, <2>1 DEF Reopens, Open
<1>7. CASE old \in byID
  <2>1. /\ ours' = ours \cup {new} /\ UNCHANGED page
        /\ Goes(g, "idle", 0, 0, <<sessionReplaced(old, new), publishLifecycle(new, "replaced")>>)
    BY <1>1, <1>7 DEF handleReplaced, Ends
  <2>2. PICK m, n : m = sessionReplaced(old, new) /\ n = publishLifecycle(new, "replaced")
    OBVIOUS
  <2>3. /\ m \in Msgs /\ n \in Msgs /\ <<m, n>> \in Seq(Msgs) /\ ToSet(<<m, n>>) = {m, n}
        /\ m.topic = "feed" /\ m.conv = old /\ m.phase = "replaced"
        /\ n.topic = "life" /\ n.phase = "replaced"
    BY <1>3, <2>2, Said1 DEF sessionReplaced, publishLifecycle, Phases
  <2>4. Speaks(g, <<m, n>>) /\ Unmaps(g)
    BY <1>2, <2>1, <2>2, Speech DEF Answering
  <2>5. BarTold(<<m, n>>) /\ Recalls
    BY <1>4, <2>1, <2>3 DEF BarTold, Recalls
  <2>6. EndTold(<<m, n>>)
    BY <1>5, <2>3 DEF EndTold, Ending, Open
  <2>7. \A x \in ToSet(<<m, n>>) : Truthful(x)'
    BY <2>3 DEF Truthful
  <2> QED
    BY <1>6, <2>1, <2>3, <2>4, <2>5, <2>6, <2>7, SamePage, ServerKeeps
<1>8. CASE old \notin byID
  <2>1. /\ ours \subseteq ours' /\ Goes(g, "idle", 0, 0, <<>>)
        /\ page' = [page EXCEPT !.missed = TRUE, !.deaf = @ \/ page.view = old]
    BY <1>1, <1>8 DEF handleReplaced, Orphaned, Ends
  <2>2. /\ GoesOn(g) /\ page'.missed
        /\ (page.view = old => page'.deaf)
    <3>1. page \in PageTypes
      BY DEF PageInv, PageShape
    <3>2. PICK b \in BOOLEAN : b = (page.deaf \/ page.view = old)
      BY <3>1 DEF PageTypes
    <3>3. page' = [page EXCEPT !.missed = TRUE, !.deaf = b]
      BY <2>1, <3>2
    <3> QED
      BY <3>1, <3>2, <3>3 DEF PageTypes, GoesOn
  <2>3. Speaks(g, <<>>) /\ Unmaps(g)
    BY <1>2, <2>1, Speech DEF Answering
  <2>4. BarTold(<<>>) /\ EndTold(<<>>) /\ Recalls
    BY <1>4, <1>5, <2>1, <2>2 DEF BarTold, EndTold, Open, Recalls
  <2> QED
    BY <1>6, <2>2, <2>3, <2>4, Said1, ServerKeeps
<1> QED
  BY <1>7, <1>8

\* A Stop is asked for.
LEMMA CloseSessionKeeps ==
  ASSUME IInv, PageInv, NEW g \in Goroutines, NEW c \in DOMAIN rows, CloseSession(g, c)
  PROVE  PageInv'
<1>1. act[g].say = <<>>
  BY Silent DEF CloseSession
<1>2. GoesOn(g)
  <2>1. c # 0
    BY LenProperties DEF IInv, Shape
  <2> QED
    BY <2>1, SamePage DEF CloseSession
<1>3. PICK at : at = IF c \in byID THEN "closing" ELSE "unknown"
  OBVIOUS
<1>4. /\ Goes(g, at, c, 0, <<>>) /\ rows' = rows /\ live' = live /\ Recalls
      /\ at \in Answering => c \notin byID
      /\ noops' = IF c \notin byID /\ Open(c) THEN noops \cup {c} ELSE noops
  BY <1>3 DEF CloseSession, Recalls, agents, Answering
<1>5. at \in Answering => Over(c)'
  BY <1>4 DEF Over, Open
<1> QED
  BY <1>1, <1>2, <1>4, <1>5, QuietKeeps

\* Router.TryCloseConversation ends a conversation, or finds that there is none.
LEMMA CloseGoesKeeps ==
  ASSUME IInv, PageInv, NEW g \in Goroutines, CloseGoes(g)
  PROVE  PageInv'
<1>1. PICK c : c = act[g].conv
  OBVIOUS
<1>2. act[g].say = <<>>
  BY Silent DEF CloseGoes
<1>3. CASE c \in live
  <2>1. /\ closeConversation(c) /\ UNCHANGED <<ours, noops, page>>
        /\ Goes(g, "unmapping", c, 0, <<publishLifecycleClosed(c)>>)
    BY <1>1, <1>3 DEF CloseGoes
  <2> QED
    BY <1>2, <1>3, <2>1, EndKeeps
<1>4. CASE c \notin live
  <2>1. /\ Goes(g, "unmapping", c, 0, <<>>) /\ UNCHANGED <<rows, live, ours, page, reopened>>
        /\ noops' = IF Open(c) THEN noops \cup {c} ELSE noops
    BY <1>1, <1>4 DEF CloseGoes, agents
  <2>2. Recalls /\ Over(c)'
    BY <2>1 DEF Recalls, Over, Open
  <2> QED
    BY <1>2, <2>1, <2>2, SamePage, QuietKeeps
<1> QED
  BY <1>3, <1>4

\* An adopted conversation is open again, which its page is not told.
LEMMA AdoptKeeps ==
  ASSUME IInv, PageInv, NEW g \in Goroutines, Adopt(g)
  PROVE  PageInv'
<1>1. act[g].say = <<>>
  BY Silent DEF Adopt
<1>2. /\ rows' = [rows EXCEPT ![1] = "pending"] /\ live' = live \cup {1} /\ 1 \notin ours
      /\ ours' = ours \cup {1} /\ UNCHANGED <<noops, reopened>>
      /\ page' = [page EXCEPT !.deaf = @ \/ page.view = 1]
      /\ Goes(g, "idle", 0, 0, <<publishLifecycle(1, "adopted")>>)
  BY DEF Adopt, Ends
<1>3. 1 \in DOMAIN rows
  BY LenProperties DEF IInv, Shape
<1>4. /\ DOMAIN rows' = DOMAIN rows /\ rows'[1] = "pending"
      /\ \A d \in DOMAIN rows : d # 1 => rows'[d] = rows[d]
  BY <1>2, <1>3, RowChanged DEF Statuses
<1>5. PICK m : m = publishLifecycle(1, "adopted")
  OBVIOUS
<1>6. /\ m \in Msgs /\ <<m>> \in Seq(Msgs) /\ ToSet(<<m>>) = {m}
      /\ m.topic = "life" /\ m.phase = "adopted"
  BY <1>5, Said1 DEF publishLifecycle, Phases
<1>7. /\ GoesOn(g) /\ (page.view = 1 => page'.deaf)
  <2>1. page \in PageTypes
    BY DEF PageInv, PageShape
  <2>2. PICK b \in BOOLEAN : b = (page.deaf \/ page.view = 1)
    BY <2>1 DEF PageTypes
  <2>3. page' = [page EXCEPT !.deaf = b]
    BY <1>2, <2>2
  <2> QED
    BY <2>1, <2>2, <2>3 DEF PageTypes, GoesOn
<1>8. Speaks(g, <<m>>) /\ Unmaps(g)
  BY <1>1, <1>2, <1>5, Speech DEF Answering
<1>9. BarTold(<<m>>) /\ Reopens /\ EndTold(<<m>>) /\ Recalls
  BY <1>2, <1>4, <1>6, <1>7 DEF BarTold, Reopens, EndTold, Open, Recalls
<1>10. \A x \in ToSet(<<m>>) : Truthful(x)'
  BY <1>6 DEF Truthful
<1>11. \A d \in live' : Open(d)'
  BY <1>2, <1>4 DEF IInv, Shape, PageInv, Open
<1> QED
  BY <1>6, <1>7, <1>8, <1>9, <1>10, <1>11, ServerKeeps

-----------------------------------------------------------------------------
(* Steps of the hub and of the page *)

\* A step that changes no row, and leaves every goroutine where it is or sets it free.
Steady ==
  /\ rows' = rows /\ live' = live /\ noops' = noops /\ reopened' = reopened
  /\ ours \subseteq ours'
  /\ \A h \in Goroutines :
       \/ act'[h].at = "idle"
       \/ act'[h].at = act[h].at /\ act'[h].conv = act[h].conv

\* Such a step leaves what is open and what is true as they are.
LEMMA SteadyFacts ==
  ASSUME PageInv, Steady
  PROVE  /\ \A c \in live' : Open(c)'
         /\ \A c : (Open(c)' <=> Open(c)) /\ (Over(c)' <=> Over(c))
         /\ \A m : Truthful(m) => Truthful(m)'
         /\ buildProjectTabs' = buildProjectTabs /\ rows' = rows
<1>1. \A c : (Open(c)' <=> Open(c)) /\ (Over(c)' <=> Over(c))
  BY DEF Steady, Open, Over
<1>2. \A m : Truthful(m) => Truthful(m)'
  BY <1>1 DEF Truthful, Steady
<1>3. buildProjectTabs' = buildProjectTabs
  BY DEF Steady, buildProjectTabs, OpenRows, Open
<1>4. \A c \in live' : Open(c)'
  BY DEF Steady, PageInv, Open
<1> QED
  BY <1>1, <1>2, <1>3, <1>4 DEF Steady

\* ... and who is to answer a Stop, unless the page comes to show the adopted conversation.
LEMMA SteadyStops ==
  ASSUME PageInv, Steady,
         page'.view = 1 /\ page'.asks # {} =>
           page.view = 1 /\ page'.asks \subseteq page.asks /\ (page.deaf => page'.deaf)
  PROVE  Stopping'
<1>1. ASSUME NEW h \in Goroutines, act'[h].at \in Answering
      PROVE  Over(act[h].conv)' \/ Adopted(h, act[h].conv)'
  <2>1. act[h].at \in Answering /\ act'[h].conv = act[h].conv
    BY <1>1 DEF Steady, Answering
  <2>2. Over(act[h].conv) \/ Adopted(h, act[h].conv)
    BY <2>1 DEF PageInv, Stopping
  <2>3. CASE Over(act[h].conv)
    BY <2>1, <2>3 DEF Over, Open, Steady
  <2>4. CASE Adopted(h, act[h].conv)
    BY <2>1, <2>4 DEF Adopted, Steady
  <2> QED
    BY <2>2, <2>3, <2>4
<1> QED
  BY <1>1 DEF Stopping

\* Steps of the hub and of the page are such steps.
LEMMA AsideSteady == Aside => Steady
BY DEF Aside, server, agents, Steady

\* What they leave as it is.
LEMMA AsideFacts ==
  ASSUME PageInv, Aside
  PROVE  /\ \A c \in live' : Open(c)'
         /\ \A c : (Open(c)' <=> Open(c)) /\ (Over(c)' <=> Over(c))
         /\ \A m : Truthful(m) => Truthful(m)'
         /\ buildProjectTabs' = buildProjectTabs /\ rows' = rows
         /\ page'.view = page.view /\ page'.asks = page.asks /\ (page.deaf => page'.deaf) =>
              Stopping'
<1>1. Steady
  BY AsideSteady
<1> QED
  BY <1>1, SteadyFacts, SteadyStops

\* The tabs are of the shape the page keeps.
LEMMA TabsShape == IInv => buildProjectTabs \in Bars
<1> SUFFICES ASSUME IInv PROVE buildProjectTabs \in Bars
  OBVIOUS
<1>1. \A c \in DOMAIN rows : c \in Nat /\ rows[c] \in Statuses
  BY LenProperties DEF IInv, Shape
<1>2. \A c \in OpenRows : <<c, rows[c]>> \in Nat \X Statuses
  BY <1>1 DEF OpenRows
<1> QED
  BY <1>2 DEF buildProjectTabs, Bars

\* No goroutine has said anything more.
LEMMA SameSay ==
  ASSUME \A h \in Goroutines : act'[h].say = act[h].say
  PROVE  \A h \in Goroutines : Unsaid(h)' = Unsaid(h)
BY DEF Unsaid

\* The page goes on, or is told the answer to a Stop.
LEMMA CalmKeeps ==
  ASSUME IInv, PageInv, Steady, \A h \in Goroutines : act'[h].say = act[h].say,
         page' \in PageTypes,
         page'.view = page.view, page'.subs = page.subs, page'.queue = page.queue,
         page'.timer = page.timer, page'.flights = page.flights, page'.bar = page.bar,
         page'.missed = page.missed, page'.deaf = page.deaf,
         page'.asks \subseteq page.asks, page.misled => page'.misled,
         \/ page'.pill = page.pill
         \/ page'.pill = "done" /\ (page.deaf \/ page'.misled \/ Over(page.view))
  PROVE  PageInv'
<1>1. \A h \in Goroutines : Unsaid(h)' = Unsaid(h)
  BY SameSay
<1>2. \A t : Queued(t)' = Queued(t)
  BY DEF Queued
<1>3. PageShape'
  BY DEF PageInv, PageShape, PageTypes, Steady
<1>4. Messages'
  BY <1>1, <1>2, SteadyFacts DEF PageInv, Messages
<1>5. BarInv'
  BY <1>1, SteadyFacts DEF PageInv, BarInv, Nudged, Fresh
<1>6. PillInv'
  <2>1. PICK v : v = page.view /\ v = page'.view
    OBVIOUS
  <2>2. /\ Over(v)' <=> Over(page.view)'
        /\ Open(v)' <=> Open(page.view)'
        /\ Told(v)' <=> Told(page.view)'
    BY <2>1 DEF Over, Open, Told, Ending
  <2>3. Told(v)' <=> Told(v)
    BY <1>1, <1>2 DEF Told
  <2> QED
    BY <2>1, <2>2, <2>3, SteadyFacts DEF PageInv, PillInv
<1> QED
  BY <1>3, <1>4, <1>5, <1>6, SteadyFacts, SteadyStops DEF PageInv

\* Nothing happens to the page.
LEMMA IdleKeeps ==
  ASSUME IInv, PageInv, Steady, page' = page, \A h \in Goroutines : act'[h].say = act[h].say
  PROVE  PageInv'
  BY CalmKeeps DEF PageInv, PageShape, PageTypes

\* Taking the first message.
LEMMA TailFacts ==
  ASSUME NEW s \in Seq(Msgs), s # <<>>
  PROVE  /\ Head(s) \in Msgs /\ Head(s) \in ToSet(s) /\ Tail(s) \in Seq(Msgs)
         /\ ToSet(Tail(s)) \subseteq ToSet(s)
         /\ \A m \in ToSet(s) : m = Head(s) \/ m \in ToSet(Tail(s))
<1>1. /\ Tail(s) \in Seq(Msgs) /\ Len(s) \in Nat /\ Len(s) # 0 /\ Len(Tail(s)) = Len(s) - 1
      /\ \A i \in 1..(Len(s) - 1) : Tail(s)[i] = s[i + 1]
      /\ DOMAIN s = 1..Len(s) /\ DOMAIN Tail(s) = 1..(Len(s) - 1)
      /\ Head(s) = s[1] /\ Head(s) \in Msgs
  BY HeadTailProperties, EmptySeq, LenProperties
<1>2. ToSet(Tail(s)) \subseteq ToSet(s)
  <2>1. ASSUME NEW i \in 1..(Len(s) - 1) PROVE Tail(s)[i] \in ToSet(s)
    <3>1. i + 1 \in DOMAIN s /\ Tail(s)[i] = s[i + 1]
      BY <1>1
    <3> QED
      BY <3>1 DEF ToSet
  <2> QED
    BY <1>1, <2>1 DEF ToSet
<1>3. Head(s) \in ToSet(s)
  BY <1>1 DEF ToSet
<1>4. ASSUME NEW i \in 1..Len(s) PROVE s[i] = Head(s) \/ s[i] \in ToSet(Tail(s))
  <2>1. CASE i = 1
    BY <1>1, <2>1
  <2>2. CASE i # 1
    <3>1. i - 1 \in DOMAIN Tail(s) /\ Tail(s)[i - 1] = s[i]
      BY <1>1, <2>2
    <3> QED
      BY <3>1 DEF ToSet
  <2> QED
    BY <2>1, <2>2
<1> QED
  BY <1>1, <1>2, <1>3, <1>4 DEF ToSet

\* What is left to say once the first message is said.
LEMMA SaidFacts ==
  ASSUME IInv, PageInv, NEW g \in Goroutines, act[g].say # <<>>, Said(g)
  PROVE  /\ Message(g) \in Unsaid(g) /\ Message(g) \in Msgs
         /\ \A h \in Goroutines : /\ act'[h].say \in Seq(Msgs) /\ Unsaid(h)' \subseteq Unsaid(h)
                                  /\ h # g => Unsaid(h)' = Unsaid(h)
         /\ \A m \in Unsaid(g) : m = Message(g) \/ m \in Unsaid(g)'
<1>1. /\ act'[g].say = Tail(act[g].say)
      /\ \A h \in Goroutines : h # g => act'[h] = act[h]
  <2>1. act'[g] = [act[g] EXCEPT !.say = Tail(@), !.to = "none"]
    BY DEF IInv, Shape, Said
  <2> QED
    BY <2>1 DEF IInv, Shape, Said, Fields
<1>2. PICK s \in Seq(Msgs) : s = act[g].say /\ s # <<>>
  BY DEF PageInv, Messages
<1>3. /\ Head(s) \in Msgs /\ Head(s) \in ToSet(s) /\ Tail(s) \in Seq(Msgs)
      /\ ToSet(Tail(s)) \subseteq ToSet(s)
      /\ \A m \in ToSet(s) : m = Head(s) \/ m \in ToSet(Tail(s))
  BY <1>2, TailFacts
<1>4. Unsaid(g) = ToSet(s) /\ Unsaid(g)' = ToSet(Tail(s)) /\ Message(g) = Head(s)
  BY <1>1, <1>2 DEF Unsaid, Message
<1>5. \A h \in Goroutines : h # g => Unsaid(h)' = Unsaid(h)
  BY <1>1 DEF Unsaid
<1>6. \A h \in Goroutines : act'[h].say \in Seq(Msgs)
  BY <1>1, <1>2, <1>3 DEF PageInv, Messages
<1> QED
  BY <1>3, <1>4, <1>5, <1>6

\* What is so of the conversation shown.
LEMMA ViewFacts ==
  ASSUME NEW v, v = page'.view
  PROVE  /\ Over(v)' <=> Over(page.view)'
         /\ Open(v)' <=> Open(page.view)'
         /\ Told(v)' <=> Told(page.view)'
BY DEF Over, Open, Told, Ending

\* A message that is for nobody, or dropped.
LEMMA UnheardKeeps ==
  ASSUME IInv, PageInv, NEW g \in Goroutines, act[g].say # <<>>, Said(g), UNCHANGED server,
         NEW alsoBar \in BOOLEAN, Unheard(Message(g), alsoBar),
         ~alsoBar /\ Message(g).topic = "life" => page.queue["life"] # <<>>
  PROVE  PageInv'
<1>1. PICK m : m = Message(g)
  OBVIOUS
<1>2. /\ m \in Unsaid(g) /\ m \in Msgs /\ Truthful(m)
      /\ \A h \in Goroutines : /\ act'[h].say \in Seq(Msgs) /\ Unsaid(h)' \subseteq Unsaid(h)
                               /\ h # g => Unsaid(h)' = Unsaid(h)
      /\ \A n \in Unsaid(g) : n = m \/ n \in Unsaid(g)'
  BY <1>1, SaidFacts DEF PageInv, Messages
<1>3. Aside
  BY ToldAside
<1>4. page' = [page EXCEPT !.missed = @ \/ (alsoBar /\ m.topic = "life"),
                           !.deaf = @ \/ (m.conv = page.view
                                          /\ m.phase \in {"closed", "replaced"})]
  BY <1>1 DEF Unheard
<1>5. /\ page'.view = page.view /\ page'.pill = page.pill /\ page'.queue = page.queue
      /\ page'.timer = page.timer /\ page'.flights = page.flights /\ page'.bar = page.bar
      /\ page'.subs = page.subs /\ page'.asks = page.asks /\ page'.misled = page.misled
      /\ page'.missed = (page.missed \/ (alsoBar /\ m.topic = "life"))
      /\ page'.deaf = (page.deaf \/ (m.conv = page.view /\ m.phase \in {"closed", "replaced"}))
      /\ page' \in PageTypes
  <2>1. page \in PageTypes
    BY DEF PageInv, PageShape
  <2>2. PICK a, b : /\ a = (page.missed \/ (alsoBar /\ m.topic = "life"))
                    /\ b = (page.deaf \/ (m.conv = page.view /\ m.phase \in {"closed", "replaced"}))
    OBVIOUS
  <2>3. a \in BOOLEAN /\ b \in BOOLEAN
    BY <2>1, <2>2 DEF PageTypes
  <2>4. page' = [page EXCEPT !.missed = a, !.deaf = b]
    BY <1>4, <2>2
  <2> QED
    BY <2>1, <2>2, <2>3, <2>4 DEF PageTypes
<1>6. PageShape'
  BY <1>5, AsideFacts, <1>3 DEF PageInv, PageShape
<1>7. \A t \in Topics : Queued(t)' = Queued(t)
  BY <1>5 DEF Queued
<1>8. Messages'
  BY <1>2, <1>3, <1>7, AsideFacts DEF PageInv, Messages
<1>9. BarInv'
  <2> SUFFICES ASSUME page.view # 0, ~page'.missed PROVE Nudged' \/ Fresh'
    BY <1>5 DEF BarInv
  <2>1. ~page.missed /\ ~(alsoBar /\ m.topic = "life")
    BY <1>5 DEF PageInv, PageShape, PageTypes
  <2>2. Nudged \/ Fresh
    BY <2>1 DEF PageInv, BarInv
  <2>3. CASE Nudged
    <3>1. CASE page.timer \/ page.queue["life"] # <<>>
      BY <1>5, <3>1 DEF Nudged
    <3>2. ASSUME NEW h \in Goroutines, NEW n \in Unsaid(h), n.topic = "life"
          PROVE  Nudged'
      <4>1. CASE h = g /\ n = m
        BY <1>1, <1>5, <2>1, <3>2, <4>1 DEF Nudged
      <4>2. CASE ~(h = g /\ n = m)
        <5>1. n \in Unsaid(h)'
          BY <1>2, <3>2, <4>2
        <5> QED
          BY <3>2, <5>1 DEF Nudged
      <4> QED
        BY <4>1, <4>2
    <3> QED
      BY <2>3, <3>1, <3>2 DEF Nudged
  <2>4. CASE Fresh
    BY <1>3, <1>5, <2>4, AsideFacts DEF Fresh
  <2> QED
    BY <2>2, <2>3, <2>4
<1>10. PillInv'
  <2>1. PICK v : v = page.view /\ v = page'.view
    BY <1>5
  <2> SUFFICES ASSUME v # 0, ~page'.deaf, ~page'.misled
               PROVE  /\ page'.pill = "done" => Over(v)'
                      /\ page'.pill = "live" => Open(v)' \/ Told(v)'
    BY <2>1, ViewFacts DEF PillInv
  <2>2. ~page.deaf /\ ~(m.conv = v /\ m.phase \in {"closed", "replaced"})
    BY <1>5, <2>1 DEF PageInv, PageShape, PageTypes
  <2>3. ~Ending(m, v)
    BY <1>2, <2>2 DEF Ending, Truthful
  <2>4. Told(v) => Told(v)'
    <3>1. ASSUME NEW h \in Goroutines, NEW n \in Unsaid(h), Ending(n, v)
          PROVE  \E x \in Unsaid(h)' : Ending(x, v)
      BY <1>2, <2>3, <3>1
    <3> QED
      BY <1>5, <1>7, <3>1 DEF Told, Topics
  <2> QED
    BY <1>3, <1>5, <2>1, <2>2, <2>4, AsideFacts DEF PageInv, PillInv
<1> QED
  BY <1>3, <1>5, <1>6, <1>8, <1>9, <1>10, AsideFacts DEF PageInv

\* A message that reaches the page's queue.
LEMMA SentKeeps ==
  ASSUME IInv, PageInv, NEW g \in Goroutines, act[g].say # <<>>, Said(g), UNCHANGED server,
         page' = [page EXCEPT !.queue[Message(g).topic] = Append(@, Message(g))]
  PROVE  PageInv'
<1>1. PICK m, t : m = Message(g) /\ t = m.topic
  OBVIOUS
<1>2. /\ m \in Unsaid(g) /\ m \in Msgs /\ Truthful(m)
      /\ \A h \in Goroutines : /\ act'[h].say \in Seq(Msgs) /\ Unsaid(h)' \subseteq Unsaid(h)
                               /\ h # g => Unsaid(h)' = Unsaid(h)
      /\ \A n \in Unsaid(g) : n = m \/ n \in Unsaid(g)'
  BY <1>1, SaidFacts DEF PageInv, Messages
<1>3. Aside
  BY ToldAside
<1>4. t \in Topics /\ page.queue[t] \in Seq(Msgs) /\ DOMAIN page.queue = Topics
  BY <1>1, <1>2 DEF Msgs, PageInv, PageShape, PageTypes
<1>5. PICK q : q = Append(page.queue[t], m)
  OBVIOUS
<1>6. q \in Seq(Msgs) /\ q # <<>> /\ ToSet(q) = ToSet(page.queue[t]) \cup {m}
  <2>1. PICK s \in Seq(Msgs) : s = page.queue[t]
    BY <1>4
  <2>2. /\ q \in Seq(Msgs) /\ q # <<>> /\ Len(q) = Len(s) + 1 /\ Len(s) \in Nat
        /\ \A i \in 1..Len(s) : q[i] = s[i]
        /\ q[Len(s) + 1] = m
        /\ DOMAIN s = 1..Len(s) /\ DOMAIN q = 1..(Len(s) + 1)
    <3>1. q = Append(s, m)
      BY <1>5, <2>1
    <3>2. /\ q \in Seq(Msgs) /\ q # <<>> /\ Len(q) = Len(s) + 1 /\ Len(s) \in Nat
          /\ \A i \in 1..Len(s) : q[i] = s[i]
          /\ q[Len(s) + 1] = m
      BY <1>2, <3>1, AppendProperties, LenProperties
    <3> QED
      BY <3>2, LenProperties
  <2>3. 1..(Len(s) + 1) = (1..Len(s)) \cup {Len(s) + 1}
    BY <2>2
  <2>4. ToSet(q) = ToSet(s) \cup {m}
    BY <2>2, <2>3 DEF ToSet
  <2> QED
    BY <2>1, <2>2, <2>4
<1>7. /\ page' = [page EXCEPT !.queue = [page.queue EXCEPT ![t] = q]]
      /\ page'.queue = [page.queue EXCEPT ![t] = q]
      /\ page'.view = page.view /\ page'.pill = page.pill /\ page'.subs = page.subs
      /\ page'.timer = page.timer /\ page'.flights = page.flights /\ page'.bar = page.bar
      /\ page'.missed = page.missed /\ page'.deaf = page.deaf
      /\ page'.asks = page.asks /\ page'.misled = page.misled
  BY <1>1, <1>5 DEF PageInv, PageShape, PageTypes
<1>8. /\ page'.queue[t] = q /\ \A u \in Topics : u # t => page'.queue[u] = page.queue[u]
      /\ page'.queue \in [Topics -> Seq(Msgs)]
  <2>1. PICK f \in [Topics -> Seq(Msgs)] : f = page.queue
    BY DEF PageInv, PageShape, PageTypes
  <2>2. PICK S : S = Seq(Msgs)
    OBVIOUS
  <2>3. [f EXCEPT ![t] = q] \in [Topics -> S] /\ [f EXCEPT ![t] = q][t] = q
        /\ \A u \in Topics : u # t => [f EXCEPT ![t] = q][u] = f[u]
    BY <1>4, <1>6, <2>2, Zenon
  <2> QED
    BY <1>7, <2>1, <2>2, <2>3
<1>9. PageShape'
  BY <1>3, <1>7, <1>8, AsideFacts DEF PageInv, PageShape, PageTypes
<1>10. Queued(t)' = Queued(t) \cup {m} /\ \A u \in Topics : u # t => Queued(u)' = Queued(u)
  BY <1>4, <1>6, <1>8 DEF Queued
<1>11. Messages'
  <2>1. ASSUME NEW u \in Topics, NEW n \in Queued(u)' PROVE Truthful(n)' /\ n.topic = u
    BY <1>1, <1>2, <1>3, <1>10, <2>1, AsideFacts DEF PageInv, Messages
  <2>2. ASSUME NEW h \in Goroutines
        PROVE  act'[h].say \in Seq(Msgs) /\ \A n \in Unsaid(h)' : Truthful(n)'
    BY <1>2, <1>3, AsideFacts DEF PageInv, Messages
  <2> QED
    BY <2>1, <2>2 DEF Messages
<1>12. BarInv'
  <2> SUFFICES ASSUME page.view # 0, ~page.missed PROVE Nudged' \/ Fresh'
    BY <1>7 DEF BarInv
  <2>1. CASE t = "life"
    BY <1>6, <1>8, <2>1 DEF Nudged
  <2>2. CASE t # "life" /\ Nudged
    <3>1. page'.queue["life"] = page.queue["life"]
      BY <1>8, <2>2 DEF Topics
    <3>2. ASSUME NEW h \in Goroutines, NEW n \in Unsaid(h), n.topic = "life"
          PROVE  n \in Unsaid(h)'
      BY <1>1, <1>2, <2>2, <3>2
    <3> QED
      BY <1>7, <2>2, <3>1, <3>2 DEF Nudged
  <2>3. CASE Fresh
    BY <1>3, <1>7, <2>3, AsideFacts DEF Fresh
  <2> QED
    BY <2>1, <2>2, <2>3 DEF PageInv, BarInv
<1>13. PillInv'
  <2>1. PICK v : v = page.view /\ v = page'.view
    BY <1>7
  <2>2. Told(v) => Told(v)'
    <3>1. CASE page.queue["feed"] # <<>>
      BY <1>6, <1>8, <3>1 DEF Told, Topics
    <3>2. ASSUME NEW n \in Queued("life"), Ending(n, v) PROVE Told(v)'
      <4>1. n \in Queued("life")'
        BY <1>10, <3>2 DEF Topics
      <4> QED
        BY <3>2, <4>1 DEF Told
    <3>3. ASSUME NEW h \in Goroutines, NEW n \in Unsaid(h), Ending(n, v) PROVE Told(v)'
      <4>1. CASE n \in Unsaid(h)'
        BY <3>3, <4>1 DEF Told
      <4>2. CASE n = m /\ t = "life"
        BY <1>10, <3>3, <4>2 DEF Told
      <4>3. CASE n = m /\ t = "feed"
        BY <1>6, <1>8, <4>3 DEF Told
      <4> QED
        BY <1>2, <1>4, <4>1, <4>2, <4>3 DEF Topics
    <3> QED
      BY <3>1, <3>2, <3>3 DEF Told
  <2>3. /\ page.view # 0 /\ ~page.deaf /\ ~page.misled =>
             /\ page.pill = "done" => Over(v)
             /\ page.pill = "live" => Open(v) \/ Told(v)
    BY <2>1 DEF PageInv, PillInv
  <2> QED
    BY <1>3, <1>7, <2>1, <2>2, <2>3, AsideFacts, ViewFacts DEF PillInv
<1> QED
  BY <1>3, <1>7, <1>9, <1>11, <1>12, <1>13, AsideFacts DEF PageInv

\* A page is loaded: it has what there is at this moment.
LEMMA LoadKeeps ==
  ASSUME IInv, PageInv, Steady, \A h \in Goroutines : act'[h].say = act[h].say,
         NEW c \in DOMAIN rows, page' = Loaded(c)
  PROVE  PageInv'
<1>1. \A h \in Goroutines : Unsaid(h)' = Unsaid(h)
  BY SameSay
<1>2. page' = [view |-> c, pill |-> IF Open(c) THEN "live" ELSE "done", subs |-> {},
               queue |-> [t \in Topics |-> <<>>], timer |-> FALSE, flights |-> <<>>,
               bar |-> buildProjectTabs, asks |-> {}, cut |-> FALSE, missed |-> FALSE,
               deaf |-> FALSE, misled |-> FALSE]
  BY DEF Loaded, Blank
<1>3. PageShape'
  <2>1. c \in Nat /\ c # 0 /\ buildProjectTabs \in Bars
    BY LenProperties, TabsShape DEF IInv, Shape
  <2>2. <<>> \in Seq(Msgs) /\ <<>> \in Seq(Flights)
    BY EmptySeq
  <2>3. [t \in Topics |-> <<>>] \in [Topics -> Seq(Msgs)]
    BY <2>2
  <2>4. page' \in PageTypes
    BY <1>2, <2>1, <2>2, <2>3 DEF PageTypes
  <2> QED
    BY <1>2, <2>1, <2>4 DEF PageShape, Steady
<1>4. \A t \in Topics : Queued(t)' = {}
  BY <1>2 DEF Queued, ToSet
<1>5. Messages'
  BY <1>1, <1>4, SteadyFacts DEF PageInv, Messages
<1>6. BarInv'
  BY <1>2, EmptySeq, SteadyFacts DEF BarInv, Fresh
<1>7. PillInv'
  BY <1>2, SteadyFacts DEF PillInv, Over, Open
<1> QED
  BY <1>2, <1>3, <1>5, <1>6, <1>7, SteadyFacts, SteadyStops DEF PageInv

\* The browser leaves for a page that has neither taskbar nor sockets to the hub.
LEMMA LeaveKeeps ==
  ASSUME IInv, PageInv, Steady, \A h \in Goroutines : act'[h].say = act[h].say, page' = Blank
  PROVE  PageInv'
<1>1. \A h \in Goroutines : Unsaid(h)' = Unsaid(h)
  BY SameSay
<1>2. /\ page'.view = 0 /\ page'.subs = {} /\ page'.asks = {}
      /\ page'.queue = [t \in Topics |-> <<>>]
  BY DEF Blank
<1>3. PageShape'
  <2>1. <<>> \in Seq(Msgs) /\ <<>> \in Seq(Flights) /\ {} \in Bars
    BY EmptySeq DEF Bars
  <2>2. [t \in Topics |-> <<>>] \in [Topics -> Seq(Msgs)]
    BY <2>1
  <2>3. page' \in PageTypes
    BY <2>1, <2>2 DEF PageTypes, Blank
  <2> QED
    BY <1>2, <2>3 DEF PageShape
<1>4. \A t \in Topics : Queued(t)' = {}
  BY <1>2 DEF Queued, ToSet
<1>5. Messages'
  BY <1>1, <1>4, SteadyFacts DEF PageInv, Messages
<1>6. BarInv' /\ PillInv'
  BY <1>2 DEF BarInv, PillInv
<1> QED
  BY <1>2, <1>3, <1>5, <1>6, SteadyFacts, SteadyStops DEF PageInv

\* The page goes on with a conversation that it started, in place.
LEMMA SwitchKeeps ==
  ASSUME IInv, PageInv, Steady, \A h \in Goroutines : act'[h].say = act[h].say,
         NEW c \in DOMAIN rows, c # 1, NEW g \in page.asks, page' = Switched(g, c)
  PROVE  PageInv'
<1>1. \A h \in Goroutines : Unsaid(h)' = Unsaid(h)
  BY SameSay
<1>2. PICK f : f = [page.queue EXCEPT !["feed"] = <<>>]
  OBVIOUS
<1>3. page \in PageTypes /\ page.view # 0
  BY DEF PageInv, PageShape, PageTypes
<1>4. f \in [Topics -> Seq(Msgs)] /\ f["feed"] = <<>> /\ f["life"] = page.queue["life"]
  BY <1>2, <1>3 DEF PageTypes, Topics
<1>5. PICK b \in BOOLEAN : b = ~Open(c)
  OBVIOUS
<1>6. page' = [page EXCEPT !.view = c, !.pill = "live", !.asks = page.asks \ {g},
                           !.subs = page.subs \ {"feed"}, !.queue = f, !.cut = FALSE,
                           !.deaf = b, !.misled = FALSE]
  BY <1>2, <1>5 DEF Switched
<1>7. /\ page'.view = c /\ page'.pill = "live" /\ page'.queue = f /\ page'.deaf = b
      /\ page'.timer = page.timer /\ page'.flights = page.flights /\ page'.bar = page.bar
      /\ page'.missed = page.missed
  BY <1>3, <1>6 DEF PageTypes
<1>8. PageShape'
  <2>1. c \in Nat /\ c # 0
    BY LenProperties DEF IInv, Shape
  <2>2. page' \in PageTypes
    <3>1. PICK a, u : a = page.asks \ {g} /\ u = page.subs \ {"feed"}
      OBVIOUS
    <3>2. a \in SUBSET Goroutines /\ u \in SUBSET Topics
      BY <1>3, <3>1 DEF PageTypes
    <3>3. page' = [page EXCEPT !.view = c, !.pill = "live", !.asks = a, !.subs = u, !.queue = f,
                               !.cut = FALSE, !.deaf = b, !.misled = FALSE]
      BY <1>6, <3>1
    <3> QED
      BY <1>3, <1>4, <2>1, <3>2, <3>3 DEF PageTypes
  <2>3. rows' = rows /\ page'.view = c /\ page'.pill # "none"
    BY <1>7 DEF Steady
  <2> QED
    BY <2>1, <2>2, <2>3 DEF PageShape
<1>9. \A t \in Topics : Queued(t)' \subseteq Queued(t)
  BY <1>4, <1>7 DEF Queued, ToSet, Topics
<1>10. Messages'
  BY <1>1, <1>9, SteadyFacts DEF PageInv, Messages
<1>11. BarInv'
  BY <1>1, <1>3, <1>4, <1>7, SteadyFacts DEF PageInv, BarInv, Nudged, Fresh
<1>12. PillInv'
  <2>1. ~page'.deaf => Open(c)
    BY <1>5, <1>7
  <2>2. Open(c) => Open(page.view)'
    BY <1>7 DEF Open, Steady
  <2> QED
    BY <1>7, <2>1, <2>2 DEF PillInv
<1>13. Stopping'
  BY <1>7, SteadyStops
<1> QED
  BY <1>8, <1>10, <1>11, <1>12, <1>13, SteadyFacts DEF PageInv

\* The answers of goroutines.
LEMMA AnswerSteady ==
  ASSUME IInv, NEW g \in Goroutines, act[g].say = <<>>, NEW p, Answers(g, p), rows' = rows,
         live' = live, noops' = noops, reopened' = reopened, ours \subseteq ours'
  PROVE  page' = p /\ Steady /\ \A h \in Goroutines : act'[h].say = act[h].say
<1>1. /\ page' = p /\ Placed(g, "idle", 0, 0) /\ act'[g].say = <<>>
      /\ \A h \in Goroutines : h # g => act'[h].say = act[h].say
  BY Answered
<1> QED
  BY <1>1 DEF Steady, Placed

\* The page that waits for a conversation it started goes on with that one,
LEMMA StartMapsKeeps ==
  ASSUME IInv, PageInv, NEW g \in Goroutines, StartMaps(g)
  PROVE  PageInv'
<1>1. PICK c : c = act[g].conv
  OBVIOUS
<1>2. act[g].say = <<>> /\ c \in DOMAIN rows /\ c # 1
  BY <1>1, Silent DEF StartMaps, At, IInv, Held, HeldBy
<1>3. /\ page' = IF g \in page.asks THEN Switched(g, c) ELSE page
      /\ Steady /\ \A h \in Goroutines : act'[h].say = act[h].say
  BY <1>1, <1>2, AnswerSteady DEF StartMaps, agents
<1> QED
  BY <1>2, <1>3, SwitchKeeps, IdleKeeps

\* ... or to the page of the stillborn,
LEMMA StartFailedKeeps ==
  ASSUME IInv, PageInv, NEW g \in Goroutines, StartFailed(g)
  PROVE  PageInv'
<1>1. PICK c : c = act[g].conv
  OBVIOUS
<1>2. act[g].say = <<>> /\ c \in DOMAIN rows
  BY <1>1, Silent DEF StartFailed, At, IInv, Held, HeldBy
<1>3. /\ page' = IF g \in page.asks THEN Loaded(c) ELSE page
      /\ Steady /\ \A h \in Goroutines : act'[h].say = act[h].say
  BY <1>1, <1>2, AnswerSteady DEF StartFailed, agents, server
<1> QED
  BY <1>2, <1>3, LoadKeeps, IdleKeeps

\* ... and one whose Stop is refused goes on as before.
LEMMA RefusedKeeps ==
  ASSUME IInv, PageInv, NEW g \in Goroutines, CloseRefused(g)
  PROVE  PageInv'
<1>1. act[g].say = <<>>
  BY Silent DEF CloseRefused
<1>2. /\ page' = [page EXCEPT !.asks = @ \ {g}]
      /\ Steady /\ \A h \in Goroutines : act'[h].say = act[h].say
  BY <1>1, AnswerSteady DEF CloseRefused, agents, server
<1>3. page \in PageTypes
  BY DEF PageInv, PageShape, PageTypes
<1>4. /\ page' \in PageTypes
      /\ page'.view = page.view /\ page'.subs = page.subs /\ page'.queue = page.queue
      /\ page'.timer = page.timer /\ page'.flights = page.flights /\ page'.bar = page.bar
      /\ page'.missed = page.missed /\ page'.deaf = page.deaf
      /\ page'.asks \subseteq page.asks /\ page'.misled = page.misled /\ page'.pill = page.pill
  BY <1>2, <1>3 DEF PageTypes
<1> QED
  BY <1>2, <1>4, CalmKeeps

\* The page that asked for a Stop shows an end that there was, or that was a noop, or is misled.
LEMMA CloseUnmapsKeeps ==
  ASSUME IInv, PageInv, NEW g \in Goroutines, CloseUnmaps(g)
  PROVE  PageInv'
<1>1. PICK c : c = act[g].conv
  OBVIOUS
<1>2. act[g].say = <<>> /\ act[g].at \in Answering
  BY Silent DEF CloseUnmaps, At, Answering
<1>3. page' = Stopped(g, c) /\ Steady /\ \A h \in Goroutines : act'[h].say = act[h].say
  BY <1>1, <1>2, AnswerSteady DEF CloseUnmaps, agents
<1>4. Over(c) \/ Adopted(g, c)
  BY <1>1, <1>2 DEF PageInv, Stopping
<1>5. CASE g \notin page.asks
  BY <1>3, <1>5, IdleKeeps DEF Stopped
<1>6. CASE g \in page.asks /\ OpenRows \subseteq {c}
  BY <1>3, <1>6, LeaveKeeps DEF Stopped
<1>7. CASE g \in page.asks /\ ~(OpenRows \subseteq {c})
  <2>1. page \in PageTypes
    BY DEF PageInv, PageShape, PageTypes
  <2>2. PICK b \in BOOLEAN : b = (page.misled \/ page.view # c)
    BY <2>1 DEF PageTypes
  <2>3. page' = [page EXCEPT !.pill = "done", !.asks = page.asks \ {g}, !.misled = b]
    BY <1>3, <1>7, <2>2 DEF Stopped
  <2>4. /\ page' \in PageTypes
        /\ page'.view = page.view /\ page'.subs = page.subs /\ page'.queue = page.queue
        /\ page'.timer = page.timer /\ page'.flights = page.flights /\ page'.bar = page.bar
        /\ page'.missed = page.missed /\ page'.deaf = page.deaf
        /\ page'.asks \subseteq page.asks /\ page'.misled = b /\ page'.pill = "done"
    BY <2>1, <2>3 DEF PageTypes
  <2>5. page.deaf \/ page'.misled \/ Over(page.view)
    BY <1>4, <1>7, <2>2, <2>4 DEF Adopted
  <2> QED
    BY <1>3, <2>2, <2>4, <2>5, CalmKeeps
<1> QED
  BY <1>5, <1>6, <1>7

\* A socket opens,
LEMMA ServeKeeps ==
  ASSUME IInv, PageInv, NEW t \in Topics, serveWebSocket(t)
  PROVE  PageInv'
<1>1. /\ page' = [page EXCEPT !.subs = @ \cup {t}] /\ page.view # 0 /\ UNCHANGED <<server, act>>
  BY DEF serveWebSocket
<1>2. Aside /\ act' = act
  BY <1>1, UntouchedAside
<1>3. /\ page'.view = page.view /\ page'.pill = page.pill /\ page'.queue = page.queue
      /\ page'.timer = page.timer /\ page'.flights = page.flights /\ page'.bar = page.bar
      /\ page'.missed = page.missed /\ page'.deaf = page.deaf
      /\ page'.asks = page.asks /\ page'.misled = page.misled /\ page' \in PageTypes
  BY <1>1 DEF PageInv, PageShape, PageTypes
<1>4. PageShape'
  BY <1>1, <1>2, <1>3, AsideFacts DEF PageInv, PageShape
<1>5. /\ \A h \in Goroutines : Unsaid(h)' = Unsaid(h)
      /\ \A u : Queued(u)' = Queued(u)
  BY <1>2, <1>3 DEF Unsaid, Queued
<1>6. Messages'
  BY <1>2, <1>5, AsideFacts DEF PageInv, Messages
<1>7. BarInv'
  BY <1>2, <1>3, <1>5, AsideFacts DEF PageInv, BarInv, Nudged, Fresh
<1>8. PillInv'
  <2>1. PICK v : v = page.view /\ v = page'.view
    BY <1>3
  <2>2. Told(v)' <=> Told(v)
    BY <1>3, <1>5 DEF Told
  <2>3. /\ page.view # 0 /\ ~page.deaf /\ ~page.misled =>
             /\ page.pill = "done" => Over(v)
             /\ page.pill = "live" => Open(v) \/ Told(v)
    BY <2>1 DEF PageInv, PillInv
  <2> QED
    BY <1>2, <1>3, <2>1, <2>2, <2>3, AsideFacts, ViewFacts DEF PillInv
<1> QED
  BY <1>2, <1>3, <1>4, <1>6, <1>7, <1>8, AsideFacts DEF PageInv

\* ... or breaks, and the page may have missed what was on it.
LEMMA BreaksKeeps ==
  ASSUME IInv, PageInv, NEW t \in Topics, SocketBreaks(t)
  PROVE  PageInv'
<1>1. page \in PageTypes
  BY DEF PageInv, PageShape
<1>2. PICK f : f = [page.queue EXCEPT ![t] = <<>>]
  OBVIOUS
<1>3. f \in [Topics -> Seq(Msgs)] /\ f[t] = <<>> /\ \A u \in Topics : u # t => f[u] = page.queue[u]
  BY <1>1, <1>2 DEF PageTypes
<1>4. PICK b \in BOOLEAN : b = (page.cut \/ t = "feed")
  BY <1>1 DEF PageTypes
<1>5. PICK p : p = [page EXCEPT !.subs = page.subs \ {t}, !.queue = f, !.missed = TRUE,
                                !.deaf = TRUE, !.cut = b]
  OBVIOUS
<1>6. /\ p \in PageTypes /\ p.queue = f /\ p.missed /\ p.deaf /\ p.view = page.view
      /\ p.subs = page.subs \ {t} /\ p.asks = page.asks /\ p.pill = page.pill
  BY <1>1, <1>3, <1>5 DEF PageTypes
<1>7. Becomes(p) /\ UNCHANGED server
  BY <1>2, <1>4, <1>5 DEF SocketBreaks
<1>8. Aside /\ page' = p /\ \A h \in Goroutines : act'[h].say = act[h].say
  BY <1>7, BecomesAside
<1>9. \A h \in Goroutines : Unsaid(h)' = Unsaid(h)
  BY <1>8, SameSay
<1>10. PageShape'
  BY <1>6, <1>8, AsideFacts DEF PageInv, PageShape
<1>11. \A u \in Topics : Queued(u)' \subseteq Queued(u)
  BY <1>3, <1>6, <1>8 DEF Queued, ToSet
<1>12. Messages'
  BY <1>8, <1>9, <1>11, AsideFacts DEF PageInv, Messages
<1>13. BarInv' /\ PillInv'
  BY <1>6, <1>8 DEF BarInv, PillInv
<1> QED
  BY <1>6, <1>8, <1>10, <1>12, <1>13, AsideFacts DEF PageInv

\* A nudge makes the page fetch the taskbar, and say what it says of its conversation.
LEMMA NudgeKeeps ==
  ASSUME IInv, PageInv, OnNudge
  PROVE  PageInv'
<1>1. PICK s \in Seq(Msgs) : s = page.queue["life"]
  BY DEF PageInv, PageShape, PageTypes, Topics
<1>2. PICK m : m = Head(s)
  OBVIOUS
<1>3. /\ s # <<>> /\ UNCHANGED <<server, act>>
      /\ page' = [page EXCEPT !.queue["life"] = Tail(@), !.timer = TRUE,
                              !.pill = IF m.phase = "closed" /\ m.conv = page.view
                                       THEN "done" ELSE @]
  BY <1>1, <1>2 DEF OnNudge
<1>4. /\ Tail(s) \in Seq(Msgs) /\ ToSet(Tail(s)) \subseteq ToSet(s) /\ m \in ToSet(s)
      /\ \A n \in ToSet(s) : n = m \/ n \in ToSet(Tail(s))
  BY <1>2, <1>3, TailFacts
<1>5. Aside /\ act' = act
  BY <1>3, UntouchedAside
<1>6. PICK f : f = [page.queue EXCEPT !["life"] = Tail(s)]
  OBVIOUS
<1>7. /\ f \in [Topics -> Seq(Msgs)] /\ f["life"] = Tail(s) /\ f["feed"] = page.queue["feed"]
  BY <1>4, <1>6 DEF PageInv, PageShape, PageTypes, Topics
<1>8. /\ page' \in PageTypes /\ page'.queue = f /\ page'.timer
      /\ page'.pill = (IF m.phase = "closed" /\ m.conv = page.view THEN "done" ELSE page.pill)
      /\ page'.view = page.view /\ page'.deaf = page.deaf /\ page'.subs = page.subs
      /\ page'.asks = page.asks /\ page'.misled = page.misled
  <2>1. page \in PageTypes
    BY DEF PageInv, PageShape
  <2>2. PICK p : p = IF m.phase = "closed" /\ m.conv = page.view THEN "done" ELSE page.pill
    OBVIOUS
  <2>3. p \in {"none", "live", "done"}
    BY <2>1, <2>2 DEF PageTypes
  <2>4. page' = [page EXCEPT !.queue = f, !.timer = TRUE, !.pill = p]
    BY <1>1, <1>3, <1>6, <2>2
  <2> QED
    BY <1>7, <2>1, <2>2, <2>3, <2>4 DEF PageTypes
<1>9. PageShape'
  BY <1>5, <1>8, AsideFacts DEF PageInv, PageShape
<1>10. /\ Queued("life") = ToSet(s) /\ Queued("life")' = ToSet(Tail(s))
       /\ Queued("feed")' = Queued("feed")
       /\ \A h \in Goroutines : Unsaid(h)' = Unsaid(h)
  BY <1>1, <1>5, <1>7, <1>8 DEF Queued, Unsaid
<1>11. Messages'
  BY <1>4, <1>5, <1>10, AsideFacts DEF PageInv, Messages, Topics
<1>12. BarInv'
  BY <1>8 DEF BarInv, Nudged
<1>13. PillInv'
  <2>1. PICK v : v = page.view /\ v = page'.view
    BY <1>8
  <2>2. Truthful(m) /\ m.topic = "life"
    BY <1>4, <1>10 DEF PageInv, Messages, Topics
  <2>3. CASE m.phase = "closed" /\ m.conv = v
    <3>1. Over(v)' /\ page'.pill = "done"
      BY <1>5, <1>8, <2>1, <2>2, <2>3, AsideFacts DEF Truthful, Over
    <3> QED
      BY <2>1, <3>1, ViewFacts DEF PillInv
  <2>4. CASE ~(m.phase = "closed" /\ m.conv = v)
    <3>1. ~Ending(m, v)
      BY <2>2, <2>4 DEF Ending
    <3>2. Told(v) => Told(v)'
      BY <1>4, <1>7, <1>8, <1>10, <3>1 DEF Told
    <3>3. /\ page.view # 0 /\ ~page.deaf /\ ~page.misled =>
               /\ page.pill = "done" => Over(v)
               /\ page.pill = "live" => Open(v) \/ Told(v)
      BY <2>1 DEF PageInv, PillInv
    <3> QED
      BY <1>5, <1>8, <2>1, <2>4, <3>2, <3>3, AsideFacts, ViewFacts DEF PillInv
  <2> QED
    BY <2>3, <2>4
<1> QED
  BY <1>5, <1>8, <1>9, <1>11, <1>12, <1>13, AsideFacts DEF PageInv

\* What a page that waits for the taskbar keeps.
LEMMA FetchKeeps ==
  ASSUME IInv, PageInv, UNCHANGED <<server, act>>,
         page' = [page EXCEPT !.timer = page'.timer, !.flights = page'.flights,
                              !.bar = page'.bar, !.missed = page'.missed],
         page'.timer \in BOOLEAN, page'.flights \in Seq(Flights),
         page'.bar \in Bars, page'.missed \in BOOLEAN,
         BarInv'
  PROVE  PageInv'
<1>1. Aside /\ act' = act
  BY UntouchedAside
<1>2. /\ page'.view = page.view /\ page'.pill = page.pill /\ page'.queue = page.queue
      /\ page'.deaf = page.deaf /\ page'.misled = page.misled /\ page'.asks = page.asks
      /\ page'.subs = page.subs /\ page' \in PageTypes
  BY DEF PageInv, PageShape, PageTypes
<1>3. PageShape'
  BY <1>1, <1>2, AsideFacts DEF PageInv, PageShape
<1>4. /\ \A h \in Goroutines : Unsaid(h)' = Unsaid(h)
      /\ \A u : Queued(u)' = Queued(u)
  BY <1>1, <1>2 DEF Unsaid, Queued
<1>5. Messages'
  BY <1>1, <1>4, AsideFacts DEF PageInv, Messages
<1>6. PillInv'
  <2>1. PICK v : v = page.view /\ v = page'.view
    BY <1>2
  <2>2. Told(v)' <=> Told(v)
    BY <1>2, <1>4 DEF Told
  <2>3. /\ page.view # 0 /\ ~page.deaf /\ ~page.misled =>
             /\ page.pill = "done" => Over(v)
             /\ page.pill = "live" => Open(v) \/ Told(v)
    BY <2>1 DEF PageInv, PillInv
  <2> QED
    BY <1>1, <1>2, <2>1, <2>2, <2>3, AsideFacts, ViewFacts DEF PillInv
<1> QED
  BY <1>1, <1>2, <1>3, <1>5, <1>6, AsideFacts DEF PageInv

\* The answer is worked out at the moment it is asked for,
LEMMA TaskbarKeeps ==
  ASSUME IInv, PageInv, viewTaskbar
  PROVE  PageInv'
<1>1. PICK q : q = Append(page.flights, [bar |-> buildProjectTabs, late |-> FALSE])
  OBVIOUS
<1>2. /\ page' = [page EXCEPT !.timer = FALSE, !.missed = FALSE, !.flights = q]
      /\ UNCHANGED <<server, act>>
  BY <1>1 DEF viewTaskbar
<1>3. PICK s \in Seq(Flights) : s = page.flights
  BY DEF PageInv, PageShape, PageTypes
<1>4. /\ q \in Seq(Flights) /\ Len(q) = Len(s) + 1 /\ Len(s) \in Nat
      /\ q[Len(s) + 1] = [bar |-> buildProjectTabs, late |-> FALSE]
  <2>1. [bar |-> buildProjectTabs, late |-> FALSE] \in Flights
    BY TabsShape DEF Flights
  <2> QED
    BY <1>1, <1>3, <2>1, AppendProperties, LenProperties
<1>5. /\ page' = [page EXCEPT !.timer = page'.timer, !.flights = page'.flights,
                              !.bar = page'.bar, !.missed = page'.missed]
      /\ page'.timer = FALSE /\ page'.missed = FALSE
      /\ page'.flights = q /\ page'.bar \in Bars
  BY <1>2 DEF PageInv, PageShape, PageTypes
<1>6. BarInv'
  <2>1. buildProjectTabs' = buildProjectTabs
    BY <1>2, UntouchedAside, AsideFacts
  <2>2. /\ Len(q) > 0 /\ q[Len(q)].late = FALSE /\ q[Len(q)].bar = buildProjectTabs
    BY <1>4
  <2> QED
    BY <1>5, <2>1, <2>2 DEF BarInv, Fresh
<1> QED
  BY <1>2, <1>4, <1>5, <1>6, FetchKeeps

\* Taking one out of a sequence.
LEMMA RemoveFacts ==
  ASSUME NEW S, NEW s \in Seq(S), NEW i \in 1..Len(s)
  PROVE  RemoveAt(s, i) \in Seq(S) /\ DOMAIN RemoveAt(s, i) = 1..(Len(s) - 1)
<1>1. Len(s) \in Nat /\ \A j \in 1..Len(s) : s[j] \in S
  BY LenProperties, ElementOfSeq
<1>2. PICK a : a = SubSeq(s, 1, i - 1)
  OBVIOUS
<1>3. PICK b : b = SubSeq(s, i + 1, Len(s))
  OBVIOUS
<1>4. a \in Seq(S) /\ Len(a) = i - 1
  <2>1. i - 1 \in Int /\ \A j \in 1..(i - 1) : s[j] \in S
    BY <1>1
  <2>2. a \in Seq(S) /\ Len(a) = IF 1 <= i - 1 THEN (i - 1) - 1 + 1 ELSE 0
    BY <1>2, <2>1, SubSeqProperties
  <2> QED
    BY <1>1, <2>2
<1>5. b \in Seq(S) /\ Len(b) = Len(s) - i
  <2>1. i + 1 \in Int /\ \A j \in (i + 1)..Len(s) : s[j] \in S
    BY <1>1
  <2>2. b \in Seq(S) /\ Len(b) = IF i + 1 <= Len(s) THEN Len(s) - (i + 1) + 1 ELSE 0
    BY <1>1, <1>3, <2>1, SubSeqProperties
  <2> QED
    BY <1>1, <2>2
<1>6. a \o b \in Seq(S) /\ Len(a \o b) = Len(a) + Len(b)
  BY <1>4, <1>5, ConcatProperties
<1>7. Len(a) + Len(b) = Len(s) - 1
  BY <1>1, <1>4, <1>5
<1>8. DOMAIN (a \o b) = 1..(Len(s) - 1)
  BY <1>6, <1>7, LenProperties
<1> QED
  BY <1>2, <1>3, <1>6, <1>8 DEF RemoveAt

\* ... the page goes by the answers that are not late,
LEMMA ArrivesKeeps ==
  ASSUME IInv, PageInv, NEW i \in DOMAIN page.flights, TaskbarArrives(i)
  PROVE  PageInv'
<1>1. PICK s \in Seq(Flights) : s = page.flights
  BY DEF PageInv, PageShape, PageTypes
<1>2. PICK n : n = Len(s)
  OBVIOUS
<1>3. n \in Nat /\ i \in 1..n /\ \A j \in 1..n : s[j] \in Flights
  BY <1>1, <1>2, LenProperties, ElementOfSeq
<1>4. PICK d : d = [j \in 1..(n - 1) |-> IF j < i THEN [s[j] EXCEPT !.late = TRUE] ELSE s[j + 1]]
  OBVIOUS
<1>5. DOMAIN RemoveAt(s, i) = 1..(n - 1)
  BY <1>2, <1>3, RemoveFacts
<1>6. /\ d \in Seq(Flights) /\ Len(d) = n - 1 /\ n - 1 \in Nat
      /\ \A j \in 1..(n - 1) : j < i => d[j].late
      /\ \A j \in 1..(n - 1) : ~(j < i) => d[j] = s[j + 1]
  <2>1. ASSUME NEW j \in 1..(n - 1)
        PROVE  /\ j < i => d[j] = [s[j] EXCEPT !.late = TRUE]
               /\ ~(j < i) => d[j] = s[j + 1]
    BY <1>4
  <2>2. ASSUME NEW j \in 1..(n - 1)
        PROVE  d[j] \in Flights /\ (j < i => d[j].late)
    <3>1. j \in 1..n /\ j + 1 \in 1..n
      BY <1>3
    <3>2. s[j] \in Flights /\ s[j + 1] \in Flights
      BY <1>3, <3>1
    <3>3. [s[j] EXCEPT !.late = TRUE] \in Flights /\ [s[j] EXCEPT !.late = TRUE].late = TRUE
      BY <3>2 DEF Flights
    <3> QED
      BY <2>1, <3>2, <3>3
  <2>3. n - 1 \in Nat
    BY <1>3
  <2>4. d = [j \in 1..(n - 1) |-> d[j]]
    BY <1>4
  <2>5. [j \in 1..(n - 1) |-> d[j]] \in Seq(Flights) /\ Len([j \in 1..(n - 1) |-> d[j]]) = n - 1
    BY <2>2, <2>3, IsASeq
  <2> QED
    BY <2>1, <2>2, <2>3, <2>4, <2>5
<1>7. PICK missed \in BOOLEAN : missed = (page.missed \/ s[i].late)
  OBVIOUS
<1>8. /\ page' = [page EXCEPT !.bar = s[i].bar, !.flights = d, !.missed = missed]
      /\ UNCHANGED <<server, act>>
  BY <1>1, <1>4, <1>5, <1>7 DEF TaskbarArrives
<1>9. s[i].bar \in Bars /\ s[i].late \in BOOLEAN
  BY <1>3 DEF Flights
<1>10. /\ page' = [page EXCEPT !.timer = page.timer, !.flights = d, !.bar = s[i].bar,
                               !.missed = missed]
       /\ page'.flights = d /\ page'.bar = s[i].bar /\ page'.missed = missed
       /\ page'.view = page.view /\ page'.timer = page.timer /\ page'.queue = page.queue
       /\ page.timer \in BOOLEAN /\ page.missed \in BOOLEAN
  BY <1>8 DEF PageInv, PageShape, PageTypes
<1>11. BarInv'
  <2> SUFFICES ASSUME page.view # 0, ~missed PROVE Nudged' \/ Fresh'
    BY <1>10 DEF BarInv
  <2>1. ~page.missed /\ ~s[i].late
    BY <1>7, <1>9, <1>10
  <2>2. CASE Nudged
    BY <1>8, <1>10, <2>2 DEF Nudged, Unsaid
  <2>3. CASE Fresh
    <3>1. buildProjectTabs' = buildProjectTabs
      BY <1>8, UntouchedAside, AsideFacts
    <3>2. n > 0 /\ ~s[n].late /\ s[n].bar = buildProjectTabs
      BY <1>1, <1>2, <1>3, <2>1, <2>3 DEF Fresh
    <3>3. CASE i = n
      <4>1. \A j \in 1..(n - 1) : d[j].late
        BY <1>3, <1>6, <3>3
      <4> QED
        BY <1>6, <1>10, <3>1, <3>2, <3>3, <4>1 DEF Fresh
    <3>4. CASE i # n
      <4>1. n - 1 \in 1..(n - 1) /\ ~(n - 1 < i) /\ (n - 1) + 1 = n /\ n - 1 > 0
        BY <1>3, <3>4
      <4>2. d[n - 1] = s[n]
        BY <1>6, <4>1
      <4> QED
        BY <1>6, <1>10, <3>1, <3>2, <4>1, <4>2 DEF Fresh
    <3> QED
      BY <3>3, <3>4
  <2> QED
    BY <2>1, <2>2, <2>3 DEF PageInv, BarInv
<1>12. /\ page' = [page EXCEPT !.timer = page'.timer, !.flights = page'.flights,
                               !.bar = page'.bar, !.missed = page'.missed]
       /\ page'.timer \in BOOLEAN /\ page'.flights \in Seq(Flights)
       /\ page'.bar \in Bars /\ page'.missed \in BOOLEAN
  BY <1>6, <1>7, <1>9, <1>10
<1> QED
  BY <1>8, <1>11, <1>12, FetchKeeps

\* ... and one that never comes is missed.
LEMMA FailsKeeps ==
  ASSUME IInv, PageInv, NEW i \in DOMAIN page.flights, TaskbarFails(i)
  PROVE  PageInv'
<1>1. PICK s \in Seq(Flights) : s = page.flights
  BY DEF PageInv, PageShape, PageTypes
<1>2. PICK d : d = RemoveAt(s, i)
  OBVIOUS
<1>3. i \in 1..Len(s) /\ d \in Seq(Flights)
  <2>1. i \in 1..Len(s)
    BY <1>1, LenProperties
  <2> QED
    BY <1>2, <2>1, RemoveFacts
<1>4. /\ page' = [page EXCEPT !.flights = d, !.missed = TRUE] /\ UNCHANGED <<server, act>>
  BY <1>1, <1>2 DEF TaskbarFails
<1>5. /\ page' = [page EXCEPT !.timer = page.timer, !.flights = d, !.bar = page.bar,
                              !.missed = TRUE]
      /\ page'.missed /\ page.timer \in BOOLEAN /\ page.bar \in Bars
  BY <1>4 DEF PageInv, PageShape, PageTypes
<1>6. BarInv'
  BY <1>5 DEF BarInv
<1>7. /\ page' = [page EXCEPT !.timer = page'.timer, !.flights = page'.flights,
                              !.bar = page'.bar, !.missed = page'.missed]
      /\ page'.timer \in BOOLEAN /\ page'.flights \in Seq(Flights)
      /\ page'.bar \in Bars /\ page'.missed \in BOOLEAN
  BY <1>3, <1>4, <1>5 DEF PageInv, PageShape, PageTypes
<1> QED
  BY <1>4, <1>6, <1>7, FetchKeeps

-----------------------------------------------------------------------------
\* Every step keeps the invariant of the page.
LEMMA NextPage == IInv /\ PageInv /\ [Next]_vars => PageInv'
<1> SUFFICES ASSUME IInv, PageInv, [Next]_vars PROVE PageInv'
  OBVIOUS
<1>0. \A g \in Goroutines : page' = page => GoesOn(g)
  BY SamePage
<1>1. ASSUME NEW g \in Goroutines, Begin(g) PROVE PageInv'
  <2>1. CASE viewProjects(g)
    BY <1>0, <2>1, Silent, QuietKeeps DEF viewProjects, server, agents, Recalls, Answering
  <2>2. CASE createSession(g)
    BY <1>0, <2>2, Silent, ServerSteps DEF createSession
  <2>3. CASE createProjectSession(g)
    <3>1. act[g].say = <<>> /\ GoesOn(g)
      BY <2>3, Silent, SamePage DEF createProjectSession
    <3> QED
      BY <2>3, <3>1, ServerSteps DEF createProjectSession
  <2>4. CASE OtherCreates(g)
    BY <1>0, <2>4, Silent, ServerSteps DEF OtherCreates
  <2>5. CASE Adopt(g)
    BY <2>5, AdoptKeeps
  <2>6. ASSUME NEW c \in DOMAIN rows, SubmitPrompt(g, c) PROVE PageInv'
    BY <1>0, <2>6, Silent, QuietKeeps DEF SubmitPrompt, server, agents, Recalls, Answering
  <2>7. ASSUME NEW c \in DOMAIN rows, CloseSession(g, c) PROVE PageInv'
    BY <2>7, CloseSessionKeeps
  <2>8. ASSUME NEW c \in DOMAIN rows, Exit(g, c) PROVE PageInv'
    <3>1. /\ c \in live /\ closeConversation(c) /\ UNCHANGED <<ours, noops, page>>
          /\ act[g].say = <<>> /\ Goes(g, "idle", 0, 0, <<publishLifecycleClosed(c)>>)
      BY <2>8, Silent DEF Exit, Ends
    <3> QED
      BY <3>1, EndKeeps DEF Answering
  <2>9. ASSUME NEW c \in DOMAIN rows, TurnEnds(g, c, TRUE) PROVE PageInv'
    BY <2>9, TurnKeeps
  <2>10. ASSUME NEW c \in DOMAIN rows, Free(g), Restart(g, c) PROVE PageInv'
    BY <1>0, <2>10, Silent, ServerSteps DEF Restart
  <2> QED
    BY <1>1, <2>1, <2>2, <2>3, <2>4, <2>5, <2>6, <2>7, <2>8, <2>9, <2>10 DEF Begin
<1>2. ASSUME NEW g \in Goroutines, GoOn(g) PROVE PageInv'
  <2>1. CASE startPendingSession(g)
    <3>1. act[g].say = <<>> /\ GoesOn(g)
      BY <1>0, <2>1, Silent DEF startPendingSession
    <3>2. CASE StartSessionWeb(g)
      BY <3>1, <3>2, ServerSteps
    <3>3. CASE Ends(g, <<>>) /\ UNCHANGED server
      BY <3>1, <3>3, QuietKeeps DEF Ends, server, agents, Recalls, Answering
    <3> QED
      BY <2>1, <3>2, <3>3 DEF startPendingSession
  <2>2. CASE StartMaps(g)
    BY <2>2, StartMapsKeeps
  <2>3. CASE StartFailed(g)
    BY <2>3, StartFailedKeeps
  <2>4. CASE SendPrompt(g)
    <3>1. act[g].say = <<>> /\ GoesOn(g) /\ UNCHANGED server
      BY <1>0, <2>4, Silent DEF SendPrompt
    <3>2. \/ Goes(g, "prompting", current[act[g].conv], 0, <<>>)
          \/ Goes(g, "idle", 0, 0, <<>>)
      BY <2>4 DEF SendPrompt, Ends
    <3> QED
      BY <3>1, <3>2, QuietKeeps DEF server, agents, Recalls, Answering
  <2>5. CASE PromptRuns(g)
    BY <2>5, PromptKeeps
  <2>6. ASSUME NEW c \in DOMAIN rows, TurnEnds(g, c, FALSE) PROVE PageInv'
    BY <2>6, TurnKeeps
  <2>7. CASE At(g, "submit") /\ Restart(g, act[g].conv)
    BY <1>0, <2>7, Silent, ServerSteps DEF Restart
  <2>8. CASE RestartWaits(g)
    BY <1>0, <2>8, Silent, QuietKeeps DEF RestartWaits, server, agents, Recalls, Answering
  <2>9. CASE handleReplaced(g)
    BY <2>9, ReplacedKeeps
  <2>10. CASE RestartFails(g)
    BY <1>0, <2>10, Silent, QuietKeeps
    DEF RestartFails, Orphaned, Ends, agents, Recalls, Answering
  <2>11. CASE CloseRefused(g)
    BY <2>11, RefusedKeeps
  <2>12. CASE CloseGoes(g)
    BY <2>12, CloseGoesKeeps
  <2>13. CASE CloseUnmaps(g)
    BY <2>13, CloseUnmapsKeeps
  <2>14. CASE PublishFinds(g)
    <3>1. Aside /\ page' = page /\ \A h \in Goroutines : act'[h].say = act[h].say
      BY <2>14 DEF PublishFinds, IInv, Shape, Aside, Fields
    <3> QED
      BY <3>1, AsideSteady, IdleKeeps
  <2>15. CASE PublishFindsNone(g)
    BY <2>15, UnheardKeeps DEF PublishFindsNone, Saying
  <2>16. CASE PublishSends(g)
    <3>1. act[g].say # <<>> /\ Said(g) /\ UNCHANGED server
      BY <2>16 DEF PublishSends, Saying
    <3>2. CASE Len(page.queue[Message(g).topic]) < Cap
      BY <2>16, <3>1, <3>2, SentKeeps DEF PublishSends
    <3>3. CASE ~(Len(page.queue[Message(g).topic]) < Cap)
      <4>1. Unheard(Message(g), FALSE)
        BY <2>16, <3>3 DEF PublishSends
      <4>2. Message(g).topic = "life" => page.queue["life"] # <<>>
        BY <3>3, LimitsAssumption, EmptySeq
      <4> QED
        BY <3>1, <4>1, <4>2, UnheardKeeps
    <3> QED
      BY <3>2, <3>3
  <2> QED
    BY <1>2, <2>1, <2>2, <2>3, <2>4, <2>5, <2>6, <2>7, <2>8, <2>9, <2>10, <2>11, <2>12, <2>13,
       <2>14, <2>15, <2>16
    DEF GoOn
<1>3. CASE Browse
  <2>1. ASSUME NEW t \in Topics, serveWebSocket(t) PROVE PageInv'
    BY <2>1, ServeKeeps
  <2>2. CASE OnNudge
    BY <2>2, NudgeKeeps
  <2>3. CASE OnReplaced
    <3>1. Aside /\ page' = Blank /\ \A h \in Goroutines : act'[h].say = act[h].say
      BY <2>3, BecomesAside DEF OnReplaced
    <3> QED
      BY <3>1, AsideSteady, LeaveKeeps
  <2>4. CASE viewTaskbar
    BY <2>4, TaskbarKeeps
  <2>5. ASSUME NEW i \in DOMAIN page.flights, TaskbarArrives(i) PROVE PageInv'
    BY <2>5, ArrivesKeeps
  <2> QED
    BY <1>3, <2>1, <2>2, <2>3, <2>4, <2>5 DEF Browse
<1>4. CASE Disturb
  <2>1. ASSUME NEW c \in Convs, ViewSession(c) PROVE PageInv'
    <3>1. /\ c \in DOMAIN rows /\ Aside /\ page' = Loaded(c)
          /\ \A h \in Goroutines : act'[h].say = act[h].say
      BY <2>1, BecomesAside DEF ViewSession
    <3> QED
      BY <3>1, AsideSteady, LoadKeeps
  <2>2. ASSUME NEW t \in Topics, SocketBreaks(t) PROVE PageInv'
    BY <2>2, BreaksKeeps
  <2>3. ASSUME NEW i \in DOMAIN page.flights, TaskbarFails(i) PROVE PageInv'
    BY <2>3, FailsKeeps
  <2> QED
    BY <1>4, <2>1, <2>2, <2>3 DEF Disturb
<1>5. CASE (\E g \in Goroutines : PublishPanics(g)) \/ UNCHANGED vars
  <2>1. UNCHANGED <<server, act, page>>
    BY <1>5 DEF PublishPanics, vars, server
  <2> QED
    BY <2>1, UntouchedAside, AsideSteady, IdleKeeps
<1> QED
  BY <1>1, <1>2, <1>3, <1>4, <1>5 DEF Next

\* As long as it is not told to have missed anything, what a page shows is true or will be
\* put right by what is under way.
THEOREM PageInvariant == Spec => []PageInv
<1>1. Init => PageInv
  BY InitPage
<1>2. IInv /\ PageInv /\ [Next]_vars => PageInv'
  BY NextPage
<1> QED
  BY <1>1, <1>2, Invariant, PTL DEF Spec

\* The taskbar shows the open sessions of the store once nothing is under way, however many
\* nudges were dropped by full channels (hub.go:58-77, projectview.html:905-922), and although
\* rows are set running after the end of their conversations.
THEOREM TaskbarsAreFresh == Spec => []TaskbarIsFresh
<1>1. ASSUME PageInv PROVE TaskbarIsFresh
  <2> SUFFICES ASSUME Settled, ~page.missed PROVE page.bar = buildProjectTabs
    BY DEF TaskbarIsFresh
  <2>1. page.view # 0
    BY <1>1 DEF Settled, PageInv, PageShape
  <2>2. page.queue["life"] = <<>> /\ ~page.timer /\ page.flights = <<>>
    BY DEF Settled, Topics
  <2>3. \A g \in Goroutines : Unsaid(g) = {}
    BY DEF Settled, Unsaid, ToSet
  <2>4. ~Nudged
    BY <2>2, <2>3 DEF Nudged
  <2>5. Len(page.flights) = 0
    BY <2>2, EmptySeq
  <2> QED
    BY <1>1, <2>1, <2>4, <2>5 DEF PageInv, BarInv, Fresh
<1> QED
  BY <1>1, PageInvariant, PTL

\* A page says that its conversation is over exactly if its row does, but for the causes named,
\* a prompt or a turn that outlives its conversation among them (channel.go:106-148,
\* server.go:441-489).
THEOREM PillsAreTrue == Spec => []PillIsTrue
<1>1. ASSUME PageInv PROVE PillIsTrue
  <2> SUFFICES ASSUME Settled, ~page.deaf, ~page.misled, page.view \notin noops \cup reopened
               PROVE  page.pill = "done" <=> ~Open(page.view)
    BY DEF PillIsTrue
  <2>1. page.view # 0 /\ page.pill \in {"live", "done"}
    BY <1>1 DEF Settled, PageInv, PageShape, PageTypes
  <2>2. \A t \in Topics : page.queue[t] = <<>> /\ Queued(t) = {}
    BY DEF Settled, Queued, ToSet
  <2>3. \A g \in Goroutines : Unsaid(g) = {}
    BY DEF Settled, Unsaid, ToSet
  <2>4. ~Told(page.view)
    BY <2>2, <2>3 DEF Told, Topics
  <2> QED
    BY <1>1, <2>1, <2>4 DEF PageInv, PillInv, Over
<1> QED
  BY <1>1, PageInvariant, PTL
=============================================================================
