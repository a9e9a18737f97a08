--------------------------- MODULE Scheduler_proof ---------------------------
(***************************************************************************)
(* That a scheduled job works on one thing at a time and never cuts its    *)
(* own turn off, for any number of ticks, upsets and follow-up prompts.    *)
(***************************************************************************)
EXTENDS Scheduler, FiniteSetTheorems, TLAPS

Fields == {"at", "conv", "kill", "follow"}

\* Where a run still has its job to do.
Busy == {"acquire", "record", "hand", "look", "wait", "woken", "send", "ask"}
Handed == {"look", "wait", "woken", "send", "ask"}
Ending == {"receive", "finish", "delete", "kill"}

\* A request, as the router sends it.
Asked(q) ==
  /\ q.conv \in Convs /\ q.run \in Convs \cup {0} /\ q.of \in {"new", "prompt"}
  /\ q.of = "new" => q = NewSession(q.conv)
  /\ q.of = "prompt" => q = Prompt(q.conv, q.run)

Shape ==
  /\ reuse \in BOOLEAN
  /\ act = [a \in Actors |-> act[a]]
  /\ \A a \in Actors : /\ DOMAIN act[a] = Fields
                       /\ act[a].kill \in BOOLEAN /\ act[a].follow \in BOOLEAN
  /\ \A q \in asked : Asked(q)

\* Run c has created its conversation, or is over.
Born(c) == act[Run(c)].at \notin {"idle", "acquire"}

\* What there is of a conversation is there since its run created it.
Births ==
  /\ \A c \in reg \cup opened \cup dead : c \in Convs /\ Born(c)
  /\ \A q \in asked : Born(q.conv)

\* Who works on what: a run on a conversation it created or that is kept, a receive loop and a
\* watcher on their own.  Who is to close a process has unregistered its conversation.
RoleOf(a) ==
  /\ act[a].conv \in Convs \cup {0} /\ (act[a].conv # 0 => Born(act[a].conv))
  /\ act[a].conv = 0 => act[a].at \in {"idle", "acquire", "done"}
  /\ a[1] = "run" => /\ act[a].at \in Busy \cup Ending \cup {"idle", "done"}
                     /\ act[a].at \in {"idle", "acquire"} => act[a].conv = 0
                     /\ ~reuse => act[a].conv \in {0, a[2]}
  /\ a[1] = "loop" => act[a].at \in Ending \cup {"idle", "follow"}
  /\ a[1] = "watch" => act[a].at \in Ending \cup {"idle"} /\ ~act[a].follow
  /\ a[1] # "run" => act[a].conv \in {0, a[2]}
  /\ act[a].kill => act[a].at \in Ending /\ act[a].conv \notin reg
  /\ At(a, "kill") => act[a].kill

Roles == Births /\ \A a \in Actors : RoleOf(a)

\* Run c will not ask any more.
Silent(c) ==
  \/ act[Run(c)].at \in Ending \cup {"done"}
  \/ c \in failed /\ act[Run(c)].at \notin {"send", "ask"}

\* A turn of c is over, or never comes, once its receive loop tells of an end.
Over(c) == Silent(c) /\ \A q \in Turns : q.conv # c

\* A run asks once, in an opened conversation.  Without reuse the conversation is its own, and
\* its loop tells of an end after that; with reuse only watchProcess closes anything.
Turned ==
  /\ \A c \in Convs : NewSession(c) \in asked => c \notin opened
  /\ \A r \in Convs : act[Run(r)].at \in {"woken", "send", "ask"} => act[Run(r)].conv \in opened
  /\ \A q \in Turns : /\ q.conv \in opened /\ At(Run(q.run), "done")
                      /\ ~reuse => q.run = q.conv
  /\ ~reuse => \A c \in Convs :
       Prompt(c, 0) \in asked \/ ~At(Loop(c), "idle") => Over(c)
  /\ reuse => \A a \in Actors :
       a[1] # "watch" => ~act[a].kill /\ act[a].at \notin {"delete", "kill"}

\* a has the job's work in hand.
Working(a) ==
  \/ act[a].at \in Busy \cup {"finish"}
  \/ At(a, "receive") /\ act[a].conv \in inflight

\* One run, one turn or one receive has the work.
Single ==
  /\ \A a, b \in Actors : Working(a) /\ Working(b) => a = b
  /\ \A p, q \in Turns : p = q
  /\ \A a \in Actors, q \in Turns : ~Working(a)

\* While there is work the job is marked, and its conversation runs it once handed over, until
\* it is finished.
Marked ==
  /\ \A a \in Actors : Working(a) => running
  /\ \A q \in Turns : running /\ q.conv \in inflight
  /\ \A r \in Convs : act[Run(r)].at \in Handed => act[Run(r)].conv \in inflight
  /\ \A a \in Actors : /\ reuse /\ At(a, "receive") => act[a].conv \in inflight
                       /\ At(a, "delete") => act[a].conv \notin inflight

\* Nobody else prompts or closes.
Quiet ==
  /\ \A q \in asked : q.of = "prompt" => q.run # 0
  /\ dead \cap reg = {} /\ failed = {}
  /\ \A c \in Convs : At(Watcher(c), "idle")

\* A job that keeps its conversation has that one, or the one it is about to keep.
Kept ==
  /\ \A c, d \in reg : c = d
  /\ \A c \in reg : c = reusable \/ \E r \in Convs : At(Run(r), "record") /\ act[Run(r)].conv = c
  /\ \A r \in Convs : At(Run(r), "record") => reg \subseteq {act[Run(r)].conv}

\* As long as nothing is upset.
One == upset = {} => Single /\ Marked /\ Quiet /\ (reuse => Kept)

IInv == Shape /\ Roles /\ Turned /\ One

-----------------------------------------------------------------------------
(* What the helpers do *)

\* Goroutine a is at a place with what it holds; the others stay where they are.
Placed(a, where, c, kill, follow) ==
  /\ act' = [b \in Actors |-> act'[b]] /\ \A b \in Actors : DOMAIN act'[b] = Fields
  /\ act'[a].at = where /\ act'[a].conv = c /\ act'[a].kill = kill /\ act'[a].follow = follow
  /\ \A b \in Actors : b # a => act'[b] = act[b]

\* The goroutines, by name.
LEMMA Names ==
  /\ \A c \in Convs : /\ Run(c) \in Actors /\ Run(c)[1] = "run" /\ Run(c)[2] = c
                      /\ Loop(c) \in Actors /\ Loop(c)[1] = "loop" /\ Loop(c)[2] = c
                      /\ Watcher(c) \in Actors /\ Watcher(c)[1] = "watch" /\ Watcher(c)[2] = c
  /\ \A a \in Actors : /\ a[1] \in {"run", "loop", "watch"} /\ a[2] \in Convs
                       /\ a[1] = "run" => a = Run(a[2])
                       /\ a[1] = "loop" => a = Loop(a[2])
                       /\ a[1] = "watch" => a = Watcher(a[2])
  /\ 0 \notin Convs
  BY SchedulerAssumption DEF Actors, Run, Loop, Watcher, Convs

\* A goroutine that goes on keeps what it holds.
LEMMA Moves ==
  ASSUME Shape, NEW a \in Actors, NEW where, Goto(a, where)
  PROVE  Placed(a, where, act[a].conv, act[a].kill, act[a].follow)
  BY DEF Shape, Goto, Placed, Fields

\* One that goes on with a conversation.
LEMMA Takes ==
  ASSUME Shape, NEW a \in Actors, NEW where, NEW c,
         act' = [act EXCEPT ![a].at = where, ![a].conv = c]
  PROVE  Placed(a, where, c, act[a].kill, act[a].follow)
  BY DEF Shape, Placed, Fields

\* One that is, or is not any more, to close the process.
LEMMA Kills ==
  ASSUME Shape, NEW a \in Actors, NEW where, NEW k,
         act' = [act EXCEPT ![a].at = where, ![a].kill = k]
  PROVE  Placed(a, where, act[a].conv, k, act[a].follow)
  BY DEF Shape, Placed, Fields

\* One that starts afresh.
LEMMA Starts ==
  ASSUME Shape, NEW a \in Actors, NEW e, DOMAIN e = Fields, act' = [act EXCEPT ![a] = e]
  PROVE  Placed(a, e.at, e.conv, e.kill, e.follow)
  BY DEF Shape, Placed

\* Where a goroutine goes on.
LEMMA Returns ==
  ASSUME Shape, Roles, NEW a \in Actors
  PROVE  /\ act[a].kill => Rest(a) = "kill"
         /\ ~act[a].kill => Rest(a) = Home(a)
         /\ Home(a) \in {"done", "idle", "follow"}
         /\ a[1] = "run" => Home(a) = "done"
         /\ a[1] = "loop" => Home(a) \in {"idle", "follow"}
         /\ a[1] = "watch" => Home(a) = "idle"
  BY DEF Shape, Roles, RoleOf, Rest, Home

\* A run that created its conversation stays so.
LEMMA BornStays ==
  ASSUME NEW a \in Actors, NEW w, NEW c, NEW k, NEW f, Placed(a, w, c, k, f),
         w \in {"idle", "acquire"} => a[1] # "run" \/ ~Born(a[2])
  PROVE  \A x \in Convs : Born(x) => Born(x)'
  BY Names DEF Placed, Born

\* The roles, when one goroutine takes a step.
LEMMA RolesStep ==
  ASSUME Shape, Roles, NEW a \in Actors, NEW w, NEW c, NEW k, NEW f, Placed(a, w, c, k, f),
         \A x \in Convs : Born(x) => Born(x)', reuse' = reuse,
         \A x \in reg' : x \in reg \/ ~Born(x),
         Births', RoleOf(a)'
  PROVE  Roles'
<1>1. SUFFICES ASSUME NEW b \in Actors, b # a PROVE RoleOf(b)'
  BY DEF Roles
<1>2. act'[b] = act[b] /\ RoleOf(b)
  BY <1>1 DEF Placed, Roles
<1>3. act[b].conv # 0 => Born(act[b].conv)'
  BY <1>2 DEF RoleOf
<1>4. act[b].kill => act[b].conv \notin reg'
  BY <1>2, Names DEF RoleOf, Ending
<1> QED
  BY <1>2, <1>3, <1>4 DEF RoleOf, At

\* The roles, when none does.
LEMMA RolesStay ==
  ASSUME Roles, act' = act, reuse' = reuse, reg' \subseteq reg, Births'
  PROVE  Roles'
<1>1. SUFFICES ASSUME NEW b \in Actors PROVE RoleOf(b)'
  BY DEF Roles
<1>2. \A x \in Convs : Born(x) => Born(x)'
  BY DEF Born
<1> QED
  BY <1>1, <1>2 DEF Roles, RoleOf, At

\* Births, when nothing is born.
LEMMA BirthsStay ==
  ASSUME Shape, Roles, \A x \in Convs : Born(x) => Born(x)',
         reg' \subseteq reg, opened' \subseteq opened, dead' \subseteq dead, asked' \subseteq asked
  PROVE  Births'
  BY DEF Shape, Asked, Roles, Births

\* What is over stays over.
LEMMA OverStays ==
  ASSUME NEW a \in Actors, NEW w, NEW c, NEW k, NEW f, Placed(a, w, c, k, f),
         failed \subseteq failed', Turns' \subseteq Turns,
         a[1] = "run" /\ Silent(a[2]) => Silent(a[2])'
  PROVE  \A x \in Convs : Over(x) => Over(x)'
<1>1. ASSUME NEW x \in Convs, Silent(x) PROVE Silent(x)'
  <2>1. CASE Run(x) = a
    BY <1>1, <2>1, Names
  <2>2. CASE Run(x) # a
    BY <1>1, <2>2, Names DEF Placed, Silent
  <2> QED
    BY <2>1, <2>2
<1> QED
  BY <1>1 DEF Over

\* Goroutine a takes a step from which no turn gets cut.
TurnKeeps(a, w, c, k, f) ==
  /\ Placed(a, w, c, k, f)
  /\ reuse' = reuse /\ opened \subseteq opened' /\ Turns' \subseteq Turns
  /\ \A x \in Convs : NewSession(x) \in asked' => x \notin opened'
  /\ ~reuse => \A x \in Convs : Over(x) => Over(x)'
  /\ \A x \in Convs : Prompt(x, 0) \in asked' => Prompt(x, 0) \in asked \/ ~At(Loop(x), "idle")
  /\ a[1] = "run" => /\ w \in {"woken", "send", "ask"} => c \in opened'
                     /\ At(a, "done") => w = "done"
  /\ a[1] = "loop" /\ ~reuse => w = "idle" \/ Over(a[2])'
  /\ a[1] # "watch" /\ reuse => ~k /\ w \notin {"delete", "kill"}

\* The turns, when no prompt of the job is sent.
LEMMA TurnedStep ==
  ASSUME Shape, Roles, Turned,
         NEW a \in Actors, NEW w, NEW c, NEW k, NEW f, TurnKeeps(a, w, c, k, f)
  PROVE  Turned'
<1>1. \A r \in Convs : act'[Run(r)].at \in {"woken", "send", "ask"} => act'[Run(r)].conv \in opened'
  BY Names DEF TurnKeeps, Placed, Turned
<1>2. \A q \in Turns' : /\ q.conv \in opened' /\ act'[Run(q.run)].at = "done"
                        /\ ~reuse => q.run = q.conv
  <2> SUFFICES ASSUME NEW q \in Turns' PROVE act'[Run(q.run)].at = "done"
    BY DEF TurnKeeps, Turned
  <2>1. q \in Turns /\ q.run \in Convs /\ act[Run(q.run)].at = "done"
    BY DEF TurnKeeps, Turned, Turns, Shape, Asked, At
  <2> QED
    BY <2>1, Names DEF TurnKeeps, Placed, At
<1>3. ASSUME ~reuse, NEW x \in Convs, Prompt(x, 0) \in asked' \/ act'[Loop(x)].at # "idle"
      PROVE  Over(x)'
  <2>1. CASE Loop(x) = a
    BY <1>3, <2>1, Names DEF TurnKeeps, Placed, Turned
  <2>2. CASE Loop(x) # a
    BY <1>3, <2>2, Names DEF TurnKeeps, Placed, Turned, At
  <2> QED
    BY <2>1, <2>2
<1>4. reuse => \A b \in Actors :
        b[1] # "watch" => ~act'[b].kill /\ act'[b].at \notin {"delete", "kill"}
  BY DEF TurnKeeps, Placed, Turned
<1> QED
  BY <1>1, <1>2, <1>3, <1>4 DEF TurnKeeps, Turned, At

\* Who works, when one goroutine takes a step.
LEMMA WorkStep ==
  ASSUME NEW a \in Actors, NEW w, NEW c, NEW k, NEW f, Placed(a, w, c, k, f)
  PROVE  /\ Working(a)' <=> (w \in Busy \cup {"finish"} \/ (w = "receive" /\ c \in inflight'))
         /\ inflight' \subseteq inflight => \A b \in Actors \ {a} : Working(b)' => Working(b)
  BY DEF Placed, Working, At

\* The requests.
LEMMA Requests ==
  \A c \in Convs, r \in Convs \cup {0} :
    /\ Asked(NewSession(c)) /\ NewSession(c).conv = c /\ NewSession(c).run = 0
    /\ NewSession(c).of = "new"
    /\ Asked(Prompt(c, r)) /\ Prompt(c, r).conv = c /\ Prompt(c, r).run = r
    /\ Prompt(c, r).of = "prompt"
  BY DEF Asked, NewSession, Prompt

\* The shape, when one goroutine takes a step.
LEMMA ShapeStep ==
  ASSUME Shape, NEW a \in Actors, NEW w, NEW c, NEW k, NEW f, Placed(a, w, c, k, f),
         act'[a].kill \in BOOLEAN, act'[a].follow \in BOOLEAN, reuse' = reuse,
         \A q \in asked' : q \in asked \/ Asked(q)
  PROVE  Shape'
  BY DEF Shape, Placed, Asked

\* No step breaks it.
LEMMA NextInv == IInv /\ [Next]_vars => IInv'
<1> SUFFICES ASSUME IInv, [Next]_vars PROVE IInv'
  OBVIOUS
<1> USE DEF IInv, schedVars, routerVars, histVars, bounds
<1>1. ASSUME NEW r \in Convs, Tick(r) PROVE IInv'
  <2>1. /\ act[Run(r)].at = "idle"
        /\ ~running
        /\ running' = TRUE
        /\ UNCHANGED <<reuse, reusable, inflight, reg, opened, failed, dead, asked,
             upset>>
    BY <1>1 DEF Tick, At
  <2>2. Placed(Run(r), "acquire", act[Run(r)].conv, act[Run(r)].kill, act[Run(r)].follow)
    BY <1>1, <2>1, Moves, Names DEF Tick
  <2>3. \A x \in Convs : Born(x) => Born(x)'
    BY <2>2, BornStays, Names, <2>1 DEF Born
  <2>4. Shape'
    <3>1. act'[Run(r)].kill \in BOOLEAN /\ act'[Run(r)].follow \in BOOLEAN
      BY <2>2, Names DEF Placed, Shape
    <3> QED
      BY <2>1, <2>2, <3>1, ShapeStep, Names, Requests DEF Shape
  <2>5. Roles'
    <3>1. Births'
      BY <2>1, <2>3, BirthsStay
    <3>2. RoleOf(Run(r))'
      BY <2>1, <2>2, <2>3, Names DEF Placed, Shape, Roles, RoleOf, At, Busy, Ending, Born
    <3> QED
      BY <2>1, <2>2, <2>3, <3>1, <3>2, RolesStep, Names
  <2>6. Turned'
    <3>1. Turns' \subseteq Turns
      BY <2>1 DEF Turns
    <3>2. ~reuse => \A x \in Convs : Over(x) => Over(x)'
      BY <2>1, <2>2, <3>1, OverStays, Names DEF Silent, Placed, Ending
    <3>3. /\ Run(r) \in Actors /\ Run(r)[1] = "run" /\ act[Run(r)].at # "done"
          /\ reuse => ~act[Run(r)].kill
          /\ act[Run(r)].at \in {"woken", "send", "ask"} => act[Run(r)].conv \in opened
      BY <2>1, Names DEF Turned
    <3>8. TurnKeeps(Run(r), "acquire",
                    act[Run(r)].conv, act[Run(r)].kill, act[Run(r)].follow)
      BY <2>1, <2>2, <3>1, <3>2, <3>3, Names DEF TurnKeeps, Turned, At
    <3> QED
      BY <2>1, <3>8, TurnedStep, Names
  <2>7. One'
    <3> SUFFICES ASSUME upset' = {} PROVE Single' /\ Marked' /\ Quiet' /\ (reuse' => Kept')
      BY DEF One
    <3>0. upset = {} /\ Single /\ Marked /\ Quiet /\ (reuse => Kept)
      BY <2>1 DEF One
    <3>1. Turns' \subseteq Turns
      BY <2>1 DEF Turns
    <3>2. Single'
      <4>1. \A b \in Actors : ~Working(b)
        BY <2>1, <3>0 DEF Marked
      <4>2. \A b \in Actors \ {Run(r)} : ~Working(b)'
        BY <2>1, <2>2, <4>1, WorkStep, Names
      <4>3. Turns' = {}
        BY <2>1, <3>0, <3>1 DEF Marked
      <4> QED
        BY <4>2, <4>3 DEF Single
    <3>3. Marked'
      BY <2>1, <2>2, <3>0, <3>1, Names DEF Marked, Placed, Working, Busy, Handed, At
    <3>4. Quiet'
      BY <2>1, <2>2, <3>0, Names DEF Quiet, Placed, At
    <3>5. reuse' => Kept'
      BY <2>1, <2>2, <3>0, Names DEF Kept, Placed, At
    <3> QED
      BY <3>2, <3>3, <3>4, <3>5
  <2> QED
    BY <2>4, <2>5, <2>6, <2>7 DEF IInv
<1>2. ASSUME NEW r \in Convs, RunFails(r) PROVE IInv'
  <2>1. /\ act[Run(r)].at = "acquire"
        /\ running' = FALSE
        /\ UNCHANGED <<reuse, reusable, inflight, reg, opened, failed, dead, asked,
             upset>>
    BY <1>2 DEF RunFails, At
  <2>2. Placed(Run(r), "done", act[Run(r)].conv, act[Run(r)].kill, act[Run(r)].follow)
    BY <1>2, <2>1, Moves, Names DEF RunFails
  <2>3. \A x \in Convs : Born(x) => Born(x)'
    BY <2>2, BornStays, Names, <2>1 DEF Born
  <2>4. Shape'
    <3>1. act'[Run(r)].kill \in BOOLEAN /\ act'[Run(r)].follow \in BOOLEAN
      BY <2>2, Names DEF Placed, Shape
    <3> QED
      BY <2>1, <2>2, <3>1, ShapeStep, Names, Requests DEF Shape
  <2>5. Roles'
    <3>1. Births'
      BY <2>1, <2>3, BirthsStay
    <3>2. RoleOf(Run(r))'
      BY <2>1, <2>2, <2>3, Names DEF Placed, Shape, Roles, RoleOf, At, Busy, Ending, Born
    <3> QED
      BY <2>1, <2>2, <2>3, <3>1, <3>2, RolesStep, Names
  <2>6. Turned'
    <3>1. Turns' \subseteq Turns
      BY <2>1 DEF Turns
    <3>2. ~reuse => \A x \in Convs : Over(x) => Over(x)'
      BY <2>1, <2>2, <3>1, OverStays, Names DEF Silent, Placed, Ending
    <3>3. /\ Run(r) \in Actors /\ Run(r)[1] = "run" /\ act[Run(r)].at # "done"
          /\ reuse => ~act[Run(r)].kill
          /\ act[Run(r)].at \in {"woken", "send", "ask"} => act[Run(r)].conv \in opened
      BY <2>1, Names DEF Turned
    <3>8. TurnKeeps(Run(r), "done",
                    act[Run(r)].conv, act[Run(r)].kill, act[Run(r)].follow)
      BY <2>1, <2>2, <3>1, <3>2, <3>3, Names DEF TurnKeeps, Turned, At
    <3> QED
      BY <2>1, <3>8, TurnedStep, Names
  <2>7. One'
    <3> SUFFICES ASSUME upset' = {} PROVE Single' /\ Marked' /\ Quiet' /\ (reuse' => Kept')
      BY DEF One
    <3>0. upset = {} /\ Single /\ Marked /\ Quiet /\ (reuse => Kept)
      BY <2>1 DEF One
    <3>9. Working(Run(r)) /\ ~Working(Run(r))'
      BY <2>1, <2>2, WorkStep, Names DEF Working, Busy
    <3>1. Turns' \subseteq Turns
      BY <2>1 DEF Turns
    <3>2. Single'
      <4>1. \A b \in Actors : Working(b)' => Working(b)
        BY <2>1, <2>2, WorkStep DEF Placed, Working, At, Busy
      <4> QED
        BY <3>0, <3>1, <4>1 DEF Single
    <3>3. Marked'
      <4>1. \A b \in Actors : ~Working(b)'
        BY <2>1, <2>2, <3>0, <3>9, WorkStep, Names DEF Single
      <4>2. Turns' = {}
        BY <2>1, <3>0, <3>1, <3>9, Names DEF Single
      <4> QED
        BY <2>1, <2>2, <3>0, <4>1, <4>2, Names DEF Marked, Placed, Working, Busy, Handed, At
    <3>4. Quiet'
      BY <2>1, <2>2, <3>0, Names DEF Quiet, Placed, At
    <3>5. reuse' => Kept'
      BY <2>1, <2>2, <3>0, Names DEF Kept, Placed, At
    <3> QED
      BY <3>2, <3>3, <3>4, <3>5
  <2> QED
    BY <2>4, <2>5, <2>6, <2>7 DEF IInv
<1>3. ASSUME NEW r \in Convs, RunReuses(r) PROVE IInv'
  <2>1. /\ act[Run(r)].at = "acquire"
        /\ reuse /\ reusable \in reg
        /\ UNCHANGED <<reuse, running, reusable, inflight, reg, opened, failed, dead,
             asked, upset>>
    BY <1>3 DEF RunReuses, At
  <2>2. Placed(Run(r), "hand", reusable, act[Run(r)].kill, act[Run(r)].follow)
    BY <1>3, <2>1, Takes, Names DEF RunReuses
  <2>3. \A x \in Convs : Born(x) => Born(x)'
    BY <2>2, BornStays, Names, <2>1 DEF Born
  <2>4. Shape'
    <3>1. act'[Run(r)].kill \in BOOLEAN /\ act'[Run(r)].follow \in BOOLEAN
      BY <2>2, Names DEF Placed, Shape
    <3> QED
      BY <2>1, <2>2, <3>1, ShapeStep, Names, Requests DEF Shape
  <2>5. Roles'
    <3>1. Births'
      BY <2>1, <2>3, BirthsStay
    <3>2. RoleOf(Run(r))'
      <4>1. reusable \in Convs /\ Born(reusable)'
        BY <2>1, <2>3 DEF Roles, Births
      <4>2. RoleOf(Run(r)) /\ Run(r)[1] = "run"
        BY Names DEF Roles
      <4> QED
        BY <2>1, <2>2, <4>1, <4>2, Names DEF Placed, RoleOf, At, Busy, Ending
    <3> QED
      BY <2>1, <2>2, <2>3, <3>1, <3>2, RolesStep, Names
  <2>6. Turned'
    <3>1. Turns' \subseteq Turns
      BY <2>1 DEF Turns
    <3>2. ~reuse => \A x \in Convs : Over(x) => Over(x)'
      BY <2>1, <2>2, <3>1, OverStays, Names DEF Silent, Placed, Ending
    <3>3. /\ Run(r) \in Actors /\ Run(r)[1] = "run" /\ act[Run(r)].at # "done"
          /\ reuse => ~act[Run(r)].kill
          /\ act[Run(r)].at \in {"woken", "send", "ask"} => act[Run(r)].conv \in opened
      BY <2>1, Names DEF Turned
    <3>8. TurnKeeps(Run(r), "hand", reusable, act[Run(r)].kill, act[Run(r)].follow)
      BY <2>1, <2>2, <3>1, <3>2, <3>3, Names DEF TurnKeeps, Turned, At
    <3> QED
      BY <2>1, <3>8, TurnedStep, Names
  <2>7. One'
    <3> SUFFICES ASSUME upset' = {} PROVE Single' /\ Marked' /\ Quiet' /\ (reuse' => Kept')
      BY DEF One
    <3>0. upset = {} /\ Single /\ Marked /\ Quiet /\ (reuse => Kept)
      BY <2>1 DEF One
    <3>1. Turns' \subseteq Turns
      BY <2>1 DEF Turns
    <3>2. Single'
      <4>1. \A b \in Actors : Working(b)' => Working(b)
        BY <2>1, <2>2, WorkStep DEF Placed, Working, At, Busy
      <4> QED
        BY <3>0, <3>1, <4>1 DEF Single
    <3>3. Marked'
      BY <2>1, <2>2, <3>0, <3>1, Names DEF Marked, Placed, Working, Busy, Handed, At
    <3>4. Quiet'
      BY <2>1, <2>2, <3>0, Names DEF Quiet, Placed, At
    <3>5. reuse' => Kept'
      BY <2>1, <2>2, <3>0, Names DEF Kept, Placed, At
    <3> QED
      BY <3>2, <3>3, <3>4, <3>5
  <2> QED
    BY <2>4, <2>5, <2>6, <2>7 DEF IInv
<1>4. ASSUME NEW r \in Convs, RunCreates(r) PROVE IInv'
  <2>1. /\ act[Run(r)].at = "acquire"
        /\ reuse => reusable \notin reg
        /\ reg' = reg \cup {r}
        /\ asked' = asked \cup {NewSession(r)}
        /\ UNCHANGED <<reuse, running, reusable, inflight, opened, failed, dead, upset>>
    BY <1>4 DEF RunCreates, At
  <2>2. Placed(Run(r), IF reuse THEN "record" ELSE "hand",
               r, act[Run(r)].kill, act[Run(r)].follow)
    BY <1>4, <2>1, Takes, Names DEF RunCreates
  <2>3. \A x \in Convs : Born(x) => Born(x)'
    BY <2>2, BornStays, Names, <2>1 DEF Born
  <2>4. Shape'
    <3>1. act'[Run(r)].kill \in BOOLEAN /\ act'[Run(r)].follow \in BOOLEAN
      BY <2>2, Names DEF Placed, Shape
    <3> QED
      BY <2>1, <2>2, <3>1, ShapeStep, Names, Requests DEF Shape
  <2>5. Roles'
    <3>1. Births'
      <4>1. Born(r)'
        BY <2>1, <2>2 DEF Placed, Born
      <4> QED
        BY <2>1, <2>3, <4>1, Requests DEF Roles, Births, Shape, Asked
    <3>2. RoleOf(Run(r))'
      BY <2>1, <2>2, <2>3, Names DEF Placed, Shape, Roles, RoleOf, At, Busy, Ending, Born
    <3>3. ~Born(r)
      BY <2>1 DEF Born
    <3> QED
      BY <2>1, <2>2, <2>3, <3>1, <3>2, RolesStep, Names, <3>3
  <2>6. Turned'
    <3>1. Turns' \subseteq Turns
      BY <2>1, Requests DEF Turns
    <3>2. ~reuse => \A x \in Convs : Over(x) => Over(x)'
      BY <2>1, <2>2, <3>1, OverStays, Names DEF Silent, Placed, Ending
    <3>4. r \notin opened
      BY <2>1 DEF Roles, Births, Born
    <3>5. \A x \in Convs : NewSession(x) \in asked' => x \notin opened'
      BY <2>1, <3>4, Requests DEF Turned
    <3>6. \A x \in Convs : Prompt(x, 0) \in asked' => Prompt(x, 0) \in asked
      BY <2>1, Requests
    <3>3. /\ Run(r) \in Actors /\ Run(r)[1] = "run" /\ act[Run(r)].at # "done"
          /\ reuse => ~act[Run(r)].kill
          /\ act[Run(r)].at \in {"woken", "send", "ask"} => act[Run(r)].conv \in opened
      BY <2>1, Names DEF Turned
    <3>8. TurnKeeps(Run(r), IF reuse THEN "record" ELSE "hand",
                    r, act[Run(r)].kill, act[Run(r)].follow)
      BY <2>1, <2>2, <3>1, <3>2, <3>3, <3>5, <3>6, Names DEF TurnKeeps, Turned, At
    <3> QED
      BY <2>1, <3>8, TurnedStep, Names
  <2>7. One'
    <3> SUFFICES ASSUME upset' = {} PROVE Single' /\ Marked' /\ Quiet' /\ (reuse' => Kept')
      BY DEF One
    <3>0. upset = {} /\ Single /\ Marked /\ Quiet /\ (reuse => Kept)
      BY <2>1 DEF One
    <3>1. Turns' \subseteq Turns
      BY <2>1, Requests DEF Turns
    <3>2. Single'
      <4>1. \A b \in Actors : Working(b)' => Working(b)
        BY <2>1, <2>2, WorkStep DEF Placed, Working, At, Busy
      <4> QED
        BY <3>0, <3>1, <4>1 DEF Single
    <3>3. Marked'
      BY <2>1, <2>2, <3>0, <3>1, Names DEF Marked, Placed, Working, Busy, Handed, At
    <3>4. Quiet'
      <4>1. r \notin dead
        BY <2>1 DEF Roles, Births, Born
      <4> QED
        BY <2>1, <2>2, <3>0, <4>1, Names, Requests DEF Quiet, Placed, At
    <3>5. reuse' => Kept'
      <4> SUFFICES ASSUME reuse PROVE Kept'
        BY <2>1
      <4>1. ASSUME NEW s \in Convs PROVE act[Run(s)].at # "record"
        <5>1. CASE s = r
          BY <2>1, <5>1
        <5>2. CASE s # r
          BY <2>1, <3>0, <5>2, Names DEF Single, Working, Busy
        <5> QED
          BY <5>1, <5>2
      <4>2. reg' = {r}
        BY <2>1, <3>0, <4>1 DEF Kept, At
      <4>3. act'[Run(r)].at = "record" /\ act'[Run(r)].conv = r
        BY <2>1, <2>2 DEF Placed
      <4>4. \A s \in Convs : s # r => act'[Run(s)].at # "record"
        BY <2>2, <4>1, Names DEF Placed
      <4> QED
        BY <4>2, <4>3, <4>4 DEF Kept, At
    <3> QED
      BY <3>2, <3>3, <3>4, <3>5
  <2> QED
    BY <2>4, <2>5, <2>6, <2>7 DEF IInv
<1>5. ASSUME NEW r \in Convs, RunRecords(r) PROVE IInv'
  <2>1. /\ act[Run(r)].at = "record"
        /\ reusable' = act[Run(r)].conv
        /\ UNCHANGED <<reuse, running, inflight, reg, opened, failed, dead, asked,
             upset>>
    BY <1>5 DEF RunRecords, At
  <2>2. Placed(Run(r), "hand", act[Run(r)].conv, act[Run(r)].kill, act[Run(r)].follow)
    BY <1>5, <2>1, Moves, Names DEF RunRecords
  <2>3. \A x \in Convs : Born(x) => Born(x)'
    BY <2>2, BornStays, Names, <2>1 DEF Born
  <2>4. Shape'
    <3>1. act'[Run(r)].kill \in BOOLEAN /\ act'[Run(r)].follow \in BOOLEAN
      BY <2>2, Names DEF Placed, Shape
    <3> QED
      BY <2>1, <2>2, <3>1, ShapeStep, Names, Requests DEF Shape
  <2>5. Roles'
    <3>1. Births'
      BY <2>1, <2>3, BirthsStay
    <3>2. RoleOf(Run(r))'
      BY <2>1, <2>2, <2>3, Names DEF Placed, Shape, Roles, RoleOf, At, Busy, Ending, Born
    <3> QED
      BY <2>1, <2>2, <2>3, <3>1, <3>2, RolesStep, Names
  <2>6. Turned'
    <3>1. Turns' \subseteq Turns
      BY <2>1 DEF Turns
    <3>2. ~reuse => \A x \in Convs : Over(x) => Over(x)'
      BY <2>1, <2>2, <3>1, OverStays, Names DEF Silent, Placed, Ending
    <3>3. /\ Run(r) \in Actors /\ Run(r)[1] = "run" /\ act[Run(r)].at # "done"
          /\ reuse => ~act[Run(r)].kill
          /\ act[Run(r)].at \in {"woken", "send", "ask"} => act[Run(r)].conv \in opened
      BY <2>1, Names DEF Turned
    <3>8. TurnKeeps(Run(r), "hand",
                    act[Run(r)].conv, act[Run(r)].kill, act[Run(r)].follow)
      BY <2>1, <2>2, <3>1, <3>2, <3>3, Names DEF TurnKeeps, Turned, At
    <3> QED
      BY <2>1, <3>8, TurnedStep, Names
  <2>7. One'
    <3> SUFFICES ASSUME upset' = {} PROVE Single' /\ Marked' /\ Quiet' /\ (reuse' => Kept')
      BY DEF One
    <3>0. upset = {} /\ Single /\ Marked /\ Quiet /\ (reuse => Kept)
      BY <2>1 DEF One
    <3>1. Turns' \subseteq Turns
      BY <2>1 DEF Turns
    <3>2. Single'
      <4>1. \A b \in Actors : Working(b)' => Working(b)
        BY <2>1, <2>2, WorkStep DEF Placed, Working, At, Busy
      <4> QED
        BY <3>0, <3>1, <4>1 DEF Single
    <3>3. Marked'
      BY <2>1, <2>2, <3>0, <3>1, Names DEF Marked, Placed, Working, Busy, Handed, At
    <3>4. Quiet'
      BY <2>1, <2>2, <3>0, Names DEF Quiet, Placed, At
    <3>5. reuse' => Kept'
      BY <2>1, <2>2, <3>0, Names DEF Kept, Placed, At
    <3> QED
      BY <3>2, <3>3, <3>4, <3>5
  <2> QED
    BY <2>4, <2>5, <2>6, <2>7 DEF IInv
<1>6. ASSUME NEW r \in Convs, RunHands(r) PROVE IInv'
  <2>1. /\ act[Run(r)].at = "hand"
        /\ inflight' = inflight \cup {act[Run(r)].conv}
        /\ UNCHANGED <<reuse, running, reusable, reg, opened, failed, dead, asked,
             upset>>
    BY <1>6 DEF RunHands, At
  <2>2. Placed(Run(r), "look", act[Run(r)].conv, act[Run(r)].kill, act[Run(r)].follow)
    BY <1>6, <2>1, Moves, Names DEF RunHands
  <2>3. \A x \in Convs : Born(x) => Born(x)'
    BY <2>2, BornStays, Names, <2>1 DEF Born
  <2>4. Shape'
    <3>1. act'[Run(r)].kill \in BOOLEAN /\ act'[Run(r)].follow \in BOOLEAN
      BY <2>2, Names DEF Placed, Shape
    <3> QED
      BY <2>1, <2>2, <3>1, ShapeStep, Names, Requests DEF Shape
  <2>5. Roles'
    <3>1. Births'
      BY <2>1, <2>3, BirthsStay
    <3>2. RoleOf(Run(r))'
      BY <2>1, <2>2, <2>3, Names DEF Placed, Shape, Roles, RoleOf, At, Busy, Ending, Born
    <3> QED
      BY <2>1, <2>2, <2>3, <3>1, <3>2, RolesStep, Names
  <2>6. Turned'
    <3>1. Turns' \subseteq Turns
      BY <2>1 DEF Turns
    <3>2. ~reuse => \A x \in Convs : Over(x) => Over(x)'
      BY <2>1, <2>2, <3>1, OverStays, Names DEF Silent, Placed, Ending
    <3>3. /\ Run(r) \in Actors /\ Run(r)[1] = "run" /\ act[Run(r)].at # "done"
          /\ reuse => ~act[Run(r)].kill
          /\ act[Run(r)].at \in {"woken", "send", "ask"} => act[Run(r)].conv \in opened
      BY <2>1, Names DEF Turned
    <3>8. TurnKeeps(Run(r), "look",
                    act[Run(r)].conv, act[Run(r)].kill, act[Run(r)].follow)
      BY <2>1, <2>2, <3>1, <3>2, <3>3, Names DEF TurnKeeps, Turned, At
    <3> QED
      BY <2>1, <3>8, TurnedStep, Names
  <2>7. One'
    <3> SUFFICES ASSUME upset' = {} PROVE Single' /\ Marked' /\ Quiet' /\ (reuse' => Kept')
      BY DEF One
    <3>0. upset = {} /\ Single /\ Marked /\ Quiet /\ (reuse => Kept)
      BY <2>1 DEF One
    <3>9. ASSUME NEW b \in Actors, act[b].at \in {"receive", "delete"},
                 act[b].conv = act[Run(r)].conv
          PROVE  reuse /\ act[b].at = "receive"
      <4>1. b[1] # "watch"
        BY <2>1, <3>0, <3>9, Names DEF Quiet, At
      <4>2. CASE reuse
        BY <3>9, <4>1, <4>2 DEF Turned
      <4>3. CASE ~reuse
        <5>1. act[Run(r)].conv = r /\ act[b].conv = b[2]
          BY <2>1, <3>9, <4>1, <4>3, Names DEF Roles, RoleOf
        <5>2. b = Loop(r)
          BY <2>1, <3>9, <4>1, <5>1, Names
        <5>3. Silent(r)
          BY <3>9, <4>3, <5>2 DEF Turned, Over, At
        <5> QED
          BY <2>1, <3>0, <5>3 DEF Silent, Quiet, Ending
      <4> QED
        BY <4>2, <4>3
    <3>1. Turns' \subseteq Turns
      BY <2>1 DEF Turns
    <3>2. Single'
      <4>1. \A b \in Actors : Working(b)' => Working(b)
        <5> SUFFICES ASSUME NEW b \in Actors, Working(b)' PROVE Working(b)
          OBVIOUS
        <5>1. CASE b = Run(r)
          BY <2>1, <5>1 DEF Working, Busy
        <5>2. CASE b # Run(r)
          BY <2>1, <2>2, <3>0, <3>9, <5>2 DEF Placed, Working, At, Marked
        <5> QED
          BY <5>1, <5>2
      <4> QED
        BY <3>0, <3>1, <4>1 DEF Single
    <3>3. Marked'
      <4>1. Working(Run(r)) /\ running
        BY <2>1, <3>0, Names DEF Working, Busy, Marked
      <4>2. Turns' = {} /\ \A b \in Actors : b # Run(r) => ~Working(b)
        BY <3>0, <3>1, <4>1, Names DEF Single
      <4>3. (\A s \in Convs : act[Run(s)].at \in Handed => act[Run(s)].conv \in inflight)'
        BY <2>1, <2>2, <3>0, Names DEF Marked, Placed, Handed
      <4>4. (\A b \in Actors : /\ reuse /\ At(b, "receive") => act[b].conv \in inflight
                               /\ At(b, "delete") => act[b].conv \notin inflight)'
        BY <2>1, <2>2, <3>0, <3>9, Names DEF Marked, Placed, At
      <4>5. running'
        BY <2>1, <4>1
      <4> QED
        BY <4>2, <4>3, <4>4, <4>5 DEF Marked
    <3>4. Quiet'
      BY <2>1, <2>2, <3>0, Names DEF Quiet, Placed, At
    <3>5. reuse' => Kept'
      BY <2>1, <2>2, <3>0, Names DEF Kept, Placed, At
    <3> QED
      BY <3>2, <3>3, <3>4, <3>5
  <2> QED
    BY <2>4, <2>5, <2>6, <2>7 DEF IInv
<1>7. ASSUME NEW r \in Convs, RunLooks(r) PROVE IInv'
  <2>1. /\ act[Run(r)].at = "look"
        /\ UNCHANGED <<reuse, running, reusable, inflight, reg, opened, failed, dead,
             asked, upset>>
    BY <1>7 DEF RunLooks, At
  <2>2. Placed(Run(r), IF act[Run(r)].conv \in reg THEN "wait" ELSE "finish",
               act[Run(r)].conv, act[Run(r)].kill, act[Run(r)].follow)
    BY <1>7, <2>1, Moves, Names DEF RunLooks
  <2>3. \A x \in Convs : Born(x) => Born(x)'
    BY <2>2, BornStays, Names, <2>1 DEF Born
  <2>4. Shape'
    <3>1. act'[Run(r)].kill \in BOOLEAN /\ act'[Run(r)].follow \in BOOLEAN
      BY <2>2, Names DEF Placed, Shape
    <3> QED
      BY <2>1, <2>2, <3>1, ShapeStep, Names, Requests DEF Shape
  <2>5. Roles'
    <3>1. Births'
      BY <2>1, <2>3, BirthsStay
    <3>2. RoleOf(Run(r))'
      BY <2>1, <2>2, <2>3, Names DEF Placed, Shape, Roles, RoleOf, At, Busy, Ending, Born
    <3> QED
      BY <2>1, <2>2, <2>3, <3>1, <3>2, RolesStep, Names
  <2>6. Turned'
    <3>1. Turns' \subseteq Turns
      BY <2>1 DEF Turns
    <3>2. ~reuse => \A x \in Convs : Over(x) => Over(x)'
      BY <2>1, <2>2, <3>1, OverStays, Names DEF Silent, Placed, Ending
    <3>3. /\ Run(r) \in Actors /\ Run(r)[1] = "run" /\ act[Run(r)].at # "done"
          /\ reuse => ~act[Run(r)].kill
          /\ act[Run(r)].at \in {"woken", "send", "ask"} => act[Run(r)].conv \in opened
      BY <2>1, Names DEF Turned
    <3>8. TurnKeeps(Run(r), IF act[Run(r)].conv \in reg THEN "wait" ELSE "finish",
                    act[Run(r)].conv, act[Run(r)].kill, act[Run(r)].follow)
      BY <2>1, <2>2, <3>1, <3>2, <3>3, Names DEF TurnKeeps, Turned, At
    <3> QED
      BY <2>1, <3>8, TurnedStep, Names
  <2>7. One'
    <3> SUFFICES ASSUME upset' = {} PROVE Single' /\ Marked' /\ Quiet' /\ (reuse' => Kept')
      BY DEF One
    <3>0. upset = {} /\ Single /\ Marked /\ Quiet /\ (reuse => Kept)
      BY <2>1 DEF One
    <3>1. Turns' \subseteq Turns
      BY <2>1 DEF Turns
    <3>2. Single'
      <4>1. \A b \in Actors : Working(b)' => Working(b)
        BY <2>1, <2>2, WorkStep DEF Placed, Working, At, Busy
      <4> QED
        BY <3>0, <3>1, <4>1 DEF Single
    <3>3. Marked'
      BY <2>1, <2>2, <3>0, <3>1, Names DEF Marked, Placed, Working, Busy, Handed, At
    <3>4. Quiet'
      BY <2>1, <2>2, <3>0, Names DEF Quiet, Placed, At
    <3>5. reuse' => Kept'
      BY <2>1, <2>2, <3>0, Names DEF Kept, Placed, At
    <3> QED
      BY <3>2, <3>3, <3>4, <3>5
  <2> QED
    BY <2>4, <2>5, <2>6, <2>7 DEF IInv
<1>8. ASSUME NEW r \in Convs, RunWakes(r) PROVE IInv'
  <2>1. /\ act[Run(r)].at = "wait"
        /\ act[Run(r)].conv \in opened
        /\ UNCHANGED <<reuse, running, reusable, inflight, reg, opened, failed, dead,
             asked, upset>>
    BY <1>8 DEF RunWakes, At
  <2>2. Placed(Run(r), "woken", act[Run(r)].conv, act[Run(r)].kill, act[Run(r)].follow)
    BY <1>8, <2>1, Moves, Names DEF RunWakes
  <2>3. \A x \in Convs : Born(x) => Born(x)'
    BY <2>2, BornStays, Names, <2>1 DEF Born
  <2>4. Shape'
    <3>1. act'[Run(r)].kill \in BOOLEAN /\ act'[Run(r)].follow \in BOOLEAN
      BY <2>2, Names DEF Placed, Shape
    <3> QED
      BY <2>1, <2>2, <3>1, ShapeStep, Names, Requests DEF Shape
  <2>5. Roles'
    <3>1. Births'
      BY <2>1, <2>3, BirthsStay
    <3>2. RoleOf(Run(r))'
      <4>1. RoleOf(Run(r)) /\ Run(r)[1] = "run"
        BY Names DEF Roles
      <4> QED
        BY <2>1, <2>2, <2>3, <4>1, Names DEF Placed, RoleOf, At, Busy, Ending, Born
    <3> QED
      BY <2>1, <2>2, <2>3, <3>1, <3>2, RolesStep, Names
  <2>6. Turned'
    <3>1. Turns' \subseteq Turns
      BY <2>1 DEF Turns
    <3>2. ~reuse => \A x \in Convs : Over(x) => Over(x)'
      BY <2>1, <2>2, <3>1, OverStays, Names DEF Silent, Placed, Ending
    <3>3. /\ Run(r) \in Actors /\ Run(r)[1] = "run" /\ act[Run(r)].at # "done"
          /\ reuse => ~act[Run(r)].kill
          /\ act[Run(r)].at \in {"woken", "send", "ask"} => act[Run(r)].conv \in opened
      BY <2>1, Names DEF Turned
    <3>8. TurnKeeps(Run(r), "woken",
                    act[Run(r)].conv, act[Run(r)].kill, act[Run(r)].follow)
      BY <2>1, <2>2, <3>1, <3>2, <3>3, Names DEF TurnKeeps, Turned, At
    <3> QED
      BY <2>1, <3>8, TurnedStep, Names
  <2>7. One'
    <3> SUFFICES ASSUME upset' = {} PROVE Single' /\ Marked' /\ Quiet' /\ (reuse' => Kept')
      BY DEF One
    <3>0. upset = {} /\ Single /\ Marked /\ Quiet /\ (reuse => Kept)
      BY <2>1 DEF One
    <3>1. Turns' \subseteq Turns
      BY <2>1 DEF Turns
    <3>2. Single'
      <4>1. \A b \in Actors : Working(b)' => Working(b)
        BY <2>1, <2>2, WorkStep DEF Placed, Working, At, Busy
      <4> QED
        BY <3>0, <3>1, <4>1 DEF Single
    <3>3. Marked'
      BY <2>1, <2>2, <3>0, <3>1, Names DEF Marked, Placed, Working, Busy, Handed, At
    <3>4. Quiet'
      BY <2>1, <2>2, <3>0, Names DEF Quiet, Placed, At
    <3>5. reuse' => Kept'
      BY <2>1, <2>2, <3>0, Names DEF Kept, Placed, At
    <3> QED
      BY <3>2, <3>3, <3>4, <3>5
  <2> QED
    BY <2>4, <2>5, <2>6, <2>7 DEF IInv
<1>9. ASSUME NEW r \in Convs, RunIsReady(r) PROVE IInv'
  <2>1. /\ act[Run(r)].at = "woken"
        /\ UNCHANGED <<reuse, running, reusable, inflight, reg, opened, failed, dead,
             asked, upset>>
    BY <1>9 DEF RunIsReady, At
  <2>2. Placed(Run(r), IF act[Run(r)].conv \in failed THEN "finish" ELSE "send",
               act[Run(r)].conv, act[Run(r)].kill, act[Run(r)].follow)
    BY <1>9, <2>1, Moves, Names DEF RunIsReady
  <2>3. \A x \in Convs : Born(x) => Born(x)'
    BY <2>2, BornStays, Names, <2>1 DEF Born
  <2>4. Shape'
    <3>1. act'[Run(r)].kill \in BOOLEAN /\ act'[Run(r)].follow \in BOOLEAN
      BY <2>2, Names DEF Placed, Shape
    <3> QED
      BY <2>1, <2>2, <3>1, ShapeStep, Names, Requests DEF Shape
  <2>5. Roles'
    <3>1. Births'
      BY <2>1, <2>3, BirthsStay
    <3>2. RoleOf(Run(r))'
      BY <2>1, <2>2, <2>3, Names DEF Placed, Shape, Roles, RoleOf, At, Busy, Ending, Born
    <3> QED
      BY <2>1, <2>2, <2>3, <3>1, <3>2, RolesStep, Names
  <2>6. Turned'
    <3>1. Turns' \subseteq Turns
      BY <2>1 DEF Turns
    <3>2. ~reuse => \A x \in Convs : Over(x) => Over(x)'
      <4> SUFFICES ASSUME ~reuse PROVE \A x \in Convs : Over(x) => Over(x)'
        OBVIOUS
      <4>1. act[Run(r)].conv = r
        BY <2>1, Names DEF Roles, RoleOf
      <4>2. Silent(r) => Silent(r)'
        BY <2>1, <2>2, <4>1 DEF Silent, Placed, Ending
      <4> QED
        BY <2>1, <2>2, <3>1, <4>2, OverStays, Names
    <3>3. /\ Run(r) \in Actors /\ Run(r)[1] = "run" /\ act[Run(r)].at # "done"
          /\ reuse => ~act[Run(r)].kill
          /\ act[Run(r)].at \in {"woken", "send", "ask"} => act[Run(r)].conv \in opened
      BY <2>1, Names DEF Turned
    <3>8. TurnKeeps(Run(r), IF act[Run(r)].conv \in failed THEN "finish" ELSE "send",
                    act[Run(r)].conv, act[Run(r)].kill, act[Run(r)].follow)
      BY <2>1, <2>2, <3>1, <3>2, <3>3, Names DEF TurnKeeps, Turned, At
    <3> QED
      BY <2>1, <3>8, TurnedStep, Names
  <2>7. One'
    <3> SUFFICES ASSUME upset' = {} PROVE Single' /\ Marked' /\ Quiet' /\ (reuse' => Kept')
      BY DEF One
    <3>0. upset = {} /\ Single /\ Marked /\ Quiet /\ (reuse => Kept)
      BY <2>1 DEF One
    <3>1. Turns' \subseteq Turns
      BY <2>1 DEF Turns
    <3>2. Single'
      <4>1. \A b \in Actors : Working(b)' => Working(b)
        BY <2>1, <2>2, WorkStep DEF Placed, Working, At, Busy
      <4> QED
        BY <3>0, <3>1, <4>1 DEF Single
    <3>3. Marked'
      BY <2>1, <2>2, <3>0, <3>1, Names DEF Marked, Placed, Working, Busy, Handed, At
    <3>4. Quiet'
      BY <2>1, <2>2, <3>0, Names DEF Quiet, Placed, At
    <3>5. reuse' => Kept'
      BY <2>1, <2>2, <3>0, Names DEF Kept, Placed, At
    <3> QED
      BY <3>2, <3>3, <3>4, <3>5
  <2> QED
    BY <2>4, <2>5, <2>6, <2>7 DEF IInv
<1>10. ASSUME NEW r \in Convs, RunSends(r) PROVE IInv'
  <2>1. /\ act[Run(r)].at = "send"
        /\ UNCHANGED <<reuse, running, reusable, inflight, reg, opened, failed, dead,
             asked, upset>>
    BY <1>10 DEF RunSends, At
  <2>2. Placed(Run(r), IF act[Run(r)].conv \in reg THEN "ask" ELSE "finish",
               act[Run(r)].conv, act[Run(r)].kill, act[Run(r)].follow)
    BY <1>10, <2>1, Moves, Names DEF RunSends
  <2>3. \A x \in Convs : Born(x) => Born(x)'
    BY <2>2, BornStays, Names, <2>1 DEF Born
  <2>4. Shape'
    <3>1. act'[Run(r)].kill \in BOOLEAN /\ act'[Run(r)].follow \in BOOLEAN
      BY <2>2, Names DEF Placed, Shape
    <3> QED
      BY <2>1, <2>2, <3>1, ShapeStep, Names, Requests DEF Shape
  <2>5. Roles'
    <3>1. Births'
      BY <2>1, <2>3, BirthsStay
    <3>2. RoleOf(Run(r))'
      BY <2>1, <2>2, <2>3, Names DEF Placed, Shape, Roles, RoleOf, At, Busy, Ending, Born
    <3> QED
      BY <2>1, <2>2, <2>3, <3>1, <3>2, RolesStep, Names
  <2>6. Turned'
    <3>1. Turns' \subseteq Turns
      BY <2>1 DEF Turns
    <3>2. ~reuse => \A x \in Convs : Over(x) => Over(x)'
      BY <2>1, <2>2, <3>1, OverStays, Names DEF Silent, Placed, Ending
    <3>3. /\ Run(r) \in Actors /\ Run(r)[1] = "run" /\ act[Run(r)].at # "done"
          /\ reuse => ~act[Run(r)].kill
          /\ act[Run(r)].at \in {"woken", "send", "ask"} => act[Run(r)].conv \in opened
      BY <2>1, Names DEF Turned
    <3>8. TurnKeeps(Run(r), IF act[Run(r)].conv \in reg THEN "ask" ELSE "finish",
                    act[Run(r)].conv, act[Run(r)].kill, act[Run(r)].follow)
      BY <2>1, <2>2, <3>1, <3>2, <3>3, Names DEF TurnKeeps, Turned, At
    <3> QED
      BY <2>1, <3>8, TurnedStep, Names
  <2>7. One'
    <3> SUFFICES ASSUME upset' = {} PROVE Single' /\ Marked' /\ Quiet' /\ (reuse' => Kept')
      BY DEF One
    <3>0. upset = {} /\ Single /\ Marked /\ Quiet /\ (reuse => Kept)
      BY <2>1 DEF One
    <3>1. Turns' \subseteq Turns
      BY <2>1 DEF Turns
    <3>2. Single'
      <4>1. \A b \in Actors : Working(b)' => Working(b)
        BY <2>1, <2>2, WorkStep DEF Placed, Working, At, Busy
      <4> QED
        BY <3>0, <3>1, <4>1 DEF Single
    <3>3. Marked'
      BY <2>1, <2>2, <3>0, <3>1, Names DEF Marked, Placed, Working, Busy, Handed, At
    <3>4. Quiet'
      BY <2>1, <2>2, <3>0, Names DEF Quiet, Placed, At
    <3>5. reuse' => Kept'
      BY <2>1, <2>2, <3>0, Names DEF Kept, Placed, At
    <3> QED
      BY <3>2, <3>3, <3>4, <3>5
  <2> QED
    BY <2>4, <2>5, <2>6, <2>7 DEF IInv
<1>11. ASSUME NEW r \in Convs, RunAsks(r) PROVE IInv'
  <2>1. CASE act[Run(r)].conv \in dead
    <3>1. /\ act[Run(r)].at = "ask"
          /\ UNCHANGED <<reuse, running, reusable, inflight, reg, opened, failed,
               dead, asked, upset>>
      BY <1>11, <2>1 DEF RunAsks, At
    <3>2. Placed(Run(r), "finish", act[Run(r)].conv, act[Run(r)].kill, act[Run(r)].follow)
      BY <1>11, <2>1, <3>1, Moves, Names DEF RunAsks
    <3>3. \A x \in Convs : Born(x) => Born(x)'
      BY <3>2, BornStays, Names, <3>1 DEF Born
    <3>4. Shape'
      <4>1. act'[Run(r)].kill \in BOOLEAN /\ act'[Run(r)].follow \in BOOLEAN
        BY <3>2, Names DEF Placed, Shape
      <4> QED
        BY <3>1, <3>2, <4>1, ShapeStep, Names, Requests DEF Shape
    <3>5. Roles'
      <4>1. Births'
        BY <3>1, <3>3, BirthsStay
      <4>2. RoleOf(Run(r))'
        BY <3>1, <3>2, <3>3, Names DEF Placed, Shape, Roles, RoleOf, At, Busy, Ending, Born
      <4> QED
        BY <3>1, <3>2, <3>3, <4>1, <4>2, RolesStep, Names
    <3>6. Turned'
      <4>1. Turns' \subseteq Turns
        BY <3>1 DEF Turns
      <4>2. ~reuse => \A x \in Convs : Over(x) => Over(x)'
        BY <3>1, <3>2, <4>1, OverStays, Names DEF Silent, Placed, Ending
      <4>3. /\ Run(r) \in Actors /\ Run(r)[1] = "run" /\ act[Run(r)].at # "done"
            /\ reuse => ~act[Run(r)].kill
            /\ act[Run(r)].at \in {"woken", "send", "ask"} => act[Run(r)].conv \in opened
        BY <3>1, Names DEF Turned
      <4>8. TurnKeeps(Run(r), "finish",
                      act[Run(r)].conv, act[Run(r)].kill, act[Run(r)].follow)
        BY <3>1, <3>2, <4>1, <4>2, <4>3, Names DEF TurnKeeps, Turned, At
      <4> QED
        BY <3>1, <4>8, TurnedStep, Names
    <3>7. One'
      <4> SUFFICES ASSUME upset' = {} PROVE Single' /\ Marked' /\ Quiet' /\ (reuse' => Kept')
        BY DEF One
      <4>0. upset = {} /\ Single /\ Marked /\ Quiet /\ (reuse => Kept)
        BY <3>1 DEF One
      <4>1. Turns' \subseteq Turns
        BY <3>1 DEF Turns
      <4>2. Single'
        <5>1. \A b \in Actors : Working(b)' => Working(b)
          BY <3>1, <3>2, WorkStep DEF Placed, Working, At, Busy
        <5> QED
          BY <4>0, <4>1, <5>1 DEF Single
      <4>3. Marked'
        BY <3>1, <3>2, <4>0, <4>1, Names DEF Marked, Placed, Working, Busy, Handed, At
      <4>4. Quiet'
        BY <3>1, <3>2, <4>0, Names DEF Quiet, Placed, At
      <4>5. reuse' => Kept'
        BY <3>1, <3>2, <4>0, Names DEF Kept, Placed, At
      <4> QED
        BY <4>2, <4>3, <4>4, <4>5
    <3> QED
      BY <3>4, <3>5, <3>6, <3>7 DEF IInv
  <2>2. CASE act[Run(r)].conv \notin dead
    <3>1. /\ act[Run(r)].at = "ask"
          /\ asked' = asked \cup {Prompt(act[Run(r)].conv, r)}
          /\ act[Run(r)].conv \in Convs /\ (~reuse => act[Run(r)].conv = r)
          /\ UNCHANGED <<reuse, running, reusable, inflight, reg, opened, failed,
               dead, upset>>
      BY <1>11, <2>2, Names DEF RunAsks, At, Roles, RoleOf
    <3>2. Placed(Run(r), "done", act[Run(r)].conv, act[Run(r)].kill, act[Run(r)].follow)
      BY <1>11, <2>2, <3>1, Moves, Names DEF RunAsks
    <3>3. \A x \in Convs : Born(x) => Born(x)'
      BY <3>2, BornStays, Names, <3>1 DEF Born
    <3>4. Shape'
      <4>1. act'[Run(r)].kill \in BOOLEAN /\ act'[Run(r)].follow \in BOOLEAN
        BY <3>2, Names DEF Placed, Shape
      <4> QED
        BY <3>1, <3>2, <4>1, ShapeStep, Names, Requests DEF Shape
    <3>5. Roles'
      <4>1. Births'
        <5>1. Born(act[Run(r)].conv)
          BY <3>1, Names DEF Roles, RoleOf
        <5> QED
          BY <3>1, <3>3, <5>1, Requests DEF Roles, Births, Shape, Asked
      <4>2. RoleOf(Run(r))'
        BY <3>1, <3>2, <3>3, Names DEF Placed, Shape, Roles, RoleOf, At, Busy, Ending, Born
      <4> QED
        BY <3>1, <3>2, <3>3, <4>1, <4>2, RolesStep, Names
    <3>6. Turned'
      <4> DEFINE p == Prompt(act[Run(r)].conv, r)
      <4>1. p.conv = act[Run(r)].conv /\ p.run = r /\ p.of = "prompt" /\ r # 0
        BY <3>1, Requests, Names
      <4> HIDE DEF p
      <4>2. Turns' = Turns \cup {p} /\ asked' = asked \cup {p}
        BY <3>1, <4>1 DEF Turns, p
      <4>3. \A x \in Convs : NewSession(x) \in asked' => x \notin opened'
        BY <3>1, <4>1, <4>2, Requests DEF Turned
      <4>4. \A s \in Convs :
             act'[Run(s)].at \in {"woken", "send", "ask"} => act'[Run(s)].conv \in opened'
        BY <3>1, <3>2, Names DEF Turned, Placed
      <4>5. \A q \in Turns' : /\ q.conv \in opened' /\ act'[Run(q.run)].at = "done"
                              /\ ~reuse => q.run = q.conv
        <5>1. ASSUME NEW q \in Turns PROVE act'[Run(q.run)].at = "done"
          BY <3>1, <3>2, <5>1, Names DEF Turned, Placed, Turns, Shape, Asked, At
        <5>2. act[Run(r)].conv \in opened /\ act'[Run(r)].at = "done"
          BY <3>1, <3>2 DEF Turned, Placed
        <5> QED
          BY <3>1, <4>1, <4>2, <5>1, <5>2 DEF Turned
      <4>6. ASSUME ~reuse, NEW x \in Convs, Prompt(x, 0) \in asked' \/ act'[Loop(x)].at # "idle"
            PROVE  Over(x)'
        <5>1. Over(x)
          BY <3>1, <3>2, <4>1, <4>2, <4>6, Requests, Names DEF Turned, Placed, At
        <5>2. x # r
          BY <3>1, <5>1 DEF Over, Silent, Ending
        <5>3. Silent(x)'
          BY <3>1, <3>2, <5>1, <5>2, Names DEF Over, Silent, Placed
        <5> QED
          BY <3>1, <4>1, <4>2, <4>6, <5>1, <5>2, <5>3 DEF Over
      <4>7. reuse => \A b \in Actors :
              b[1] # "watch" => ~act'[b].kill /\ act'[b].at \notin {"delete", "kill"}
        BY <3>1, <3>2 DEF Turned, Placed
      <4> QED
        BY <3>1, <4>3, <4>4, <4>5, <4>6, <4>7 DEF Turned, At
    <3>7. One'
      <4> SUFFICES ASSUME upset' = {} PROVE Single' /\ Marked' /\ Quiet' /\ (reuse' => Kept')
        BY DEF One
      <4> DEFINE p == Prompt(act[Run(r)].conv, r)
      <4>0. upset = {} /\ Single /\ Marked /\ Quiet /\ (reuse => Kept)
        BY <3>1 DEF One
      <4>1. p.conv = act[Run(r)].conv /\ p.run = r /\ p.of = "prompt" /\ r # 0
        BY <3>1, Requests, Names
      <4> HIDE DEF p
      <4>2. Working(Run(r)) /\ running /\ act[Run(r)].conv \in inflight
        BY <3>1, <4>0, Names DEF Working, Busy, Handed, Marked
      <4>3. \A b \in Actors : ~Working(b)'
        BY <3>1, <3>2, <4>0, <4>2, WorkStep, Names DEF Single, Busy
      <4>4. Turns' = {p} /\ asked' = asked \cup {p}
        <5>1. Turns = {}
          BY <4>0, <4>2, Names DEF Single
        <5> QED
          BY <3>1, <4>1, <5>1 DEF Turns, p
      <4>5. Single'
        BY <4>3, <4>4 DEF Single
      <4>6. Marked'
        BY <3>1, <3>2, <4>0, <4>1, <4>2, <4>3, <4>4, Names DEF Marked, Placed, Handed, At
      <4>7. Quiet'
        BY <3>1, <3>2, <4>0, <4>1, <4>4, Names DEF Quiet, Placed, At
      <4>8. reuse' => Kept'
        BY <3>1, <3>2, <4>0, Names DEF Kept, Placed, At
      <4> QED
        BY <4>5, <4>6, <4>7, <4>8
    <3> QED
      BY <3>4, <3>5, <3>6, <3>7 DEF IInv
  <2> QED
    BY <2>1, <2>2
<1>12. ASSUME NEW a \in Actors, ReceiveLooks(a) PROVE IInv'
  <2>1. CASE act[a].conv \in inflight
    <3>1. /\ act[a].at = "receive"
          /\ act[a].conv \in inflight
          /\ UNCHANGED <<reuse, running, reusable, inflight, reg, opened, failed,
               dead, asked, upset>>
      BY <1>12, <2>1 DEF ReceiveLooks, At
    <3>2. Placed(a, "finish", act[a].conv, act[a].kill, act[a].follow)
      BY <1>12, <2>1, <3>1, Moves, Names DEF ReceiveLooks
    <3>3. \A x \in Convs : Born(x) => Born(x)'
      BY <3>2, BornStays, Names, <3>1 DEF Born
    <3>4. Shape'
      <4>1. act'[a].kill \in BOOLEAN /\ act'[a].follow \in BOOLEAN
        BY <3>2, Names DEF Placed, Shape
      <4> QED
        BY <3>1, <3>2, <4>1, ShapeStep, Names, Requests DEF Shape
    <3>5. Roles'
      <4>1. Births'
        BY <3>1, <3>3, BirthsStay
      <4>2. RoleOf(a)'
        BY <3>1, <3>2, <3>3, Names DEF Placed, Shape, Roles, RoleOf, At, Busy, Ending, Born
      <4> QED
        BY <3>1, <3>2, <3>3, <4>1, <4>2, RolesStep, Names
    <3>6. Turned'
      <4>1. Turns' \subseteq Turns
        BY <3>1 DEF Turns
      <4>2. ~reuse => \A x \in Convs : Over(x) => Over(x)'
        BY <3>1, <3>2, <4>1, OverStays, Names DEF Silent, Placed, Ending
      <4>3. /\ act[a].at # "done" /\ (a[1] = "loop" /\ ~reuse => a[2] \in Convs /\ Over(a[2]))
            /\ a[1] # "watch" /\ reuse => ~act[a].kill /\ act[a].at \notin {"delete", "kill"}
        BY <3>1, Names DEF Turned, At
      <4>8. TurnKeeps(a, "finish", act[a].conv, act[a].kill, act[a].follow)
        BY <3>1, <3>2, <4>1, <4>2, <4>3, Names DEF TurnKeeps, Turned, At
      <4> QED
        BY <3>1, <4>8, TurnedStep, Names
    <3>7. One'
      <4> SUFFICES ASSUME upset' = {} PROVE Single' /\ Marked' /\ Quiet' /\ (reuse' => Kept')
        BY DEF One
      <4>0. upset = {} /\ Single /\ Marked /\ Quiet /\ (reuse => Kept)
        BY <3>1 DEF One
      <4>1. Turns' \subseteq Turns
        BY <3>1 DEF Turns
      <4>2. Single'
        <5>1. \A b \in Actors : Working(b)' => Working(b)
          BY <3>1, <3>2, WorkStep DEF Placed, Working, At, Busy
        <5> QED
          BY <4>0, <4>1, <5>1 DEF Single
      <4>3. Marked'
        BY <3>1, <3>2, <4>0, <4>1, Names DEF Marked, Placed, Working, Busy, Handed, At
      <4>4. Quiet'
        BY <3>1, <3>2, <4>0, Names DEF Quiet, Placed, At
      <4>5. reuse' => Kept'
        BY <3>1, <3>2, <4>0, Names DEF Kept, Placed, At
      <4> QED
        BY <4>2, <4>3, <4>4, <4>5
    <3> QED
      BY <3>4, <3>5, <3>6, <3>7 DEF IInv
  <2>2. CASE act[a].conv \notin inflight
    <3>1. /\ act[a].at = "receive"
          /\ act[a].conv \notin inflight
          /\ UNCHANGED <<reuse, running, reusable, inflight, reg, opened, failed,
               dead, asked, upset>>
      BY <1>12, <2>2 DEF ReceiveLooks, At
    <3>2. PICK w : /\ Placed(a, w, act[a].conv, act[a].kill, act[a].follow)
                   /\ w \in {"kill", "done", "idle", "follow"}
                   /\ w = "kill" <=> act[a].kill
                   /\ a[1] = "run" => w \in {"kill", "done"}
                   /\ a[1] = "loop" => w \in {"kill", "idle", "follow"}
                   /\ a[1] = "watch" => w \in {"kill", "idle"}
      <4>1. Placed(a, Rest(a), act[a].conv, act[a].kill, act[a].follow)
        BY <1>12, <2>2, <3>1, Moves, Names DEF ReceiveLooks
      <4>2. a[1] \in {"run", "loop", "watch"} /\ act[a].kill \in BOOLEAN
        BY Names DEF Shape
      <4> QED
        BY <4>1, <4>2, Returns
    <3>3. \A x \in Convs : Born(x) => Born(x)'
      BY <3>2, BornStays, Names, <3>1 DEF Born
    <3>4. Shape'
      <4>1. act'[a].kill \in BOOLEAN /\ act'[a].follow \in BOOLEAN
        BY <3>2, Names DEF Placed, Shape
      <4> QED
        BY <3>1, <3>2, <4>1, ShapeStep, Names, Requests DEF Shape
    <3>5. Roles'
      <4>1. Births'
        BY <3>1, <3>3, BirthsStay
      <4>2. RoleOf(a)'
        BY <3>1, <3>2, <3>3, Names DEF Placed, Shape, Roles, RoleOf, At, Busy, Ending, Born
      <4> QED
        BY <3>1, <3>2, <3>3, <4>1, <4>2, RolesStep, Names
    <3>6. Turned'
      <4>1. Turns' \subseteq Turns
        BY <3>1 DEF Turns
      <4>2. ~reuse => \A x \in Convs : Over(x) => Over(x)'
        BY <3>1, <3>2, <4>1, OverStays, Names DEF Silent, Placed, Ending
      <4>3. /\ act[a].at # "done" /\ (a[1] = "loop" /\ ~reuse => a[2] \in Convs /\ Over(a[2]))
            /\ a[1] # "watch" /\ reuse => ~act[a].kill /\ act[a].at \notin {"delete", "kill"}
        BY <3>1, Names DEF Turned, At
      <4>8. TurnKeeps(a, w, act[a].conv, act[a].kill, act[a].follow)
        BY <3>1, <3>2, <4>1, <4>2, <4>3, Names DEF TurnKeeps, Turned, At
      <4> QED
        BY <3>1, <4>8, TurnedStep, Names
    <3>7. One'
      <4> SUFFICES ASSUME upset' = {} PROVE Single' /\ Marked' /\ Quiet' /\ (reuse' => Kept')
        BY DEF One
      <4>0. upset = {} /\ Single /\ Marked /\ Quiet /\ (reuse => Kept)
        BY <3>1 DEF One
      <4>1. Turns' \subseteq Turns
        BY <3>1 DEF Turns
      <4>2. Single'
        <5>1. \A b \in Actors : Working(b)' => Working(b)
          BY <3>1, <3>2, WorkStep DEF Placed, Working, At, Busy
        <5> QED
          BY <4>0, <4>1, <5>1 DEF Single
      <4>3. Marked'
        BY <3>1, <3>2, <4>0, <4>1, Names DEF Marked, Placed, Working, Busy, Handed, At
      <4>4. Quiet'
        BY <3>1, <3>2, <4>0, Names DEF Quiet, Placed, At
      <4>5. reuse' => Kept'
        BY <3>1, <3>2, <4>0, Names DEF Kept, Placed, At
      <4> QED
        BY <4>2, <4>3, <4>4, <4>5
    <3> QED
      BY <3>4, <3>5, <3>6, <3>7 DEF IInv
  <2> QED
    BY <2>1, <2>2
<1>13. ASSUME NEW a \in Actors, Finish(a) PROVE IInv'
  <2>1. CASE reuse
    <3>1. /\ act[a].at = "finish"
          /\ reuse
          /\ inflight' = inflight \ {act[a].conv} /\ running' = FALSE
          /\ UNCHANGED <<reuse, reusable, reg, opened, failed, dead, asked, upset>>
      BY <1>13, <2>1 DEF Finish, At
    <3>2. PICK w : /\ Placed(a, w, act[a].conv, act[a].kill, act[a].follow)
                   /\ w \in {"kill", "done", "idle", "follow"}
                   /\ w = "kill" <=> act[a].kill
                   /\ a[1] = "run" => w \in {"kill", "done"}
                   /\ a[1] = "loop" => w \in {"kill", "idle", "follow"}
                   /\ a[1] = "watch" => w \in {"kill", "idle"}
      <4>1. Placed(a, Rest(a), act[a].conv, act[a].kill, act[a].follow)
        BY <1>13, <2>1, <3>1, Moves, Names DEF Finish
      <4>2. a[1] \in {"run", "loop", "watch"} /\ act[a].kill \in BOOLEAN
        BY Names DEF Shape
      <4> QED
        BY <4>1, <4>2, Returns
    <3>3. \A x \in Convs : Born(x) => Born(x)'
      BY <3>2, BornStays, Names, <3>1 DEF Born
    <3>4. Shape'
      <4>1. act'[a].kill \in BOOLEAN /\ act'[a].follow \in BOOLEAN
        BY <3>2, Names DEF Placed, Shape
      <4> QED
        BY <3>1, <3>2, <4>1, ShapeStep, Names, Requests DEF Shape
    <3>5. Roles'
      <4>1. Births'
        BY <3>1, <3>3, BirthsStay
      <4>2. RoleOf(a)'
        BY <3>1, <3>2, <3>3, Names DEF Placed, Shape, Roles, RoleOf, At, Busy, Ending, Born
      <4> QED
        BY <3>1, <3>2, <3>3, <4>1, <4>2, RolesStep, Names
    <3>6. Turned'
      <4>1. Turns' \subseteq Turns
        BY <3>1 DEF Turns
      <4>2. ~reuse => \A x \in Convs : Over(x) => Over(x)'
        BY <3>1, <3>2, <4>1, OverStays, Names DEF Silent, Placed, Ending
      <4>3. /\ act[a].at # "done" /\ (a[1] = "loop" /\ ~reuse => a[2] \in Convs /\ Over(a[2]))
            /\ a[1] # "watch" /\ reuse => ~act[a].kill /\ act[a].at \notin {"delete", "kill"}
        BY <3>1, Names DEF Turned, At
      <4>8. TurnKeeps(a, w, act[a].conv, act[a].kill, act[a].follow)
        BY <3>1, <3>2, <4>1, <4>2, <4>3, Names DEF TurnKeeps, Turned, At
      <4> QED
        BY <3>1, <4>8, TurnedStep, Names
    <3>7. One'
      <4> SUFFICES ASSUME upset' = {} PROVE Single' /\ Marked' /\ Quiet' /\ (reuse' => Kept')
        BY DEF One
      <4>0. upset = {} /\ Single /\ Marked /\ Quiet /\ (reuse => Kept)
        BY <3>1 DEF One
      <4>9. Working(a) /\ ~Working(a)'
        BY <3>1, <3>2, WorkStep, Names DEF Working, Busy
      <4>1. Turns' \subseteq Turns
        BY <3>1 DEF Turns
      <4>2. Single'
        <5>1. \A b \in Actors : Working(b)' => Working(b)
          BY <3>1, <3>2, WorkStep DEF Placed, Working, At, Busy
        <5> QED
          BY <4>0, <4>1, <5>1 DEF Single
      <4>3. Marked'
        <5>1. \A b \in Actors : b # a => ~Working(b)
          BY <4>0, <4>9 DEF Single
        <5>2. Turns' = {}
          BY <4>0, <4>1, <4>9 DEF Single
        <5>3. \A b \in Actors : ~Working(b)'
          BY <3>1, <3>2, <4>9, <5>1, WorkStep
        <5>4. (\A s \in Convs : act[Run(s)].at \notin Handed)'
          BY <5>3, Names DEF Working, Busy, Handed
        <5>5. \A b \in Actors : b # a /\ reuse => act[b].at # "receive"
          BY <4>0, <5>1 DEF Marked, Working, At
        <5>6. (\A b \in Actors : /\ reuse /\ At(b, "receive") => act[b].conv \in inflight
                                 /\ At(b, "delete") => act[b].conv \notin inflight)'
          BY <3>1, <3>2, <4>0, <5>5 DEF Marked, Placed, At
        <5> QED
          BY <5>2, <5>3, <5>4, <5>6 DEF Marked
      <4>4. Quiet'
        BY <3>1, <3>2, <4>0, Names DEF Quiet, Placed, At
      <4>5. reuse' => Kept'
        BY <3>1, <3>2, <4>0, Names DEF Kept, Placed, At
      <4> QED
        BY <4>2, <4>3, <4>4, <4>5
    <3> QED
      BY <3>4, <3>5, <3>6, <3>7 DEF IInv
  <2>2. CASE ~reuse
    <3>1. /\ act[a].at = "finish"
          /\ ~reuse
          /\ inflight' = inflight \ {act[a].conv} /\ running' = FALSE
          /\ UNCHANGED <<reuse, reusable, reg, opened, failed, dead, asked, upset>>
      BY <1>13, <2>2 DEF Finish, At
    <3>2. Placed(a, "delete", act[a].conv, act[a].kill, act[a].follow)
      BY <1>13, <2>2, <3>1, Moves, Names DEF Finish
    <3>3. \A x \in Convs : Born(x) => Born(x)'
      BY <3>2, BornStays, Names, <3>1 DEF Born
    <3>4. Shape'
      <4>1. act'[a].kill \in BOOLEAN /\ act'[a].follow \in BOOLEAN
        BY <3>2, Names DEF Placed, Shape
      <4> QED
        BY <3>1, <3>2, <4>1, ShapeStep, Names, Requests DEF Shape
    <3>5. Roles'
      <4>1. Births'
        BY <3>1, <3>3, BirthsStay
      <4>2. RoleOf(a)'
        BY <3>1, <3>2, <3>3, Names DEF Placed, Shape, Roles, RoleOf, At, Busy, Ending, Born
      <4> QED
        BY <3>1, <3>2, <3>3, <4>1, <4>2, RolesStep, Names
    <3>6. Turned'
      <4>1. Turns' \subseteq Turns
        BY <3>1 DEF Turns
      <4>2. ~reuse => \A x \in Convs : Over(x) => Over(x)'
        BY <3>1, <3>2, <4>1, OverStays, Names DEF Silent, Placed, Ending
      <4>3. /\ act[a].at # "done" /\ (a[1] = "loop" /\ ~reuse => a[2] \in Convs /\ Over(a[2]))
            /\ a[1] # "watch" /\ reuse => ~act[a].kill /\ act[a].at \notin {"delete", "kill"}
        BY <3>1, Names DEF Turned, At
      <4>8. TurnKeeps(a, "delete", act[a].conv, act[a].kill, act[a].follow)
        BY <3>1, <3>2, <4>1, <4>2, <4>3, Names DEF TurnKeeps, Turned, At
      <4> QED
        BY <3>1, <4>8, TurnedStep, Names
    <3>7. One'
      <4> SUFFICES ASSUME upset' = {} PROVE Single' /\ Marked' /\ Quiet' /\ (reuse' => Kept')
        BY DEF One
      <4>0. upset = {} /\ Single /\ Marked /\ Quiet /\ (reuse => Kept)
        BY <3>1 DEF One
      <4>9. Working(a) /\ ~Working(a)'
        BY <3>1, <3>2, WorkStep, Names DEF Working, Busy
      <4>1. Turns' \subseteq Turns
        BY <3>1 DEF Turns
      <4>2. Single'
        <5>1. \A b \in Actors : Working(b)' => Working(b)
          BY <3>1, <3>2, WorkStep DEF Placed, Working, At, Busy
        <5> QED
          BY <4>0, <4>1, <5>1 DEF Single
      <4>3. Marked'
        <5>1. \A b \in Actors : b # a => ~Working(b)
          BY <4>0, <4>9 DEF Single
        <5>2. Turns' = {}
          BY <4>0, <4>1, <4>9 DEF Single
        <5>3. \A b \in Actors : ~Working(b)'
          BY <3>1, <3>2, <4>9, <5>1, WorkStep
        <5>4. (\A s \in Convs : act[Run(s)].at \notin Handed)'
          BY <5>3, Names DEF Working, Busy, Handed
        <5>5. \A b \in Actors : b # a /\ reuse => act[b].at # "receive"
          BY <4>0, <5>1 DEF Marked, Working, At
        <5>6. (\A b \in Actors : /\ reuse /\ At(b, "receive") => act[b].conv \in inflight
                                 /\ At(b, "delete") => act[b].conv \notin inflight)'
          BY <3>1, <3>2, <4>0, <5>5 DEF Marked, Placed, At
        <5> QED
          BY <5>2, <5>3, <5>4, <5>6 DEF Marked
      <4>4. Quiet'
        BY <3>1, <3>2, <4>0, Names DEF Quiet, Placed, At
      <4>5. reuse' => Kept'
        BY <3>1, <3>2, <4>0, Names DEF Kept, Placed, At
      <4> QED
        BY <4>2, <4>3, <4>4, <4>5
    <3> QED
      BY <3>4, <3>5, <3>6, <3>7 DEF IInv
  <2> QED
    BY <2>1, <2>2
<1>14. ASSUME NEW a \in Actors, Delete(a) PROVE IInv'
  <2>1. CASE act[a].conv \in reg
    <3>1. /\ act[a].at = "delete"
          /\ reg' = reg \ {act[a].conv}
          /\ UNCHANGED <<reuse, running, reusable, inflight, opened, failed, dead,
               asked, upset>>
      BY <1>14, <2>1 DEF Delete, At
    <3>2. Placed(a, "receive", act[a].conv, TRUE, act[a].follow)
      <4>1. act' = [act EXCEPT ![a].at = "receive", ![a].kill = TRUE]
        BY <1>14, <2>1 DEF Delete
      <4> QED
        BY <4>1, Kills
    <3>3. \A x \in Convs : Born(x) => Born(x)'
      BY <3>2, BornStays, Names, <3>1 DEF Born
    <3>4. Shape'
      <4>1. act'[a].kill \in BOOLEAN /\ act'[a].follow \in BOOLEAN
        BY <3>2, Names DEF Placed, Shape
      <4> QED
        BY <3>1, <3>2, <4>1, ShapeStep, Names, Requests DEF Shape
    <3>5. Roles'
      <4>1. Births'
        BY <3>1, <3>3, BirthsStay
      <4>2. RoleOf(a)'
        BY <3>1, <3>2, <3>3, Names DEF Placed, Shape, Roles, RoleOf, At, Busy, Ending, Born
      <4> QED
        BY <3>1, <3>2, <3>3, <4>1, <4>2, RolesStep, Names
    <3>6. Turned'
      <4>1. Turns' \subseteq Turns
        BY <3>1 DEF Turns
      <4>2. ~reuse => \A x \in Convs : Over(x) => Over(x)'
        BY <3>1, <3>2, <4>1, OverStays, Names DEF Silent, Placed, Ending
      <4>3. /\ act[a].at # "done" /\ (a[1] = "loop" /\ ~reuse => a[2] \in Convs /\ Over(a[2]))
            /\ a[1] # "watch" /\ reuse => ~act[a].kill /\ act[a].at \notin {"delete", "kill"}
        BY <3>1, Names DEF Turned, At
      <4>8. TurnKeeps(a, "receive", act[a].conv, TRUE, act[a].follow)
        BY <3>1, <3>2, <4>1, <4>2, <4>3, Names DEF TurnKeeps, Turned, At
      <4> QED
        BY <3>1, <4>8, TurnedStep, Names
    <3>7. One'
      <4> SUFFICES ASSUME upset' = {} PROVE Single' /\ Marked' /\ Quiet' /\ (reuse' => Kept')
        BY DEF One
      <4>0. upset = {} /\ Single /\ Marked /\ Quiet /\ (reuse => Kept)
        BY <3>1 DEF One
      <4>9. ~reuse /\ act[a].conv \notin inflight
        <5>1. a[1] # "watch"
          BY <3>1, <4>0, Names DEF Quiet, At
        <5> QED
          BY <3>1, <4>0, <5>1 DEF Turned, Marked, At
      <4>1. Turns' \subseteq Turns
        BY <3>1 DEF Turns
      <4>2. Single'
        <5>1. \A b \in Actors : Working(b)' => Working(b)
          BY <3>1, <3>2, <4>9, WorkStep DEF Placed, Working, At, Busy
        <5> QED
          BY <4>0, <4>1, <5>1 DEF Single
      <4>3. Marked'
        BY <3>1, <3>2, <4>0, <4>1, <4>9, Names DEF Marked, Placed, Working, Busy, Handed, At
      <4>4. Quiet'
        BY <3>1, <3>2, <4>0, Names DEF Quiet, Placed, At
      <4>5. reuse' => Kept'
        BY <3>1, <4>9
      <4> QED
        BY <4>2, <4>3, <4>4, <4>5
    <3> QED
      BY <3>4, <3>5, <3>6, <3>7 DEF IInv
  <2>2. CASE act[a].conv \notin reg
    <3>1. /\ act[a].at = "delete"
          /\ reg' = reg
          /\ UNCHANGED <<reuse, running, reusable, inflight, opened, failed, dead,
               asked, upset>>
      BY <1>14, <2>2 DEF Delete, At
    <3>2. PICK w : /\ Placed(a, w, act[a].conv, act[a].kill, act[a].follow)
                   /\ w \in {"kill", "done", "idle", "follow"}
                   /\ w = "kill" <=> act[a].kill
                   /\ a[1] = "run" => w \in {"kill", "done"}
                   /\ a[1] = "loop" => w \in {"kill", "idle", "follow"}
                   /\ a[1] = "watch" => w \in {"kill", "idle"}
      <4>1. Placed(a, Rest(a), act[a].conv, act[a].kill, act[a].follow)
        <5>1. act' = [act EXCEPT ![a].at = Rest(a), ![a].kill = act[a].kill]
          BY <1>14, <2>2 DEF Delete, Shape
        <5> QED
          BY <5>1, Kills
      <4>2. a[1] \in {"run", "loop", "watch"} /\ act[a].kill \in BOOLEAN
        BY Names DEF Shape
      <4> QED
        BY <4>1, <4>2, Returns
    <3>3. \A x \in Convs : Born(x) => Born(x)'
      BY <3>2, BornStays, Names, <3>1 DEF Born
    <3>4. Shape'
      <4>1. act'[a].kill \in BOOLEAN /\ act'[a].follow \in BOOLEAN
        BY <3>2, Names DEF Placed, Shape
      <4> QED
        BY <3>1, <3>2, <4>1, ShapeStep, Names, Requests DEF Shape
    <3>5. Roles'
      <4>1. Births'
        BY <3>1, <3>3, BirthsStay
      <4>2. RoleOf(a)'
        BY <3>1, <3>2, <3>3, Names DEF Placed, Shape, Roles, RoleOf, At, Busy, Ending, Born
      <4> QED
        BY <3>1, <3>2, <3>3, <4>1, <4>2, RolesStep, Names
    <3>6. Turned'
      <4>1. Turns' \subseteq Turns
        BY <3>1 DEF Turns
      <4>2. ~reuse => \A x \in Convs : Over(x) => Over(x)'
        BY <3>1, <3>2, <4>1, OverStays, Names DEF Silent, Placed, Ending
      <4>3. /\ act[a].at # "done" /\ (a[1] = "loop" /\ ~reuse => a[2] \in Convs /\ Over(a[2]))
            /\ a[1] # "watch" /\ reuse => ~act[a].kill /\ act[a].at \notin {"delete", "kill"}
        BY <3>1, Names DEF Turned, At
      <4>8. TurnKeeps(a, w, act[a].conv, act[a].kill, act[a].follow)
        BY <3>1, <3>2, <4>1, <4>2, <4>3, Names DEF TurnKeeps, Turned, At
      <4> QED
        BY <3>1, <4>8, TurnedStep, Names
    <3>7. One'
      <4> SUFFICES ASSUME upset' = {} PROVE Single' /\ Marked' /\ Quiet' /\ (reuse' => Kept')
        BY DEF One
      <4>0. upset = {} /\ Single /\ Marked /\ Quiet /\ (reuse => Kept)
        BY <3>1 DEF One
      <4>9. ~reuse /\ act[a].conv \notin inflight
        <5>1. a[1] # "watch"
          BY <3>1, <4>0, Names DEF Quiet, At
        <5> QED
          BY <3>1, <4>0, <5>1 DEF Turned, Marked, At
      <4>1. Turns' \subseteq Turns
        BY <3>1 DEF Turns
      <4>2. Single'
        <5>1. \A b \in Actors : Working(b)' => Working(b)
          BY <3>1, <3>2, <4>9, WorkStep DEF Placed, Working, At, Busy
        <5> QED
          BY <4>0, <4>1, <5>1 DEF Single
      <4>3. Marked'
        BY <3>1, <3>2, <4>0, <4>1, <4>9, Names DEF Marked, Placed, Working, Busy, Handed, At
      <4>4. Quiet'
        BY <3>1, <3>2, <4>0, Names DEF Quiet, Placed, At
      <4>5. reuse' => Kept'
        BY <3>1, <4>9
      <4> QED
        BY <4>2, <4>3, <4>4, <4>5
    <3> QED
      BY <3>4, <3>5, <3>6, <3>7 DEF IInv
  <2> QED
    BY <2>1, <2>2
<1>15. ASSUME NEW a \in Actors, Kill(a) PROVE IInv'
  <2>1. /\ act[a].at = "kill"
        /\ dead' = dead \cup {act[a].conv}
        /\ asked' \subseteq asked
        /\ act[a].conv \in Convs /\ Born(act[a].conv) /\ act[a].conv \notin reg
        /\ UNCHANGED <<reuse, running, reusable, inflight, reg, opened, failed, upset>>
    BY <1>15 DEF Kill, At, Roles, RoleOf
  <2>2. PICK w : /\ Placed(a, w, act[a].conv, FALSE, act[a].follow)
                 /\ w \in {"done", "idle", "follow"}
                 /\ a[1] = "run" => w \in {"done"}
                 /\ a[1] = "loop" => w \in {"idle", "follow"}
                 /\ a[1] = "watch" => w \in {"idle"}
    <3>1. Placed(a, Home(a), act[a].conv, FALSE, act[a].follow)
      <4>1. act' = [act EXCEPT ![a].at = Home(a), ![a].kill = FALSE]
        BY <1>15 DEF Kill
      <4> QED
        BY <4>1, Kills
    <3>2. a[1] \in {"run", "loop", "watch"} /\ act[a].kill \in BOOLEAN
      BY Names DEF Shape
    <3> QED
      BY <3>1, <3>2, Returns
  <2>3. \A x \in Convs : Born(x) => Born(x)'
    BY <2>2, BornStays, Names, <2>1 DEF Born
  <2>4. Shape'
    <3>1. act'[a].kill \in BOOLEAN /\ act'[a].follow \in BOOLEAN
      BY <2>2, Names DEF Placed, Shape
    <3>2. reuse' = reuse /\ \A q \in asked' : q \in asked
      BY <2>1
    <3> QED
      BY <2>2, <3>1, <3>2, ShapeStep
  <2>5. Roles'
    <3>1. Births'
      BY <2>1, <2>3 DEF Roles, Births, Shape, Asked
    <3>2. RoleOf(a)'
      BY <2>1, <2>2, <2>3, Names DEF Placed, Shape, Roles, RoleOf, At, Busy, Ending, Born
    <3> QED
      BY <2>1, <2>2, <2>3, <3>1, <3>2, RolesStep, Names
  <2>6. Turned'
    <3>1. Turns' \subseteq Turns
      BY <2>1 DEF Turns
    <3>2. ~reuse => \A x \in Convs : Over(x) => Over(x)'
      BY <2>1, <2>2, <3>1, OverStays, Names DEF Silent, Placed, Ending
    <3>3. /\ act[a].at # "done" /\ (a[1] = "loop" /\ ~reuse => a[2] \in Convs /\ Over(a[2]))
          /\ a[1] # "watch" /\ reuse => ~act[a].kill /\ act[a].at \notin {"delete", "kill"}
      BY <2>1, Names DEF Turned, At
    <3>8. TurnKeeps(a, w, act[a].conv, FALSE, act[a].follow)
      BY <2>1, <2>2, <3>1, <3>2, <3>3, Names DEF TurnKeeps, Turned, At
    <3> QED
      BY <2>1, <3>8, TurnedStep, Names
  <2>7. One'
    <3> SUFFICES ASSUME upset' = {} PROVE Single' /\ Marked' /\ Quiet' /\ (reuse' => Kept')
      BY DEF One
    <3>0. upset = {} /\ Single /\ Marked /\ Quiet /\ (reuse => Kept)
      BY <2>1 DEF One
    <3>1. Turns' \subseteq Turns
      BY <2>1 DEF Turns
    <3>2. Single'
      <4>1. \A b \in Actors : Working(b)' => Working(b)
        BY <2>1, <2>2, WorkStep DEF Placed, Working, At, Busy
      <4> QED
        BY <3>0, <3>1, <4>1 DEF Single
    <3>3. Marked'
      BY <2>1, <2>2, <3>0, <3>1, Names DEF Marked, Placed, Working, Busy, Handed, At
    <3>4. Quiet'
      BY <2>1, <2>2, <3>0, Names DEF Quiet, Placed, At
    <3>5. reuse' => Kept'
      BY <2>1, <2>2, <3>0, Names DEF Kept, Placed, At
    <3> QED
      BY <3>2, <3>3, <3>4, <3>5
  <2> QED
    BY <2>4, <2>5, <2>6, <2>7 DEF IInv
<1>16. ASSUME NEW c \in Convs, Handshake(c) PROVE IInv'
  <2>1. /\ NewSession(c) \in asked
        /\ asked' = asked \ {NewSession(c)}
        /\ opened' = opened \cup {c}
        /\ UNCHANGED <<act, reuse, running, reusable, inflight, reg, failed, dead,
             upset>>
    BY <1>16 DEF Handshake, At
  <2>2. \A x \in Convs : Born(x) => Born(x)'
    BY <2>1 DEF Born
  <2>3. Shape'
    BY <2>1 DEF Shape
  <2>4. Roles'
    <3>1. Births'
      <4>1. Born(c)
        BY <2>1, Requests DEF Roles, Births
      <4> QED
        BY <2>1, <2>2, <4>1, Names DEF Roles, Births, Shape, Asked
    <3> QED
      BY <2>1, <3>1, RolesStay
  <2>5. Turned'
    BY <2>1 DEF Turned, Over, Silent, Turns, At
  <2>6. One'
    <3> SUFFICES ASSUME upset' = {} PROVE Single' /\ Marked' /\ Quiet' /\ (reuse' => Kept')
      BY DEF One
    <3>0. upset = {} /\ Single /\ Marked /\ Quiet /\ (reuse => Kept)
      BY <2>1 DEF One
    <3>1. Turns' \subseteq Turns
      BY <2>1 DEF Turns
    <3>2. Single'
      <4>1. \A b \in Actors : Working(b)' => Working(b)
        BY <2>1, WorkStep DEF Placed, Working, At, Busy
      <4> QED
        BY <3>0, <3>1, <4>1 DEF Single
    <3>3. Marked'
      BY <2>1, <3>0, <3>1, Names DEF Marked, Placed, Working, Busy, Handed, At
    <3>4. Quiet'
      BY <2>1, <3>0, Names DEF Quiet, Placed, At
    <3>5. reuse' => Kept'
      BY <2>1, <3>0, Names DEF Kept, Placed, At
    <3> QED
      BY <3>2, <3>3, <3>4, <3>5
  <2> QED
    BY <2>3, <2>4, <2>5, <2>6 DEF IInv
<1>17. ASSUME NEW c \in Convs, HandshakeFails(c) PROVE IInv'
  <2>1. /\ act[Loop(c)].at = "idle"
        /\ NewSession(c) \in asked
        /\ asked' = asked \ {NewSession(c)}
        /\ opened' = opened \cup {c} /\ failed' = failed \cup {c} /\ upset' = upset \cup {c}
        /\ UNCHANGED <<reuse, running, reusable, inflight, reg, dead>>
    BY <1>17 DEF HandshakeFails, At
  <2>2. Placed(Loop(c), "receive", c, FALSE, FALSE)
    <3> DEFINE e == [Idle EXCEPT !.at = "receive", !.conv = c]
    <3>1. DOMAIN e = Fields /\ e.at = "receive" /\ e.conv = c /\ e.kill = FALSE /\ e.follow = FALSE
      BY DEF Idle, Fields
    <3>2. act' = [act EXCEPT ![Loop(c)] = e]
      BY <1>17 DEF HandshakeFails
    <3> HIDE DEF e
    <3>3. act'[Loop(c)] = e /\ Placed(Loop(c), e.at, e.conv, e.kill, e.follow)
      BY <2>1, <3>1, <3>2, Starts, Names DEF Shape
    <3> QED
      BY <3>1, <3>3 DEF Placed
  <2>3. \A x \in Convs : Born(x) => Born(x)'
    BY <2>2, BornStays, Names, <2>1 DEF Born
  <2>4. Shape'
    <3>1. act'[Loop(c)].kill \in BOOLEAN /\ act'[Loop(c)].follow \in BOOLEAN
      BY <2>2, Names DEF Placed, Shape
    <3> QED
      BY <2>1, <2>2, <3>1, ShapeStep, Names, Requests DEF Shape
  <2>5. Roles'
    <3>1. Births'
      <4>1. Born(c)
        BY <2>1, Requests DEF Roles, Births
      <4> QED
        BY <2>1, <2>3, <4>1, Names DEF Roles, Births, Shape, Asked
    <3>2. RoleOf(Loop(c))'
      <4>1. Born(c)'
        BY <2>1, <2>3, Requests DEF Roles, Births
      <4> QED
        BY <2>1, <2>2, <4>1, Names DEF Placed, RoleOf, At, Ending
    <3> QED
      BY <2>1, <2>2, <2>3, <3>1, <3>2, RolesStep, Names
  <2>6. Turned'
    <3>1. Turns' \subseteq Turns
      BY <2>1 DEF Turns
    <3>2. ~reuse => \A x \in Convs : Over(x) => Over(x)'
      BY <2>1, <2>2, <3>1, OverStays, Names DEF Silent, Placed, Ending
    <3>4. ~reuse => Over(c)'
      <4> SUFFICES ASSUME ~reuse PROVE Over(c)'
        OBVIOUS
      <4>1. c \notin opened
        BY <2>1 DEF Turned
      <4>2. act[Run(c)].at \notin {"send", "ask"}
        BY <2>1, <4>1, Names, Requests DEF Turned, Roles, RoleOf, Births, Born
      <4>3. act'[Run(c)] = act[Run(c)]
        BY <2>2, Names DEF Placed
      <4> QED
        BY <2>1, <3>1, <4>1, <4>2, <4>3 DEF Over, Silent, Turned
    <3>5. \A x \in Convs : NewSession(x) \in asked' => x \notin opened'
      BY <2>1 DEF Turned
    <3>6. \A x \in Convs : Prompt(x, 0) \in asked' => Prompt(x, 0) \in asked
      BY <2>1
    <3>7. Loop(c) \in Actors /\ Loop(c)[1] = "loop" /\ Loop(c)[2] = c /\ opened \subseteq opened'
      BY <2>1, Names
    <3>8. TurnKeeps(Loop(c), "receive", c, FALSE, FALSE)
      BY <2>1, <2>2, <3>1, <3>2, <3>4, <3>5, <3>6, <3>7, Names DEF TurnKeeps, At
    <3> QED
      BY <2>1, <3>8, TurnedStep, Names
  <2>7. One'
    BY <2>1 DEF One
  <2> QED
    BY <2>4, <2>5, <2>6, <2>7 DEF IInv
<1>18. ASSUME NEW c \in Convs, FollowUp(c) PROVE IInv'
  <2>1. CASE c \in dead
    <3>1. /\ act[Loop(c)].at = "follow"
          /\ UNCHANGED <<reuse, running, reusable, inflight, reg, opened, failed,
               dead, asked, upset>>
      BY <1>18, <2>1 DEF FollowUp, At
    <3>2. Placed(Loop(c), "idle", 0, FALSE, FALSE)
      <4> DEFINE e == Idle
      <4>1. DOMAIN e = Fields /\ e.at = "idle" /\ e.conv = 0 /\ e.kill = FALSE /\ e.follow = FALSE
        BY DEF Idle, Fields
      <4>2. act' = [act EXCEPT ![Loop(c)] = e]
        BY <1>18, <2>1 DEF FollowUp
      <4> HIDE DEF e
      <4>3. act'[Loop(c)] = e /\ Placed(Loop(c), e.at, e.conv, e.kill, e.follow)
        BY <3>1, <4>1, <4>2, Starts, Names DEF Shape
      <4> QED
        BY <4>1, <4>3 DEF Placed
    <3>3. \A x \in Convs : Born(x) => Born(x)'
      BY <3>2, BornStays, Names, <3>1 DEF Born
    <3>4. Shape'
      <4>1. act'[Loop(c)].kill \in BOOLEAN /\ act'[Loop(c)].follow \in BOOLEAN
        BY <3>2, Names DEF Placed, Shape
      <4> QED
        BY <3>1, <3>2, <4>1, ShapeStep, Names, Requests DEF Shape
    <3>5. Roles'
      <4>1. Births'
        BY <3>1, <3>3, BirthsStay
      <4>2. RoleOf(Loop(c))'
        BY <3>1, <3>2, <3>3, Names DEF Placed, Shape, Roles, RoleOf, At, Busy, Ending, Born
      <4> QED
        BY <3>1, <3>2, <3>3, <4>1, <4>2, RolesStep, Names
    <3>6. Turned'
      <4>1. Turns' \subseteq Turns
        BY <3>1 DEF Turns
      <4>2. ~reuse => \A x \in Convs : Over(x) => Over(x)'
        BY <3>1, <3>2, <4>1, OverStays, Names DEF Silent, Placed, Ending
      <4>8. TurnKeeps(Loop(c), "idle", 0, FALSE, FALSE)
        BY <3>1, <3>2, <4>1, <4>2, Names DEF TurnKeeps, Turned, At
      <4> QED
        BY <3>1, <4>8, TurnedStep, Names
    <3>7. One'
      <4> SUFFICES ASSUME upset' = {} PROVE Single' /\ Marked' /\ Quiet' /\ (reuse' => Kept')
        BY DEF One
      <4>0. upset = {} /\ Single /\ Marked /\ Quiet /\ (reuse => Kept)
        BY <3>1 DEF One
      <4>1. Turns' \subseteq Turns
        BY <3>1 DEF Turns
      <4>2. Single'
        <5>1. \A b \in Actors : Working(b)' => Working(b)
          BY <3>1, <3>2, WorkStep DEF Placed, Working, At, Busy
        <5> QED
          BY <4>0, <4>1, <5>1 DEF Single
      <4>3. Marked'
        BY <3>1, <3>2, <4>0, <4>1, Names DEF Marked, Placed, Working, Busy, Handed, At
      <4>4. Quiet'
        BY <3>1, <3>2, <4>0, Names DEF Quiet, Placed, At
      <4>5. reuse' => Kept'
        BY <3>1, <3>2, <4>0, Names DEF Kept, Placed, At
      <4> QED
        BY <4>2, <4>3, <4>4, <4>5
    <3> QED
      BY <3>4, <3>5, <3>6, <3>7 DEF IInv
  <2>2. CASE c \notin dead
    <3>1. /\ act[Loop(c)].at = "follow"
          /\ asked' = asked \cup {Prompt(c, 0)} /\ upset' = upset \cup {c}
          /\ UNCHANGED <<reuse, running, reusable, inflight, reg, opened, failed,
               dead>>
      BY <1>18, <2>2 DEF FollowUp, At
    <3>2. Placed(Loop(c), "idle", 0, FALSE, FALSE)
      <4> DEFINE e == Idle
      <4>1. DOMAIN e = Fields /\ e.at = "idle" /\ e.conv = 0 /\ e.kill = FALSE /\ e.follow = FALSE
        BY DEF Idle, Fields
      <4>2. act' = [act EXCEPT ![Loop(c)] = e]
        BY <1>18, <2>2 DEF FollowUp
      <4> HIDE DEF e
      <4>3. act'[Loop(c)] = e /\ Placed(Loop(c), e.at, e.conv, e.kill, e.follow)
        BY <3>1, <4>1, <4>2, Starts, Names DEF Shape
      <4> QED
        BY <4>1, <4>3 DEF Placed
    <3>3. \A x \in Convs : Born(x) => Born(x)'
      BY <3>2, BornStays, Names, <3>1 DEF Born
    <3>4. Shape'
      <4>1. \A q \in asked' : q \in asked \/ Asked(q)
        BY <3>1, Requests
      <4>2. act'[Loop(c)].kill \in BOOLEAN /\ act'[Loop(c)].follow \in BOOLEAN
        BY <3>2 DEF Placed
      <4> QED
        BY <3>1, <3>2, <4>1, <4>2, ShapeStep, Names
    <3>5. Roles'
      <4>1. Births'
        <5>1. Born(c)
          BY <3>1, Names DEF Roles, RoleOf
        <5> QED
          BY <3>1, <3>3, <5>1, Requests DEF Roles, Births, Shape, Asked
      <4>2. RoleOf(Loop(c))'
        BY <3>1, <3>2, <3>3, Names DEF Placed, Shape, Roles, RoleOf, At, Busy, Ending, Born
      <4> QED
        BY <3>1, <3>2, <3>3, <4>1, <4>2, RolesStep, Names
    <3>6. Turned'
      <4>1. Turns' \subseteq Turns
        BY <3>1, Requests DEF Turns
      <4>2. ~reuse => \A x \in Convs : Over(x) => Over(x)'
        BY <3>1, <3>2, <4>1, OverStays, Names DEF Silent, Placed, Ending
      <4>4. \A x \in Convs : NewSession(x) \in asked' => x \notin opened'
        BY <3>1, Requests DEF Turned
      <4>5. \A x \in Convs :
             Prompt(x, 0) \in asked' => Prompt(x, 0) \in asked \/ ~At(Loop(x), "idle")
        BY <3>1, Requests DEF At
      <4>8. TurnKeeps(Loop(c), "idle", 0, FALSE, FALSE)
        BY <3>1, <3>2, <4>1, <4>2, <4>4, <4>5, Names DEF TurnKeeps, Turned, At
      <4> QED
        BY <3>1, <4>8, TurnedStep, Names
    <3>7. One'
      BY <3>1 DEF One
    <3> QED
      BY <3>4, <3>5, <3>6, <3>7 DEF IInv
  <2> QED
    BY <2>1, <2>2
<1>19. ASSUME NEW c \in Convs, Exit(c) PROVE IInv'
  <2>1. /\ c \in reg /\ c \in Convs /\ Born(c)
        /\ dead' = dead \cup {c} /\ upset' = upset \cup {c}
        /\ asked' \subseteq asked
        /\ UNCHANGED <<act, reuse, running, reusable, inflight, reg, opened, failed>>
    BY <1>19 DEF Exit, At, Roles, Births
  <2>2. \A x \in Convs : Born(x) => Born(x)'
    BY <2>1 DEF Born
  <2>3. Shape'
    BY <2>1 DEF Shape
  <2>4. Roles'
    <3>1. Births'
      BY <2>1, <2>2, Names DEF Roles, Births, Shape, Asked
    <3> QED
      BY <2>1, <3>1, RolesStay
  <2>5. Turned'
    BY <2>1 DEF Turned, Over, Silent, Turns, At
  <2>6. One'
    BY <2>1 DEF One
  <2> QED
    BY <2>3, <2>4, <2>5, <2>6 DEF IInv
<1>20. ASSUME NEW c \in Convs, Watch(c) PROVE IInv'
  <2>1. /\ act[Watcher(c)].at = "idle"
        /\ c \in dead /\ c \in reg /\ Born(c)
        /\ UNCHANGED <<reuse, running, reusable, inflight, reg, opened, failed, dead,
             asked, upset>>
    BY <1>20 DEF Watch, At, Roles, Births
  <2>2. Placed(Watcher(c), "delete", c, FALSE, FALSE)
    <3> DEFINE e == [Idle EXCEPT !.at = "delete", !.conv = c]
    <3>1. DOMAIN e = Fields /\ e.at = "delete" /\ e.conv = c /\ e.kill = FALSE /\ e.follow = FALSE
      BY DEF Idle, Fields
    <3>2. act' = [act EXCEPT ![Watcher(c)] = e]
      BY <1>20 DEF Watch
    <3> HIDE DEF e
    <3>3. act'[Watcher(c)] = e /\ Placed(Watcher(c), e.at, e.conv, e.kill, e.follow)
      BY <2>1, <3>1, <3>2, Starts, Names DEF Shape
    <3> QED
      BY <3>1, <3>3 DEF Placed
  <2>3. \A x \in Convs : Born(x) => Born(x)'
    BY <2>2, BornStays, Names, <2>1 DEF Born
  <2>4. Shape'
    <3>1. act'[Watcher(c)].kill \in BOOLEAN /\ act'[Watcher(c)].follow \in BOOLEAN
      BY <2>2, Names DEF Placed, Shape
    <3> QED
      BY <2>1, <2>2, <3>1, ShapeStep, Names, Requests DEF Shape
  <2>5. Roles'
    <3>1. Births'
      BY <2>1, <2>3, BirthsStay
    <3>2. RoleOf(Watcher(c))'
      BY <2>1, <2>2, <2>3, Names DEF Placed, RoleOf, At, Ending
    <3> QED
      BY <2>1, <2>2, <2>3, <3>1, <3>2, RolesStep, Names
  <2>6. Turned'
    <3>1. Turns' \subseteq Turns
      BY <2>1 DEF Turns
    <3>2. ~reuse => \A x \in Convs : Over(x) => Over(x)'
      BY <2>1, <2>2, <3>1, OverStays, Names DEF Silent, Placed, Ending
    <3>8. TurnKeeps(Watcher(c), "delete", c, FALSE, FALSE)
      BY <2>1, <2>2, <3>1, <3>2, Names DEF TurnKeeps, Turned, At
    <3> QED
      BY <2>1, <3>8, TurnedStep, Names
  <2>7. One'
    <3>1. upset # {}
      BY <2>1 DEF One, Quiet
    <3> QED
      BY <2>1, <3>1 DEF One
  <2> QED
    BY <2>4, <2>5, <2>6, <2>7 DEF IInv
<1>21. ASSUME NEW q \in asked, NEW f \in BOOLEAN, Answer(q, f) PROVE IInv'
  <2>1. /\ act[Loop(q.conv)].at = "idle"
        /\ q.of = "prompt" /\ q.conv \in Convs /\ q.run \in Convs \cup {0}
        /\ q = Prompt(q.conv, q.run)
        /\ asked' = asked \ {q}
        /\ UNCHANGED <<reuse, running, reusable, inflight, reg, opened, failed, dead,
             upset>>
    BY <1>21 DEF Answer, At, Shape, Asked
  <2>2. Placed(Loop(q.conv), "receive", q.conv, FALSE, f)
    <3> DEFINE e == [Idle EXCEPT !.at = "receive", !.conv = q.conv, !.follow = f]
    <3>1. DOMAIN e = Fields /\ e.at = "receive" /\ e.conv = q.conv /\ e.kill = FALSE /\ e.follow = f
      BY DEF Idle, Fields
    <3>2. act' = [act EXCEPT ![Loop(q.conv)] = e]
      BY <1>21 DEF Answer
    <3> HIDE DEF e
    <3>3. act'[Loop(q.conv)] = e /\ Placed(Loop(q.conv), e.at, e.conv, e.kill, e.follow)
      BY <2>1, <3>1, <3>2, Starts, Names DEF Shape
    <3> QED
      BY <3>1, <3>3 DEF Placed
  <2>3. \A x \in Convs : Born(x) => Born(x)'
    BY <2>2, BornStays, Names, <2>1 DEF Born
  <2>4. Shape'
    <3>1. act'[Loop(q.conv)].kill \in BOOLEAN /\ act'[Loop(q.conv)].follow \in BOOLEAN
      BY <2>2, Names DEF Placed, Shape
    <3> QED
      BY <2>1, <2>2, <3>1, ShapeStep, Names, Requests DEF Shape
  <2>5. Roles'
    <3>1. Births'
      BY <2>1, <2>3, BirthsStay
    <3>2. RoleOf(Loop(q.conv))'
      <4>1. Born(q.conv)'
        BY <2>1, <2>3 DEF Roles, Births
      <4> QED
        BY <2>1, <2>2, <4>1, Names DEF Placed, RoleOf, At, Ending
    <3> QED
      BY <2>1, <2>2, <2>3, <3>1, <3>2, RolesStep, Names
  <2>6. Turned'
    <3>1. Turns' \subseteq Turns
      BY <2>1 DEF Turns
    <3>2. ~reuse => \A x \in Convs : Over(x) => Over(x)'
      BY <2>1, <2>2, <3>1, OverStays, Names DEF Silent, Placed, Ending
    <3>4. ~reuse => Over(q.conv)'
      <4> SUFFICES ASSUME ~reuse PROVE Over(q.conv)'
        OBVIOUS
      <4>1. CASE q.run = 0
        BY <2>1, <3>2, <4>1 DEF Turned
      <4>2. CASE q.run # 0
        <5>1. q \in Turns /\ q.run = q.conv /\ act[Run(q.conv)].at = "done"
          BY <2>1, <4>2 DEF Turns, Turned, At
        <5>2. act'[Run(q.conv)].at = "done"
          BY <2>1, <2>2, <5>1, Names DEF Placed
        <5>3. ASSUME NEW p \in Turns', p.conv = q.conv PROVE FALSE
          <6>1. p \in Turns /\ p # q /\ p \in asked
            BY <2>1, <3>1, <5>3 DEF Turns
          <6>2. p.run = p.conv /\ p = Prompt(p.conv, p.run)
            BY <6>1 DEF Turned, Turns, Shape, Asked, NewSession
          <6> QED
            BY <2>1, <5>1, <5>3, <6>1, <6>2
        <5> QED
          BY <5>2, <5>3 DEF Over, Silent
      <4> QED
        BY <4>1, <4>2
    <3>8. TurnKeeps(Loop(q.conv), "receive", q.conv, FALSE, f)
      BY <2>1, <2>2, <3>1, <3>2, <3>4, Names DEF TurnKeeps, Turned, At
    <3> QED
      BY <2>1, <3>8, TurnedStep, Names
  <2>7. One'
    <3> SUFFICES ASSUME upset' = {} PROVE Single' /\ Marked' /\ Quiet' /\ (reuse' => Kept')
      BY DEF One
    <3>0. upset = {} /\ Single /\ Marked /\ Quiet /\ (reuse => Kept)
      BY <2>1 DEF One
    <3>9. /\ q \in Turns /\ Turns' = {} /\ running /\ q.conv \in inflight
          /\ \A b \in Actors : ~Working(b)
      <4>1. q \in Turns
        BY <2>1, <3>0 DEF Quiet, Turns
      <4>2. Turns' \subseteq Turns \ {q}
        BY <2>1 DEF Turns
      <4> QED
        BY <3>0, <4>1, <4>2 DEF Single, Marked
    <3>10. \A b \in Actors : b # Loop(q.conv) => ~Working(b)'
      BY <2>1, <2>2, <3>9, WorkStep, Names
    <3>1. Turns' \subseteq Turns
      BY <2>1 DEF Turns
    <3>2. Single'
      BY <3>9, <3>10 DEF Single
    <3>3. Marked'
      BY <2>1, <2>2, <3>0, <3>9, <3>10, Names DEF Marked, Placed, Handed, At
    <3>4. Quiet'
      BY <2>1, <2>2, <3>0, Names DEF Quiet, Placed, At
    <3>5. reuse' => Kept'
      BY <2>1, <2>2, <3>0, Names DEF Kept, Placed, At
    <3> QED
      BY <3>2, <3>3, <3>4, <3>5
  <2> QED
    BY <2>4, <2>5, <2>6, <2>7 DEF IInv
<1>22. CASE UNCHANGED vars
  <2>1. Shape'
    BY <1>22 DEF vars, Asked, Shape
  <2>2. Roles'
    BY <1>22 DEF vars, Roles, Births, RoleOf, Born, At
  <2>3. Turned'
    BY <1>22 DEF vars, Turned, Over, Silent, Turns, At
  <2>4. One'
    BY <1>22 DEF vars, One, Single, Marked, Quiet, Kept, Working, Turns, At
  <2> QED
    BY <2>1, <2>2, <2>3, <2>4 DEF IInv
<1> QED
  BY <1>1, <1>2, <1>3, <1>4, <1>5, <1>6, <1>7, <1>8, <1>9, <1>10, <1>11, <1>12, <1>13, <1>14,
  <1>15, <1>16, <1>17, <1>18, <1>19, <1>20, <1>21, <1>22 DEF Next, RunJob, Receive

\* It holds when no run has started.
LEMMA InitInv == Init => IInv
<1> SUFFICES ASSUME Init PROVE IInv
  OBVIOUS
<1>1. /\ reuse \in BOOLEAN /\ act = [a \in Actors |-> Idle] /\ reg = {} /\ opened = {} /\ dead = {}
      /\ failed = {} /\ asked = {} /\ inflight = {}
  BY DEF Init
<1>2. \A a \in Actors : /\ DOMAIN act[a] = Fields /\ act[a].at = "idle" /\ act[a].conv = 0
                        /\ act[a].kill = FALSE /\ act[a].follow = FALSE
  BY <1>1 DEF Idle, Fields
<1> HIDE DEF Init
<1>3. Shape
  BY <1>1, <1>2 DEF Shape
<1>4. Roles
  BY <1>1, <1>2 DEF Roles, Births, RoleOf, At
<1>5. Turned
  BY <1>1, <1>2, Names DEF Turned, Turns, At
<1>6. One
  <2>1. Turns = {} /\ \A a \in Actors : ~Working(a)
    BY <1>1, <1>2 DEF Turns, Working, Busy, At
  <2>2. Single /\ Marked
    BY <1>2, <2>1, Names DEF Single, Marked, Handed, At
  <2>3. Quiet /\ Kept
    BY <1>1, <1>2, Names DEF Quiet, Kept, At
  <2> QED
    BY <2>2, <2>3 DEF One
<1> QED
  BY <1>3, <1>4, <1>5, <1>6 DEF IInv

\* Roles, turns and the one piece of work, in every reachable state.
THEOREM Invariant == Spec => []IInv
  BY InitInv, NextInv, PTL DEF Spec

\* A set whose elements are all equal has at most one.
LEMMA AtMostOne ==
  ASSUME NEW S, \A x, y \in S : x = y
  PROVE  Cardinality(S) <= 1
<1>1. CASE S = {}
  BY <1>1, FS_EmptySet
<1>2. CASE S # {}
  <2>1. PICK x : x \in S
    BY <1>2
  <2>2. S = {x}
    BY <2>1
  <2>3. Cardinality({x}) = 1
    BY FS_Singleton
  <2> QED
    BY <2>2, <2>3
<1> QED
  BY <1>1, <1>2

\* Two prompts of a job are in work at once only after an exit, a failed handshake or a
\* follow-up, and until then a job that keeps its conversation has no more than one
\* (running, Receive and finish in scheduler.go).
THEOREM OneThingAtATime == Spec => []OneAtATime
<1>1. IInv => OneAtATime
  <2> SUFFICES ASSUME IInv, upset = {}
               PROVE  Cardinality(Turns) <= 1 /\ (reuse => Cardinality(reg) <= 1)
    BY DEF OneAtATime, OverlapNeedsUpset, OneKept
  <2>1. \A p, q \in Turns : p = q
    BY DEF IInv, One, Single
  <2>2. reuse => \A c, d \in reg : c = d
    BY DEF IInv, One, Kept
  <2> QED
    BY <2>1, <2>2, AtMostOne
<1> QED
  BY Invariant, <1>1, PTL

\* Neither the run nor the receive loop closes a conversation while the job's prompt is in work
\* there (finish in scheduler.go).
THEOREM NoTurnIsCut == Spec => []TurnIsNotCut
<1>1. IInv => TurnIsNotCut
  <2> SUFFICES ASSUME IInv, NEW c \in Convs, NEW a \in Actors, a[1] # "watch",
                      act[a].conv = c, act[a].at \in {"delete", "kill"},
                      NEW q \in Turns, q.conv = c
               PROVE  FALSE
    BY DEF TurnIsNotCut, AskedOf
  <2>1. ~reuse /\ act[Run(c)].at = "done"
    BY DEF IInv, Turned, At
  <2>2. CASE a[1] = "run"
    <3>1. a = Run(c)
      BY <2>1, <2>2, Names DEF IInv, Roles, RoleOf
    <3> QED
      BY <2>1, <3>1
  <2>3. CASE a[1] = "loop"
    <3>1. a = Loop(c)
      BY <2>3, Names DEF IInv, Roles, RoleOf
    <3> QED
      BY <2>1, <3>1 DEF IInv, Turned, Over, At
  <2> QED
    BY <2>2, <2>3, Names
<1> QED
  BY Invariant, <1>1, PTL
=============================================================================
