----------------------------- MODULE Worktrees -----------------------------
(***************************************************************************)
(* The worktree hook (hook/worktree.go) in the life of the sessions of one *)
(* repository on a remote location: Router.Create asks whether sessions    *)
(* run there and gives a further one a worktree of its own; the close      *)
(* paths of router/router.go ask its guard, end the process and tear it    *)
(* down; router/adopt.go takes sessions back after a restart of the        *)
(* server.  git and the processes are at the location: any command may     *)
(* fail at any time, and so it does while the connection is down.  One     *)
(* that is reported to have failed may have done its work all the same:    *)
(* it ran into its time limit, or its answer was lost.                     *)
(***************************************************************************)
EXTENDS Integers, FiniteSets

CONSTANTS
  Sessions,      \* bound: conversations created for the repository
  MaxRestarts    \* bound: restarts of the server

ASSUME BoundsAssumption ==
  /\ IsFiniteSet(Sessions) /\ MaxRestarts \in Nat

VARIABLES
  phase,         \* where each session is between Create and the end of its teardown
  runs,          \* sessions whose agent process runs
  tree,          \* the worktree of a session: none, clean or with uncommitted changes
  isolated,      \* sessions that were given a worktree
  hooked,        \* those whose guard and teardown the router has
  force,         \* those whose last close the user has confirmed
  restarts,
  unseen,        \* history: pairs that share the repository, for a reason SetupSession names
  unsure,        \* history: those torn down when git could not say whether they were dirty
  outlived,      \* history: those with a worktree whose process ran on when it was taken for ended
  left,          \* history: those whose teardown failed, or nobody was there to do
  stray,         \* history: those whose worktree was made by a command that failed
  lost           \* history: those whose uncommitted changes were destroyed

vars == <<phase, runs, tree, isolated, hooked, force, restarts,
          unseen, unsure, outlived, left, stray, lost>>
history == <<unseen, unsure, outlived, left, stray, lost>>

Phases == {"none", "setup", "live", "closing", "teardown", "removing", "gone", "orphan"}

TypeOK ==
  /\ phase \in [Sessions -> Phases] /\ tree \in [Sessions -> {"none", "clean", "dirty"}]
  /\ runs \subseteq Sessions /\ isolated \subseteq Sessions /\ hooked \subseteq Sessions
  /\ force \subseteq Sessions
  /\ restarts \in 0..MaxRestarts
  /\ unseen \subseteq SUBSET Sessions /\ unsure \subseteq Sessions /\ outlived \subseteq Sessions
  /\ left \subseteq Sessions /\ stray \subseteq Sessions /\ lost \subseteq Sessions

Init ==
  /\ phase = [s \in Sessions |-> "none"] /\ tree = [s \in Sessions |-> "none"]
  /\ runs = {} /\ isolated = {} /\ hooked = {} /\ force = {}
  /\ restarts = 0
  /\ unseen = {} /\ unsure = {} /\ outlived = {} /\ left = {} /\ stray = {} /\ lost = {}

Goes(s, p) == phase' = [phase EXCEPT ![s] = p]

\* Mutant: the count takes the session that is being created for one of those it counts.
runningSessionsForDirOthers ==
  {s \in Sessions : phase[s] = "live" /\ \E t \in Sessions \ {s} : phase[t] = "live"}
\* Registered sessions whose base directory is the repository.
runningSessionsForDir == {s \in Sessions : phase[s] = "live"}

-----------------------------------------------------------------------------
(* Create *)

\* Sessions in the repository itself that are on their way there, or run but are not registered.
Unseen == {t \in Sessions \ isolated : phase[t] = "setup" \/ (t \in runs /\ phase[t] # "live")}

\* SetupSession finds no session running and leaves the session in the repository.  It does
\* not see those between their own look and their registration, those that are closed but
\* still run, and those the server has not adopted yet.
SetupDirect(s) ==
  /\ phase[s] = "none" /\ runningSessionsForDir = {}
  /\ Goes(s, "setup")
  /\ unseen' = unseen \cup {{s, t} : t \in Unseen}
  /\ UNCHANGED <<runs, tree, isolated, hooked, force, restarts,
                 unsure, outlived, left, stray, lost>>

\* isGitRepo gets no answer: it is taken for no.
SetupBlind(s) ==
  /\ phase[s] = "none"
  /\ Goes(s, "setup")
  /\ unseen' = unseen \cup {{s, t} : t \in Unseen \cup runningSessionsForDir}
  /\ UNCHANGED <<runs, tree, isolated, hooked, force, restarts,
                 unsure, outlived, left, stray, lost>>

\* A session runs: git worktree add, the teardown is the router's.
SetupIsolated(s) ==
  /\ phase[s] = "none" /\ runningSessionsForDir # {}
  /\ Goes(s, "setup")
  /\ tree' = [tree EXCEPT ![s] = "clean"]
  /\ isolated' = isolated \cup {s} /\ hooked' = hooked \cup {s}
  /\ UNCHANGED <<runs, force, restarts, history>>

\* ... or it is reported to have failed, and Create fails with it: there is no teardown, whether
\* the worktree was made or not.
SetupFails(s) ==
  /\ phase[s] = "none" /\ runningSessionsForDir # {}
  /\ Goes(s, "gone")
  /\ \E made \in {"none", "clean"} :
       /\ tree' = [tree EXCEPT ![s] = made]
       /\ stray' = IF made = "none" THEN stray ELSE stray \cup {s}
  /\ UNCHANGED <<runs, isolated, hooked, force, restarts, unseen, unsure, outlived, left, lost>>

\* The process is started and the session registered.
Start(s) ==
  /\ phase[s] = "setup"
  /\ Goes(s, "live") /\ runs' = runs \cup {s}
  /\ UNCHANGED <<tree, isolated, hooked, force, restarts, history>>

\* Mutant: Create returns the error and cleans nothing up.
StartFailsAtOnce(s) ==
  /\ phase[s] = "setup"
  /\ Goes(s, "gone")
  /\ UNCHANGED <<runs, tree, isolated, hooked, force, restarts, history>>
\* ... or that fails: runCleanups without force.  A location that did not answer in time may
\* have started the process.
StartFails(s) ==
  /\ phase[s] = "setup"
  /\ Goes(s, "teardown")
  /\ \/ UNCHANGED <<runs, outlived>>
     \/ runs' = runs \cup {s} /\ outlived' = outlived \cup ({s} \cap isolated)
  /\ UNCHANGED <<tree, isolated, hooked, force, restarts, unseen, unsure, left, stray, lost>>

-----------------------------------------------------------------------------
(* Agents *)

\* An agent changes files of its worktree, or commits what it changed.
Work(s) ==
  /\ s \in runs /\ tree[s] = "clean"
  /\ tree' = [tree EXCEPT ![s] = "dirty"]
  /\ UNCHANGED <<phase, runs, isolated, hooked, force, restarts, history>>

Commit(s) ==
  /\ s \in runs /\ tree[s] = "dirty"
  /\ tree' = [tree EXCEPT ![s] = "clean"]
  /\ UNCHANGED <<phase, runs, isolated, hooked, force, restarts, history>>

\* It exits, is killed, or stopped by the location when the server does not want it.
Exits(s) ==
  /\ s \in runs
  /\ runs' = runs \ {s}
  /\ UNCHANGED <<phase, tree, isolated, hooked, force, restarts, history>>

-----------------------------------------------------------------------------
(* The end *)

\* closeConversation takes a session that is registered out of the map.  By whom does not
\* matter: a user whose Stop the guards let through while the agent went on working, the
\* scheduler, the watcher of the process, a Create that fails on its first message; or, with
\* force, a user who was refused and confirmed.
closeConversation(s, confirmed) ==
  /\ phase[s] = "live"
  /\ Goes(s, "closing")
  /\ force' = IF confirmed THEN force \cup {s} ELSE force \ {s}
  /\ UNCHANGED <<runs, tree, isolated, hooked, restarts, history>>

\* Mutant: the teardown begins when the process is told to end.
ProcCloseAsync(s) ==
  /\ phase[s] = "closing"
  /\ Goes(s, "teardown")
  /\ UNCHANGED <<runs, tree, isolated, hooked, force, restarts, history>>
\* Close of the process returns: it has ended,
ProcClose(s) ==
  /\ phase[s] = "closing"
  /\ Goes(s, "teardown")
  /\ runs' = runs \ {s}
  /\ UNCHANGED <<tree, isolated, hooked, force, restarts, history>>

\* ... or goes on, because the location is not connected or it takes too long.
ProcCloseReturns(s) ==
  /\ phase[s] = "closing"
  /\ Goes(s, "teardown")
  /\ outlived' = outlived \cup ({s} \cap isolated)
  /\ UNCHANGED <<runs, tree, isolated, hooked, force, restarts, unseen, unsure, left, stray, lost>>

\* A session without a worktree, or one adopted without its hook, has nothing torn down.
NoTeardown(s) ==
  /\ phase[s] = "teardown" /\ s \notin hooked
  /\ Goes(s, "gone")
  /\ UNCHANGED <<runs, tree, isolated, hooked, force, restarts, history>>

\* teardown asks CanClose: a dirty worktree is kept,
TeardownKeeps(s) ==
  /\ phase[s] = "teardown" /\ s \in hooked \ force /\ tree[s] = "dirty"
  /\ Goes(s, "gone")
  /\ UNCHANGED <<runs, tree, isolated, hooked, force, restarts, history>>

\* ... a clean one goes, and any after a close that was confirmed,
TeardownGoesOn(s) ==
  /\ phase[s] = "teardown" /\ s \in hooked
  /\ s \in force \/ tree[s] # "dirty"
  /\ Goes(s, "removing")
  /\ UNCHANGED <<runs, tree, isolated, hooked, force, restarts, history>>

\* ... and any that git status says nothing about.
TeardownCannotTell(s) ==
  /\ phase[s] = "teardown" /\ s \in hooked \ force
  /\ Goes(s, "removing")
  /\ unsure' = unsure \cup {s}
  /\ UNCHANGED <<runs, tree, isolated, hooked, force, restarts,
                 unseen, outlived, left, stray, lost>>

\* git worktree remove --force,
Remove(s) ==
  /\ phase[s] = "removing"
  /\ Goes(s, "gone")
  /\ tree' = [tree EXCEPT ![s] = "none"]
  /\ lost' = IF tree[s] = "dirty" THEN lost \cup {s} ELSE lost
  /\ UNCHANGED <<runs, isolated, hooked, force, restarts, unseen, unsure, outlived, left, stray>>

\* ... which may fail, or be reported to have failed.
RemoveFails(s) ==
  /\ phase[s] = "removing"
  /\ Goes(s, "gone")
  /\ left' = left \cup {s}
  /\ \/ UNCHANGED <<tree, lost>>
     \/ /\ tree' = [tree EXCEPT ![s] = "none"]
        /\ lost' = IF tree[s] = "dirty" THEN lost \cup {s} ELSE lost
  /\ UNCHANGED <<runs, isolated, hooked, force, restarts, unseen, unsure, outlived, stray>>

-----------------------------------------------------------------------------
(* Restarts and adoption *)

\* The server restarts: it knows no sessions, and what it was doing is not finished.  The
\* processes go on, also those it wanted to end.
Restart ==
  LET Begun == {s \in Sessions : phase[s] \notin {"none", "gone"}} IN
  /\ restarts < MaxRestarts
  /\ restarts' = restarts + 1
  /\ phase' = [s \in Sessions |-> IF s \in runs THEN "orphan"
                                 ELSE IF s \in Begun THEN "gone" ELSE phase[s]]
  /\ hooked' = {}
  /\ left' = left \cup ((Begun \cup runs) \cap isolated)
  /\ UNCHANGED <<runs, tree, isolated, force, unseen, unsure, outlived, stray, lost>>

\* Adopt: ResumeSession takes the worktree back.
Adopt(s) ==
  /\ phase[s] = "orphan" /\ s \in runs
  /\ Goes(s, "live")
  /\ hooked' = hooked \cup ({s} \cap isolated)
  /\ left' = left \ {s}
  /\ UNCHANGED <<runs, tree, isolated, force, restarts, unseen, unsure, outlived, stray, lost>>

\* ... unless the project's hooks were changed meanwhile.
AdoptUnhooked(s) ==
  /\ phase[s] = "orphan" /\ s \in runs
  /\ Goes(s, "live")
  /\ UNCHANGED <<runs, tree, isolated, hooked, force, restarts, history>>

\* It is refused and stopped, or its process has ended (Finalize): no teardown.
OrphanEnds(s) ==
  /\ phase[s] = "orphan"
  /\ Goes(s, "gone") /\ runs' = runs \ {s}
  /\ UNCHANGED <<tree, isolated, hooked, force, restarts, history>>

-----------------------------------------------------------------------------
Next ==
  \/ \E s \in Sessions :
       \/ SetupDirect(s) \/ SetupBlind(s) \/ SetupIsolated(s) \/ SetupFails(s)
       \/ Start(s) \/ StartFails(s)
       \/ Work(s) \/ Commit(s) \/ Exits(s)
       \/ (\E confirmed \in BOOLEAN : closeConversation(s, confirmed))
       \/ ProcClose(s) \/ ProcCloseReturns(s)
       \/ NoTeardown(s) \/ TeardownKeeps(s) \/ TeardownGoesOn(s) \/ TeardownCannotTell(s)
       \/ Remove(s) \/ RemoveFails(s)
       \/ Adopt(s) \/ AdoptUnhooked(s) \/ OrphanEnds(s)
  \/ Restart

Spec == Init /\ [][Next]_vars

-----------------------------------------------------------------------------
(* Properties *)

\* Property: "Uncommitted work in the worktree is never destroyed without the user saying so"
\* (worktree.go:42-45), although the guard is asked while the agent goes on working: the
\* teardown asks again when the process has ended.  Not so when git status could not be run,
\* or the process runs on when its Close, or a Start that failed, has returned.
WorkIsKept == lost \subseteq force \cup unsure \cup outlived

\* Property: two registered sessions are in the repository itself only if the later one could
\* not see the other: "live agents don't step on one another's working tree"
\* (worktree.go:32-35).
Isolated ==
  \A s, t \in runningSessionsForDir \ isolated : s = t \/ {s, t} \in unseen

\* Property: the worktree of a session that is over goes unless it has uncommitted changes
\* (worktree.go:36-45), also when Create fails after it.  Not so when nobody was left to remove
\* it, its removal failed, the process went on, or it was made by a command that failed.
WorktreesGo ==
  \A s \in Sessions : phase[s] = "gone" /\ tree[s] = "clean" => s \in left \cup outlived \cup stray
=============================================================================
