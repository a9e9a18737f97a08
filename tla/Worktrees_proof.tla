-------------------------- MODULE Worktrees_proof --------------------------
(***************************************************************************)
(* What Worktrees promises, for any number of sessions and restarts.       *)
(* TypeOK, Kept, Apart and Removed are inductive; the three properties of  *)
(* Worktrees follow from them.                                             *)
(***************************************************************************)
EXTENDS Worktrees, TLAPS

\* Over, or on the way there.
Ending == {"teardown", "removing", "gone"}

\* A process that works in the worktree of a session that is being torn down is one that
\* Close did not wait for; so is one whose work was lost, unless git or the user said so.
Kept ==
  /\ \A s \in Sessions : phase[s] \in {"none", "setup"} => s \notin runs
  /\ \A s \in Sessions : tree[s] # "none" => s \in isolated \cup stray
  /\ \A s \in stray : phase[s] = "gone" /\ s \notin runs
  /\ \A s \in isolated \cap runs : phase[s] \in Ending => s \in outlived
  /\ \A s \in Sessions :
       phase[s] = "removing" /\ tree[s] = "dirty" => s \in force \cup unsure \cup outlived
  /\ \A s \in lost :
       s \in unsure \cup outlived \/ (s \in force \ runs /\ phase[s] = "gone")

\* The sessions in the repository itself, from their setup to the end of their process.
InRepo == {s \in Sessions \ isolated : phase[s] \in {"setup", "live"} \/ s \in runs}

Apart == \A s, t \in InRepo : s = t \/ {s, t} \in unseen

\* The router has the teardown of every worktree whose session it has not lost sight of.
Removed ==
  /\ \A s \in Sessions : phase[s] = "none" => s \notin isolated
  /\ \A s \in isolated : phase[s] # "gone" => s \in hooked \cup left
  /\ \A s \in isolated : phase[s] = "orphan" => s \in left
  /\ WorktreesGo

IInv == TypeOK /\ Kept /\ Apart /\ Removed

-----------------------------------------------------------------------------
\* The invariant holds before the first session is created.
LEMMA InitInv == Init => IInv
  BY BoundsAssumption
  DEF Init, IInv, TypeOK, Phases, Kept, InRepo, Apart, Removed, WorktreesGo, Ending

\* No step of a session, and no restart, breaks it.
LEMMA NextInv == IInv /\ [Next]_vars => IInv'
<1> SUFFICES ASSUME IInv, [Next]_vars PROVE IInv'
  OBVIOUS
<1> USE BoundsAssumption DEF IInv, Goes, history
<1>1. ASSUME NEW s \in Sessions, SetupDirect(s) PROVE IInv'
  <2>1. TypeOK'
    BY <1>1 DEF SetupDirect, Unseen, runningSessionsForDir, TypeOK, Phases
  <2>2. Kept'
    BY <1>1 DEF SetupDirect, TypeOK, Phases, Kept, Ending
  <2>3. Apart'
    BY <1>1 DEF SetupDirect, Unseen, runningSessionsForDir, TypeOK, Phases, Kept, InRepo, Apart
  <2>4. Removed'
    BY <1>1 DEF SetupDirect, TypeOK, Phases, Kept, Ending, Removed, WorktreesGo
  <2> QED
    BY <2>1, <2>2, <2>3, <2>4
<1>2. ASSUME NEW s \in Sessions, SetupBlind(s) PROVE IInv'
  <2>1. TypeOK'
    BY <1>2 DEF SetupBlind, Unseen, runningSessionsForDir, TypeOK, Phases
  <2>2. Kept'
    BY <1>2 DEF SetupBlind, TypeOK, Phases, Kept, Ending
  <2>3. Apart'
    BY <1>2 DEF SetupBlind, Unseen, runningSessionsForDir, TypeOK, Phases, Kept, InRepo, Apart
  <2>4. Removed'
    BY <1>2 DEF SetupBlind, TypeOK, Phases, Kept, Ending, Removed, WorktreesGo
  <2> QED
    BY <2>1, <2>2, <2>3, <2>4
<1>3. ASSUME NEW s \in Sessions, SetupIsolated(s) PROVE IInv'
  <2>1. TypeOK'
    BY <1>3 DEF SetupIsolated, TypeOK, Phases
  <2>2. Kept'
    BY <1>3 DEF SetupIsolated, TypeOK, Phases, Kept, Ending
  <2>3. Apart'
    BY <1>3 DEF SetupIsolated, Unseen, runningSessionsForDir, TypeOK, Phases, Kept, InRepo, Apart
  <2>4. Removed'
    BY <1>3 DEF SetupIsolated, TypeOK, Phases, Kept, Ending, Removed, WorktreesGo
  <2> QED
    BY <2>1, <2>2, <2>3, <2>4
<1>4. ASSUME NEW s \in Sessions, SetupFails(s) PROVE IInv'
  <2>1. TypeOK'
    BY <1>4 DEF SetupFails, TypeOK, Phases
  <2>2. Kept'
    BY <1>4 DEF SetupFails, TypeOK, Phases, Kept, Ending
  <2>3. Apart'
    BY <1>4 DEF SetupFails, Unseen, runningSessionsForDir, TypeOK, Phases, Kept, InRepo, Apart
  <2>4. Removed'
    BY <1>4 DEF SetupFails, TypeOK, Phases, Kept, Ending, Removed, WorktreesGo
  <2> QED
    BY <2>1, <2>2, <2>3, <2>4
<1>5. ASSUME NEW s \in Sessions, Start(s) PROVE IInv'
  <2>1. TypeOK'
    BY <1>5 DEF Start, TypeOK, Phases
  <2>2. Kept'
    BY <1>5 DEF Start, TypeOK, Phases, Kept, Ending
  <2>3. Apart'
    BY <1>5 DEF Start, TypeOK, Phases, Kept, InRepo, Apart
  <2>4. Removed'
    BY <1>5 DEF Start, TypeOK, Phases, Kept, Ending, Removed, WorktreesGo
  <2> QED
    BY <2>1, <2>2, <2>3, <2>4
<1>6. ASSUME NEW s \in Sessions, StartFails(s) PROVE IInv'
  <2>1. TypeOK'
    BY <1>6 DEF StartFails, TypeOK, Phases
  <2>2. Kept'
    BY <1>6 DEF StartFails, TypeOK, Phases, Kept, Ending
  <2>3. Apart'
    BY <1>6 DEF StartFails, TypeOK, Phases, Kept, InRepo, Apart
  <2>4. Removed'
    BY <1>6 DEF StartFails, TypeOK, Phases, Kept, Ending, Removed, WorktreesGo
  <2> QED
    BY <2>1, <2>2, <2>3, <2>4
<1>7. ASSUME NEW s \in Sessions, Work(s) PROVE IInv'
  <2>1. TypeOK'
    BY <1>7 DEF Work, TypeOK, Phases
  <2>2. Kept'
    BY <1>7 DEF Work, TypeOK, Phases, Kept, Ending
  <2>3. Apart'
    BY <1>7 DEF Work, TypeOK, Phases, Kept, InRepo, Apart
  <2>4. Removed'
    BY <1>7 DEF Work, TypeOK, Phases, Kept, Ending, Removed, WorktreesGo
  <2> QED
    BY <2>1, <2>2, <2>3, <2>4
<1>8. ASSUME NEW s \in Sessions, Commit(s) PROVE IInv'
  <2>1. TypeOK'
    BY <1>8 DEF Commit, TypeOK, Phases
  <2>2. Kept'
    BY <1>8 DEF Commit, TypeOK, Phases, Kept, Ending
  <2>3. Apart'
    BY <1>8 DEF Commit, TypeOK, Phases, Kept, InRepo, Apart
  <2>4. Removed'
    BY <1>8 DEF Commit, TypeOK, Phases, Kept, Ending, Removed, WorktreesGo
  <2> QED
    BY <2>1, <2>2, <2>3, <2>4
<1>9. ASSUME NEW s \in Sessions, Exits(s) PROVE IInv'
  <2>1. TypeOK'
    BY <1>9 DEF Exits, TypeOK, Phases
  <2>2. Kept'
    BY <1>9 DEF Exits, TypeOK, Phases, Kept, Ending
  <2>3. Apart'
    BY <1>9 DEF Exits, TypeOK, Phases, Kept, InRepo, Apart
  <2>4. Removed'
    BY <1>9 DEF Exits, TypeOK, Phases, Kept, Ending, Removed, WorktreesGo
  <2> QED
    BY <2>1, <2>2, <2>3, <2>4
<1>10. ASSUME NEW s \in Sessions, NEW c \in BOOLEAN, closeConversation(s, c) PROVE IInv'
  <2>1. TypeOK'
    BY <1>10 DEF closeConversation, TypeOK, Phases
  <2>2. Kept'
    BY <1>10 DEF closeConversation, TypeOK, Phases, Kept, Ending
  <2>3. Apart'
    BY <1>10 DEF closeConversation, TypeOK, Phases, Kept, InRepo, Apart
  <2>4. Removed'
    BY <1>10 DEF closeConversation, TypeOK, Phases, Kept, Ending, Removed, WorktreesGo
  <2> QED
    BY <2>1, <2>2, <2>3, <2>4
<1>11. ASSUME NEW s \in Sessions, ProcClose(s) PROVE IInv'
  <2>1. TypeOK'
    BY <1>11 DEF ProcClose, TypeOK, Phases
  <2>2. Kept'
    BY <1>11 DEF ProcClose, TypeOK, Phases, Kept, Ending
  <2>3. Apart'
    BY <1>11 DEF ProcClose, TypeOK, Phases, Kept, InRepo, Apart
  <2>4. Removed'
    BY <1>11 DEF ProcClose, TypeOK, Phases, Kept, Ending, Removed, WorktreesGo
  <2> QED
    BY <2>1, <2>2, <2>3, <2>4
<1>12. ASSUME NEW s \in Sessions, ProcCloseReturns(s) PROVE IInv'
  <2>1. TypeOK'
    BY <1>12 DEF ProcCloseReturns, TypeOK, Phases
  <2>2. Kept'
    BY <1>12 DEF ProcCloseReturns, TypeOK, Phases, Kept, Ending
  <2>3. Apart'
    BY <1>12 DEF ProcCloseReturns, TypeOK, Phases, Kept, InRepo, Apart
  <2>4. Removed'
    BY <1>12 DEF ProcCloseReturns, TypeOK, Phases, Kept, Ending, Removed, WorktreesGo
  <2> QED
    BY <2>1, <2>2, <2>3, <2>4
<1>13. ASSUME NEW s \in Sessions, NoTeardown(s) PROVE IInv'
  <2>1. TypeOK'
    BY <1>13 DEF NoTeardown, TypeOK, Phases
  <2>2. Kept'
    BY <1>13 DEF NoTeardown, TypeOK, Phases, Kept, Ending
  <2>3. Apart'
    BY <1>13 DEF NoTeardown, TypeOK, Phases, Kept, InRepo, Apart
  <2>4. Removed'
    BY <1>13 DEF NoTeardown, TypeOK, Phases, Kept, Ending, Removed, WorktreesGo
  <2> QED
    BY <2>1, <2>2, <2>3, <2>4
<1>14. ASSUME NEW s \in Sessions, TeardownKeeps(s) PROVE IInv'
  <2>1. TypeOK'
    BY <1>14 DEF TeardownKeeps, TypeOK, Phases
  <2>2. Kept'
    BY <1>14 DEF TeardownKeeps, TypeOK, Phases, Kept, Ending
  <2>3. Apart'
    BY <1>14 DEF TeardownKeeps, TypeOK, Phases, Kept, InRepo, Apart
  <2>4. Removed'
    BY <1>14 DEF TeardownKeeps, TypeOK, Phases, Kept, Ending, Removed, WorktreesGo
  <2> QED
    BY <2>1, <2>2, <2>3, <2>4
<1>15. ASSUME NEW s \in Sessions, TeardownGoesOn(s) PROVE IInv'
  <2>1. TypeOK'
    BY <1>15 DEF TeardownGoesOn, TypeOK, Phases
  <2>2. Kept'
    BY <1>15 DEF TeardownGoesOn, TypeOK, Phases, Kept, Ending
  <2>3. Apart'
    BY <1>15 DEF TeardownGoesOn, TypeOK, Phases, Kept, InRepo, Apart
  <2>4. Removed'
    BY <1>15 DEF TeardownGoesOn, TypeOK, Phases, Kept, Ending, Removed, WorktreesGo
  <2> QED
    BY <2>1, <2>2, <2>3, <2>4
<1>16. ASSUME NEW s \in Sessions, TeardownCannotTell(s) PROVE IInv'
  <2>1. TypeOK'
    BY <1>16 DEF TeardownCannotTell, TypeOK, Phases
  <2>2. Kept'
    BY <1>16 DEF TeardownCannotTell, TypeOK, Phases, Kept, Ending
  <2>3. Apart'
    BY <1>16 DEF TeardownCannotTell, TypeOK, Phases, Kept, InRepo, Apart
  <2>4. Removed'
    BY <1>16 DEF TeardownCannotTell, TypeOK, Phases, Kept, Ending, Removed, WorktreesGo
  <2> QED
    BY <2>1, <2>2, <2>3, <2>4
<1>17. ASSUME NEW s \in Sessions, Remove(s) PROVE IInv'
  <2>1. TypeOK'
    BY <1>17 DEF Remove, TypeOK, Phases
  <2>2. Kept'
    BY <1>17 DEF Remove, TypeOK, Phases, Kept, Ending
  <2>3. Apart'
    BY <1>17 DEF Remove, TypeOK, Phases, Kept, InRepo, Apart
  <2>4. Removed'
    BY <1>17 DEF Remove, TypeOK, Phases, Kept, Ending, Removed, WorktreesGo
  <2> QED
    BY <2>1, <2>2, <2>3, <2>4
<1>18. ASSUME NEW s \in Sessions, RemoveFails(s) PROVE IInv'
  <2>1. TypeOK'
    BY <1>18 DEF RemoveFails, TypeOK, Phases
  <2>2. Kept'
    BY <1>18 DEF RemoveFails, TypeOK, Phases, Kept, Ending
  <2>3. Apart'
    BY <1>18 DEF RemoveFails, TypeOK, Phases, Kept, InRepo, Apart
  <2>4. Removed'
    BY <1>18 DEF RemoveFails, TypeOK, Phases, Kept, Ending, Removed, WorktreesGo
  <2> QED
    BY <2>1, <2>2, <2>3, <2>4
<1>19. ASSUME NEW s \in Sessions, Adopt(s) PROVE IInv'
  <2>1. TypeOK'
    BY <1>19 DEF Adopt, TypeOK, Phases
  <2>2. Kept'
    BY <1>19 DEF Adopt, TypeOK, Phases, Kept, Ending
  <2>3. Apart'
    BY <1>19 DEF Adopt, TypeOK, Phases, Kept, InRepo, Apart
  <2>4. Removed'
    BY <1>19 DEF Adopt, TypeOK, Phases, Kept, Ending, Removed, WorktreesGo
  <2> QED
    BY <2>1, <2>2, <2>3, <2>4
<1>20. ASSUME NEW s \in Sessions, AdoptUnhooked(s) PROVE IInv'
  <2>1. TypeOK'
    BY <1>20 DEF AdoptUnhooked, TypeOK, Phases
  <2>2. Kept'
    BY <1>20 DEF AdoptUnhooked, TypeOK, Phases, Kept, Ending
  <2>3. Apart'
    BY <1>20 DEF AdoptUnhooked, TypeOK, Phases, Kept, InRepo, Apart
  <2>4. Removed'
    BY <1>20 DEF AdoptUnhooked, TypeOK, Phases, Kept, Ending, Removed, WorktreesGo
  <2> QED
    BY <2>1, <2>2, <2>3, <2>4
<1>21. ASSUME NEW s \in Sessions, OrphanEnds(s) PROVE IInv'
  <2>1. TypeOK'
    BY <1>21 DEF OrphanEnds, TypeOK, Phases
  <2>2. Kept'
    BY <1>21 DEF OrphanEnds, TypeOK, Phases, Kept, Ending
  <2>3. Apart'
    BY <1>21 DEF OrphanEnds, TypeOK, Phases, Kept, InRepo, Apart
  <2>4. Removed'
    BY <1>21 DEF OrphanEnds, TypeOK, Phases, Kept, Ending, Removed, WorktreesGo
  <2> QED
    BY <2>1, <2>2, <2>3, <2>4
<1>22. ASSUME Restart PROVE IInv'
  <2>1. TypeOK'
    BY <1>22 DEF Restart, TypeOK, Phases
  <2>2. Kept'
    BY <1>22 DEF Restart, TypeOK, Phases, Kept, Ending
  <2>3. Apart'
    BY <1>22 DEF Restart, TypeOK, Phases, Kept, InRepo, Apart
  <2>4. Removed'
    BY <1>22 DEF Restart, TypeOK, Phases, Kept, Ending, Removed, WorktreesGo
  <2> QED
    BY <2>1, <2>2, <2>3, <2>4
<1>23. CASE UNCHANGED vars
  BY <1>23 DEF vars, TypeOK, Kept, InRepo, Apart, Removed, WorktreesGo, Ending
<1> QED
  BY <1>1, <1>2, <1>3, <1>4, <1>5, <1>6, <1>7, <1>8, <1>9, <1>10, <1>11, <1>12, <1>13, <1>14, <1>15, <1>16, <1>17, <1>18, <1>19, <1>20, <1>21, <1>22, <1>23 DEF Next

-----------------------------------------------------------------------------
\* The inductive invariant holds in every behaviour; the types are part of it.
THEOREM Invariant == Spec => []IInv
  BY InitInv, NextInv, PTL DEF Spec

\* Whatever the user, the agents, the watcher and a restart do in which order, uncommitted
\* work goes only by a confirmed close, a git status without an answer, or a process that the
\* router took for ended.
THEOREM WorkIsNeverLost == Spec => []WorkIsKept
<1>1. IInv => WorkIsKept
  BY DEF IInv, Kept, WorkIsKept
<1> QED
  BY <1>1, Invariant, PTL

\* Two registered sessions never share the repository if SetupSession could see them both.
THEOREM SessionsAreIsolated == Spec => []Isolated
<1>1. IInv => Isolated
  BY DEF IInv, Apart, InRepo, Isolated, runningSessionsForDir
<1> QED
  BY <1>1, Invariant, PTL

\* A clean worktree of a session that is over is one that nobody was left to remove, or whose
\* git command was reported to have failed, or that a process outlived: worktree.go forgets no
\* other, whether the session was closed, crashed, was adopted or never started.
THEOREM NoWorktreeIsForgotten == Spec => []WorktreesGo
<1>1. IInv => WorktreesGo
  BY DEF IInv, Removed
<1> QED
  BY <1>1, Invariant, PTL
=============================================================================
