---------------------------- MODULE MCWorktrees ----------------------------
\* Instance of Worktrees for TLC.
EXTENDS Worktrees, TLC

Symmetry == Permutations(Sessions)
=============================================================================
