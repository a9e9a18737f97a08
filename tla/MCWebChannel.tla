--------------------------- MODULE MCWebChannel ---------------------------
(* Goroutines are interchangeable. *)
EXTENDS WebChannel, TLC

Symmetry == Permutations(Goroutines)
=============================================================================
