--------------------------- MODULE MCLockedCache ---------------------------
(* LockedCache for three processes that call the function again and again. *)
EXTENDS LockedCache, TLC

ProcessSymmetry == Permutations(Process)
=============================================================================
