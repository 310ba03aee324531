------------------------- MODULE MCCheckPointReview -------------------------
(* CheckPointReview with interchangeable users and check points. *)
EXTENDS CheckPointReview, TLC

Symmetry == Permutations(User) \cup Permutations(CheckPoint)
=============================================================================
