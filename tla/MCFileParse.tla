---------------------------- MODULE MCFileParse ----------------------------
(* Files of one content, and processes, are interchangeable. *)
EXTENDS FileParse, TLC

Symmetry == Permutations(File) \cup Permutations(Process)
=============================================================================
