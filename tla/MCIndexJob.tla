----------------------------- MODULE MCIndexJob -----------------------------
(* Small instances of IndexJob. *)
EXTENDS IndexJob, TLC

Symmetry == Permutations(Job) \cup Permutations(Handler) \cup Permutations(Path)
=============================================================================
