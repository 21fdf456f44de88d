---------------------------- MODULE MCPersonLocks ----------------------------
(* Model values for PersonLocks. *)
EXTENDS PersonLocks, TLC

Symmetry == Permutations(Txns) \cup Permutations(Sessions)
=============================================================================
