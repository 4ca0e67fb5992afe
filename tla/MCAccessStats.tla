--------------------------- MODULE MCAccessStats ---------------------------
(* Small instances of AccessStats for TLC.                                 *)
EXTENDS AccessStats, TLC

Symmetry == Permutations(Rows) \cup Permutations(Requests)
=============================================================================
