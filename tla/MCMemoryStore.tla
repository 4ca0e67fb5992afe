--------------------------- MODULE MCMemoryStore ---------------------------
(* Small instances of MemoryStore for TLC.                                 *)
EXTENDS MemoryStore, TLC

\* Ids, bodies and processes of one kind are interchangeable.
Symmetry == Permutations(Ids) \cup Permutations(Bodies)
              \cup Permutations(Writers) \cup Permutations(Clis)
=============================================================================
