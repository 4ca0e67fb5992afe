----------------------- MODULE MCKnowledgeLifecycle -----------------------
(* Small instances of KnowledgeLifecycle for TLC.                          *)
EXTENDS KnowledgeLifecycle, TLC

\* Ids are interchangeable: no action or property orders them.
Symmetry == Permutations(Ids)
=============================================================================
