-------------------------- MODULE MCArchiveSweep --------------------------
(* Small instances of ArchiveSweep for TLC.                                *)
EXTENDS ArchiveSweep, TLC

\* Ids are interchangeable: no action or property orders them.
Symmetry == Permutations(Ids)
=============================================================================
