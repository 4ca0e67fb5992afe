--------------------------- MODULE MCStewardInbox ---------------------------
(* Small instances of StewardInbox for TLC.                                *)
EXTENDS StewardInbox, TLC

CONSTANTS s1, t1, f1, f2

Seed(type, important, x, subject, role) ==
    [type |-> type, important |-> important, text |-> x,
     face |-> [subject |-> subject, title |-> t1, role |-> role]]

Pol(merge, stale, delete) ==
    [mode |-> "manual", autoMerge |-> merge, autoStale |-> stale,
     autoDelete |-> delete]

\* A working and a long-lived memory on one subject.
KeepSeeds == {Seed("working", FALSE, {f1}, s1, "plain"),
              Seed("semantic", FALSE, {f1, f2}, s1, "plain")}

Switched == {Pol(TRUE, TRUE, TRUE), [Pol(FALSE, FALSE, FALSE) EXCEPT !.mode = "off"]}

\* Two memories that may contradict each other, or be told apart by one role.
ReviewSeeds == {Seed("semantic", TRUE, {f1}, s1, "lesson"),
                Seed("episodic", FALSE, {f1}, s1, "terminal")}

NoAuto == {Pol(FALSE, FALSE, FALSE)}

Symmetry == Permutations(Ids) \cup Permutations(Items)
=============================================================================
