--------------------------- MODULE MCVectorIndex ---------------------------
(* Small instances of VectorIndex for TLC.                                 *)
EXTENDS VectorIndex

CONSTANTS m2

\* One chunk, another one, or two of which one is the same.
SomeContents == {<<"t1">>, <<"t2", "t1">>}

\* The models are interchangeable: m2 is not the first one.
SmallInit == Init /\ model # m2

SmallSpec == SmallInit /\ [][Next]_vars /\ Fairness
=============================================================================
