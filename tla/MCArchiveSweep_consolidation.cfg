SPECIFICATION Spec
CONSTANTS
    None = None
    Ids = {i1, i2}
    Sweeps = {s1}
    Callers = {"scheduler", "tool", "cli"}
    NewStatuses = {"confirmed"}
    Kinds = {"edit", "clear", "delete", "mark", "promote", "merge", "fails", "cancel"}
    MaxOps = 6
SYMMETRY Symmetry
INVARIANTS
    OneReviewPerTarget
    CohortIsConsolidated
CHECK_DEADLOCK FALSE
