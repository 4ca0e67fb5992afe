SPECIFICATION Spec
CONSTANTS
    None = None
    Ids = {i1, i2}
    Cycles = {c1}
    Recounts = {k1}
    Requests = {}
    NewTypes = {"semantic"}
    NewStatuses = {"absent", "confirmed"}
    Kinds = {"edit", "clear", "delete", "mark", "promote", "merge", "layer", "cycle", "recount"}
    RefsThreshold = 1
    MaxOps = 6
SYMMETRY Symmetry
INVARIANTS
    TypeOK
    OneReviewPerTarget
PROPERTIES
    PromotionIsVerified
    RetirementIsKept
CHECK_DEADLOCK FALSE
