SPECIFICATION Spec
CONSTANTS
    None = None
    Ids = {i1, i2, i3}
    Cycles = {}
    Recounts = {}
    Requests = {r1}
    NewTypes = {"semantic"}
    NewStatuses = {"absent", "confirmed"}
    Kinds = {"edit", "delete", "mark", "promote", "merge", "decision"}
    RefsThreshold = 1
    MaxOps = 7
SYMMETRY Symmetry
INVARIANTS
    RefsCoverLinks
    ReplacedIsSuperseded
    CanonicalIsTrusted
CHECK_DEADLOCK FALSE
