SPECIFICATION FairSpec
CONSTANTS
    Watcher = Watcher
    None = None
    Ids = {i1, i2}
    Bodies = {b1, b2}
    Writers = {w1}
    Walkers = {}
    Clis = {c1}
    Kinds = {"store", "update", "touch", "delete", "count"}
    Faults = {"embed_fails"}
    MaxOps = 3
    MaxFlushes = 0
    MaxCrashes = 1
INVARIANTS
    VectorOfItsBody
    ForeignWriteIsPending
PROPERTIES
    FileBecomesVisible
CHECK_DEADLOCK FALSE
