SPECIFICATION Spec
CONSTANTS
    Watcher = Watcher
    None = None
    Ids = {i1, i2}
    Bodies = {b1}
    Writers = {w1}
    Walkers = {k1}
    Clis = {c1}
    Kinds = {"store", "update", "delete", "count"}
    Faults = {"embed_fails", "write_fails", "reload_fails", "watch_fails", "startup_commit"}
    MaxOps = 3
    MaxFlushes = 1
    MaxCrashes = 1
SYMMETRY Symmetry
INVARIANTS
    CacheFollowsFile
    UpdatesCurrentRow
PROPERTIES
    CacheNeverRollsBack
    TargetedNeverRollsBack
    ImplementsView
CHECK_DEADLOCK FALSE
