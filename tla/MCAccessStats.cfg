SPECIFICATION AccessFairSpec
CONSTANTS
    Rows = {i1, i2}
    Requests = {r1, r2}
    QueueCap = 1
    MaxBatch = 2
    MaxRecalls = 2
    Faults = {"flush_fails", "shutdown_timeout", "listener_fails"}
INVARIANTS
    TargetedNeverExceedsAsked
    DrainedOnClose
    
PROPERTIES
    BatchIsFlushed
    CloseTerminates
CHECK_DEADLOCK FALSE
