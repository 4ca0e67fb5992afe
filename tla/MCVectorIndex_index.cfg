SPECIFICATION SmallSpec
CONSTANTS
    None = None
    m2 = m2
    Procs = {d, c}
    Indexers = {c}
    Paths = {p1}
    Contents <- SomeContents
    Models = {m1, m2}
    KeywordFallback = TRUE
    FailOver = FALSE
    SearchWhileIndexing = FALSE
    BatchSize = 1
    MaxEdits = 1
    MaxCalls = 1
    MaxFaults = 1
INVARIANTS
    ReadyIsComplete
    CurrentIsWhole
    OneModel
PROPERTIES
    FilesGetIndexed
CHECK_DEADLOCK FALSE
