SPECIFICATION SmallSpec
CONSTANTS
    Missing = Missing
    Unreadable = Unreadable
    LoadError = LoadError
    NoConfig = NoConfig
    Versions = {"base", "dirs", "off", "typo", "gone", "jobs"}
    ContentOf <- TheContents
    LaterFiles <- TheLaterFiles
    Explicit = 0
    SavedMode = "manual"
    Environment <- TheEnvironment
    CommandLine <- TheCommandLine
    Cwd <- TheCwd
    Home <- TheHome
    Absolute = {}
    Outside = {}
    Markers <- TheMarkers
    SameTick = FALSE
    MaxEdits = 2
    MaxSignals = 1
    MaxCloses = 2
    MaxFaults = 1
INVARIANTS
    NothingLeftRunning
PROPERTIES
    EditsAreApplied
    WritesAreScanned
