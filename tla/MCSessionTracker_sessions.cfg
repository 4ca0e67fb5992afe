SPECIFICATION TrackerSpec
CONSTANTS
    NoSession = NoSession
    NoSid = NoSid
    Lines = {"known", "new", "chore"}
    Candidates = {"known", "new"}
    Chores = {"chore"}
    Unsure = {}
    Replacing = {}
    Stable = {}
    Strict = {}
    Related <- NewReplacesKnown
    Sids = {s1}
    MaxFailures = 1
    MinEvents = 2
    Heavy = {"known", "new"}
    MaxActivities = 2
    Workers = 1
    SuppressReviewQueue = FALSE
    KnownLines <- TheKnown
    TrackedLines = {"known", "chore"}
    OtherLines = {"new", "known"}
    Requested <- TheRequests
    MaxInputs = 2
INVARIANTS
    CheckpointsDrained
    OneSummaryPerSession
PROPERTIES
    CandidatesSettled
    SessionEnds
CHECK_DEADLOCK FALSE
