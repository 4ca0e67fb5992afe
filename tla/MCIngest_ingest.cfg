SPECIFICATION SmallSpec
CONSTANTS
    None = None
    Nil = Nil
    m1 = m1
    m2 = m2
    m3 = m3
    b1 = b1
    b2 = b2
    b3 = b3
    b4 = b4
    w1 = w1
    w2 = w2
    Ids = {m1, m2, m3}
    Contents = {b1, b2, b3, b4}
    Texts = {b1, b2, b4}
    Writers = {w1, w2}
    Recaller = "recaller"
    Indexer = "indexer"
    Callers = {w1, w2, "recaller", "indexer"}
    Facts <- TheFacts
    Size <- TheSize
    StartRows <- TheRows
    Budgets <- TheBudgets
    CliOptions <- TheOptions
    TripleExtractor <- TheExtractor
    OpenAI <- TheOpenAI
    MaxHops = 2
    Limit = 2
    Scores = {0, 500, 800}
    Configured = {"jina", "llamacpp"}
    LocalOnly = FALSE
    Sound = {"llamacpp"}
SYMMETRY Symmetry
INVARIANTS
    TextIsEmbedded
    GraphFollowsContent
    WalkIsBest
CHECK_DEADLOCK FALSE
