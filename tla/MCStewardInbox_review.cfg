SPECIFICATION Spec
CONSTANTS
    None = None
    s1 = s1
    t1 = t1
    f1 = f1
    f2 = f2
    Ids = {i1, i2}
    Subjects = {s1}
    Engineering = {s1}
    Titles = {t1}
    Roles = {"plain", "lesson", "terminal"}
    Facts = {f1, f2}
    Items = {n1}
    Runners = {r1}
    Resolvers = {q1, q2}
    Seeds <- ReviewSeeds
    Policies <- NoAuto
    Decisions = {"merge", "mark_superseded", "delete"}
    Texts = {}
    Kinds = {"edit"}
    MaxOps = 3
    MaxRuns = 2
SYMMETRY Symmetry
PROPERTIES
    ImplementsInbox
    ReconcileIsRight
CHECK_DEADLOCK FALSE
