SPECIFICATION Spec
CONSTANTS
    None = None
    s1 = s1
    t1 = t1
    f1 = f1
    f2 = f2
    Ids = {i1, i2}
    Subjects = {s1}
    Engineering = {s1}
    Titles = {t1}
    Roles = {"plain", "lesson", "terminal"}
    Facts = {f1, f2}
    Items = {n1}
    Runners = {r1}
    Resolvers = {q1}
    Seeds <- KeepSeeds
    Policies <- Switched
    Decisions = {"mark_outdated", "promote", "verify", "suppress"}
    Texts = {{f1}, {f1, f2}}
    Kinds = {"edit", "write", "verify", "delete", "mark", "promote", "patch"}
    MaxOps = 4
    MaxRuns = 1
SYMMETRY Symmetry
PROPERTIES
    AutoSparesCanonical
    MergeKeepsFacts
CHECK_DEADLOCK FALSE
