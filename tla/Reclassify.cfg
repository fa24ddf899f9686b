SPECIFICATION Spec
CONSTANTS
    c1 = c1
    c2 = c2
    k1 = k1
    other = other
    w1 = w1
    w2 = w2
    Cards = {c1, c2}
    Existing = {c1}
    Categories = {k1, other}
    Enabled = {other, k1}
    Other = other
    Workers = {w1, w2}
    MaxVersion = 4
    MaxJobs = 3
    MaxWrites = 1
    Crashes = TRUE
SYMMETRY Symmetry
CHECK_DEADLOCK FALSE
INVARIANTS
    ManualIsKept
    ClassifiedIsListed
    JobsAccounted
PROPERTIES
    VersionsAdvance
