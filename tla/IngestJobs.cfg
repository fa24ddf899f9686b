SPECIFICATION Spec
CONSTANTS
    j1 = j1
    w1 = w1
    w2 = w2
    NoJob = NoJob
    Sources = {1, 2}
    Jobs = {j1}
    Batches <- MCBoth
    Workers = {w1, w2}
    MaxRequests = 1
    Deletions = {1}
    Layouts = TRUE
    Crashes = TRUE
SYMMETRY Symmetry
CHECK_DEADLOCK FALSE
INVARIANTS
    TypeOK
    CommittedOnce
    NothingLeftBehind
    SucceededIsComplete
    DeletedIsNotRead
