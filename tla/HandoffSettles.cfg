SPECIFICATION FairSpec
CONSTANTS
    q1 = q1
    q2 = q2
    w1 = w1
    w2 = w2
    NoWorker = NoWorker
    Questions = {q1}
    Workers = {w1, w2}
    MaxAnswers = 1
    MAX_ATTEMPTS = 2
    MaxRetries = 1
    Ingested = {"none", "new"}
    Moves <- MCOwnerMoves
    Attached = {}
    Crashes = TRUE
    LateAttach = {q1}
    Outages = TRUE
CHECK_DEADLOCK FALSE
INVARIANTS
    FailureVisible
    AttemptsBounded
PROPERTIES
    HandoffSettles
