SPECIFICATION FairSpec
CONSTANTS
    q1 = q1
    q2 = q2
    w1 = w1
    w2 = w2
    NoWorker = NoWorker
    Questions = {q1}
    Workers = {w1}
    MaxAnswers = 1
    MAX_ATTEMPTS = 2
    MaxRetries = 0
    Ingested = {"none"}
    Moves <- MCNoMoves
    Attached = {q1}
    Crashes = TRUE
    LateAttach = {}
    Outages = FALSE
CHECK_DEADLOCK FALSE
PROPERTIES
    AttachmentsProcessed
