SPECIFICATION Spec
CONSTANTS
    q1 = q1
    q2 = q2
    w1 = w1
    w2 = w2
    NoWorker = NoWorker
    Questions = {q1}
    Workers = {w1, w2}
    MaxAnswers = 2
    MAX_ATTEMPTS = 1
    MaxRetries = 1
    Ingested = {"new", "listed"}
    Moves <- MCNoMoves
    Attached = {}
    Crashes = TRUE
    LateAttach = {}
    Outages = FALSE
SYMMETRY Symmetry
CHECK_DEADLOCK FALSE
INVARIANTS
    TypeOK
    ConclusionsReported
PROPERTIES
    ClosedForGood
    ImplementsHandover
