SPECIFICATION Spec
CONSTANTS
    c1 = c1
    k1 = k1
    NoKey = NoKey
    p1 = p1
    p2 = p2
    r1 = r1
    r2 = r2
    r3 = r3
    s1 = s1
    Cards = {c1}
    Unpublishable = {}
    Sessions = {s1}
    Requests = {r1, r2, r3}
    Calls = {p1, p2}
    SemanticKeys = {k1}
    MaxVersion = 1
    MaxEdition = 2
    MaxCalls = 3
    Expiries = TRUE
SYMMETRY Symmetry
CHECK_DEADLOCK FALSE
INVARIANTS
    TypeOK
    OneTurnPerRequest
    TurnsSeeDialogue
    OffersAnsweredOnce
    ConfirmedOnce
    AskersAreAnswered
    LimitNeverRaised
PROPERTIES
    AnswersArePublic
