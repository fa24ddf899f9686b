SPECIFICATION Spec
CONSTANTS
    c1 = c1
    c2 = c2
    p1 = p1
    p2 = p2
    NoCard = NoCard
    Cards = {c1}
    Procs = {p1}
    Proposals <- MCNoProposals
    ProposalCards <- MCNoProposalCards
    Legacy = {}
    Callers = {"approve", "exclude", "restore"}
    Unpublishable <- MCAllPublishable
    MaxVersion = 1
    MaxEvents = 2
    MaxSnapshots = 2
    MaxPreparations = 2
    MaxExpired = 0
    MaxWindow = 0
    MaxModel = 1
CHECK_DEADLOCK FALSE
INVARIANTS
    ApprovalHealsRestore
