SPECIFICATION Spec
CONSTANTS
    c1 = c1
    c2 = c2
    p1 = p1
    p2 = p2
    NoCard = NoCard
    Cards = {c1}
    Procs = {p1, p2}
    Proposals <- MCProposals
    ProposalCards <- MCProposalCard
    Legacy = {}
    Callers = {"approve", "proposal", "exclude"}
    Unpublishable <- MCAllPublishable
    MaxVersion = 2
    MaxEvents = 1
    MaxSnapshots = 2
    MaxPreparations = 2
    MaxExpired = 0
    MaxWindow = 0
    MaxModel = 1
SYMMETRY Symmetry
CHECK_DEADLOCK FALSE
INVARIANTS
    SearchFindsSnapshot
    OperationsAppliedOnce
    KeysIdentifyRequests
PROPERTIES
    PublishesReviewedOnly
    ProposalResolvedOnce
