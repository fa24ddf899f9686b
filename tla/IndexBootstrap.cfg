SPECIFICATION Spec
CONSTANTS
    c1 = c1
    c2 = c2
    p1 = p1
    p2 = p2
    NoCard = NoCard
    Cards = {c1, c2}
    Procs = {p1, p2}
    Proposals <- MCNoProposals
    ProposalCards <- MCNoProposalCards
    Legacy = {c1, c2}
    Callers = {"bootstrap", "initial"}
    Unpublishable <- MCUnpublishable
    MaxVersion = 1
    MaxEvents = 0
    MaxSnapshots = 2
    MaxPreparations = 2
    MaxExpired = 1
    MaxWindow = 1
    MaxModel = 2
SYMMETRY Symmetry
CHECK_DEADLOCK FALSE
INVARIANTS
    CurrentIndexServes
PROPERTIES
    ActivatesCurrentModel
