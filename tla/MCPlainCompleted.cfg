SPECIFICATION Spec
CONSTANTS
    p1 = p1
    p2 = p2
    worker = worker
    Ids <- TwoIds
    Holders <- OneHolder
    MaxCopies = 1
    MaxListed = 2
    MaxTotal = 2
    NoReport = NoReport
    NotGiven = NotGiven
SYMMETRY Symmetric
INVARIANTS
    NeverPlainCompleted
