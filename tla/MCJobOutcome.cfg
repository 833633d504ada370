SPECIFICATION Spec
CONSTANTS
    p1 = p1
    p2 = p2
    worker = worker
    Ids <- TwoIds
    Holders <- OneHolder
    MaxCopies = 2
    MaxListed = 3
    MaxTotal = 3
    NoReport = NoReport
    NotGiven = NotGiven
SYMMETRY Symmetric
INVARIANTS
    TypeOK
    EnrichedHonoursContract
    CompletedMeansAll
    FailedMeansNothing
    TransportKeepsCanonical
    AggregateRepairs
