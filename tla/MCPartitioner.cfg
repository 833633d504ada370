SPECIFICATION FairSpec
CONSTANTS
    None = None
    SpectralFrom = 3
    Small = 2
    Wide = 4
    Circuits <- MCCircuits
    Requests <- MCRequests
INVARIANTS
    TypeOK
    PlanPartitionsQubits
    NoEmptyPartition
    HeuristicsNeverStuck
    GatesAccounted
    BoundariesAreShared
    CountsAgree
    EvenWithoutCoupling
PROPERTIES
    RunEnds
CHECK_DEADLOCK FALSE
