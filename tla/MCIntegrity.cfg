SPECIFICATION Spec
CONSTANTS
    Texts <- MCTexts
    Lower <- MCLower
    GateMethods <- MCMethods
    OtherAttributes = {"measure"}
    ControlFlow = {"if_else"}
    Shots = 4
    MaxQubits = 3
    MaxGates = 2
    MaxCalls = 2
    Followed <- MCFollowed
    Strategies = {"greedy"}
    MaxPartitions = 2
    MergedCounts <- MCCounts
    Providers = {"ibm"}
    Thresholds <- MCThresholds
    TopKs = {1, 2}
    MaxStages = 3
INVARIANTS
    TypeOK
    AcceptedFitsPartitioner
    TranslatorsKeepCircuit
    ProofBinds
    MostFrequentKept
CHECK_DEADLOCK FALSE
