CONSTANTS
    None = None
    SpectralFrom = 20
    Small = 1
    Wide = 4
    Circuits <- MCCircuits
    Requests <- MCRequests
SPECIFICATION Spec
INVARIANTS CapacityRespected
CHECK_DEADLOCK FALSE
