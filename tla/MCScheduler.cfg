SPECIFICATION Spec
CONSTANTS
    Fleets <- MCFleets
    Jobs <- MCJobs
    MaxScore = 2
    NoBackend = NoBackend
    Unlimited = Unlimited
INVARIANTS
    TypeOK
    BestAssigned
    RaisesOnlyWhenStuck
CHECK_DEADLOCK FALSE
