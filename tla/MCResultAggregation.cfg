SPECIFICATION Spec
CONSTANTS
    Plans <- MCPlans
    ExactUpTo = 2
    MaxShots = 2
    MaxDelivered = 3
    NoPlan = NoPlan
INVARIANTS
    TypeOK
    ArrivalOrderIrrelevant
    FaithfulLowestFirst
    MeasuredLowestFirst
CHECK_DEADLOCK FALSE
