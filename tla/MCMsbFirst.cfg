SPECIFICATION Spec
CONSTANTS
    Plans <- MCPlans
    ExactUpTo = 2
    MaxShots = 2
    MaxDelivered = 3
    NoPlan = NoPlan
INVARIANT
    FaithfulMsbFirst
CHECK_DEADLOCK FALSE
