SPECIFICATION Spec
CONSTANTS
    s1 = s1
    a1 = a1
    SyncWaiters <- NoWaiters
    AsyncWaiters <- OneAsync
    Timeouts <- MCTimeouts
    PollInterval = 1
    OldOutcomes = {"running"}
    MaxNow = 3
    ClockSteps = 0
INVARIANT
    AsyncTimeoutOnlyIfUnfinished
CHECK_DEADLOCK FALSE
