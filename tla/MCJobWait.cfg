SPECIFICATION FairSpec
CONSTANTS
    s1 = s1
    a1 = a1
    SyncWaiters <- OneSync
    AsyncWaiters <- OneAsync
    Timeouts <- MCTimeouts
    PollInterval = 1
    OldOutcomes = {"running"}
    MaxNow = 2
    ClockSteps = 1
INVARIANTS
    TypeOK
    ReturnedIsFinal
    SuccessIsReal
    OutcomeNeverImproves
    TimeoutOnlyIfUnfinished
PROPERTY
    EveryWaitEnds
CHECK_DEADLOCK FALSE
