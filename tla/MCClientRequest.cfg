SPECIFICATION FairSpec
CONSTANTS
    c1 = c1
    c2 = c2
    Calls <- TwoCalls
    MaxRetries = 2
INVARIANTS
    TypeOK
    ValueWasExecuted
    TransientOnlyWhenExhausted
    RepeatedOnlyIfUnanswered
PROPERTIES
    ImplementsRemoteCall
    EveryCallReturns
CHECK_DEADLOCK FALSE
