SPECIFICATION FairSpec
CONSTANTS
    MaxEvents = 3
    MaxAttempts = 2
    BatchLimit = 2
    MaxRequeues = 1
    MaxStoreFaults = 1
    MaxCrashes = 1
CHECK_DEADLOCK FALSE
INVARIANTS
    TypeOK
    FullBudgetBeforeDeadLetter
    BoundedAttempts
PROPERTIES
    ImplementsDelivery
    EventsSettleWhilePublishing
    AttemptsMonotonic
