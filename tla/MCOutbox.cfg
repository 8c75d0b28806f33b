\* An endless stream of events, more of them than a batch takes, two workers and two faults.
SPECIFICATION FairSpec
CONSTANTS
    e1 = e1
    e2 = e2
    e3 = e3
    w1 = w1
    w2 = w2
    NoEvent = NoEvent
    Event <- ThreeEvents
    Worker <- TwoWorkers
    Handled <- TwoHandled
    BatchSize = 2
    MaxRetries = 2
    MaxAge = 1
    MaxFaults = 2
INVARIANTS
    TypeOK
    OneOwner
    BatchIsFresh
    AtMostOneSuccess
    RetryBudget
    ProcessedWasDelivered
PROPERTIES
    ImplementsEventLife
    EventuallyTerminal
CHECK_DEADLOCK FALSE
