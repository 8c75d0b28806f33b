SPECIFICATION Spec
CONSTANTS
    d1 = d1
    d2 = d2
    Dispatcher <- TwoDispatchers
    MaxJobs = 3
    Limit = 2
    MaxFaults = 2
INVARIANTS TypeOK DeliveredOnce DispatchedAfterDelivery
SYMMETRY Symmetry
CHECK_DEADLOCK FALSE
