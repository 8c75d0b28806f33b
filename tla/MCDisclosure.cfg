SPECIFICATION Spec
CONSTANTS
    d1 = d1
    u1 = u1
    u2 = u2
    r1 = r1
    r2 = r2
    r3 = r3
    k1 = k1
    x1 = x1
    x2 = x2
    NoKey = NoKey
    NoRow = NoRow
    Record <- OneRecord
    User <- TwoUsers
    Plan <- TwoPlans
    Request <- ThreeRequests
    Key <- OneKey
    MaxDay = 2
    MaxFaults = 1
INVARIANTS TypeOK PublishedIsDated OneReplyPerKey AppliedOncePerKey KeyHeldWhileServed
PROPERTIES UnracedTransitions
SYMMETRY Symmetry
CHECK_DEADLOCK FALSE
