SPECIFICATION Spec
CONSTANTS
    a1 = a1
    r1 = r1
    r2 = r2
    r3 = r3
    r4 = r4
    NoFile = NoFile
    Asset <- OneAsset
    Request <- FourRequests
    MaxFaults = 1
INVARIANTS TypeOK ReadyHasBinary DeletedHasNoBinary
PROPERTIES DeletedForGood
SYMMETRY Symmetry
CHECK_DEADLOCK FALSE
