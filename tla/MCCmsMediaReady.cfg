SPECIFICATION Spec
CONSTANTS
    a1 = a1
    r1 = r1
    r2 = r2
    r3 = r3
    r4 = r4
    NoFile = NoFile
    Asset <- OneAsset
    Request <- TwoRequests
    MaxFaults = 1
PROPERTIES PresentWasUploaded
CHECK_DEADLOCK FALSE
