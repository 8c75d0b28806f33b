SPECIFICATION Spec
CONSTANTS
    c1 = c1
    c2 = c2
    r1 = r1
    r2 = r2
    r3 = r3
    r4 = r4
    Nobody = Nobody
    Everybody = Everybody
    NoTemplate = NoTemplate
    Line <- Lines
    OtherKey <- TwoKeys
    Note = "note"
    Company <- OneCompany
    Request <- FourRequests
    Draft <- PlainDrafts
    Seed <- SeedOfType
    MaxVersion = 2
    MaxFaults = 0
PROPERTIES UpsertAlwaysCreates
SYMMETRY Symmetry
CHECK_DEADLOCK FALSE
