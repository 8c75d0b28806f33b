SPECIFICATION Spec
CONSTANTS
    a = a
    m = m
    n = n
    ro = ro
    t = t
    tt = tt
    i1 = i1
    h1 = h1
    h2 = h2
    d = d
    u1 = u1
    u2 = u2
    co1 = co1
    co2 = co2
    x1 = x1
    Absent = Absent
    NoEntry = NoEntry
    NoRequest = NoRequest
    Membership <- ThreeMemberships
    Role <- OneRole
    Title <- TwoTitles
    Permission <- SomePermissions
    Standing <- OneStanding
    Matrix <- SomeRows
    Department <- OneDepartment
    User <- TwoUsers
    Company <- TwoCompanies
    UserOf <- Users
    CompanyOf <- Companies
    PlacedIn <- Places
    Rule <- OneRule
    Handler <- TwoHandlers
    Instance <- OneInstance
    Seeded <- AMember
    HeldAtStart <- Held
    GrantedAtStart <- Granted
    TTL = 2
    MaxEdits = 1
INVARIANTS TypeOK
PROPERTIES DecisionsStandUnlessRaced WithdrawalEndsInTime GrantIsSeenInTime
SYMMETRY Symmetry
CHECK_DEADLOCK FALSE
