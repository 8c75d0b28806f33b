SPECIFICATION RecSpec
CONSTANTS
    u1 = u1
    s1 = s1
    s2 = s2
    c1 = c1
    r1 = r1
    t1 = t1
    t2 = t2
    t3 = t3
    k1 = k1
    k2 = k2
    k3 = k3
    x1 = x1
    x2 = x2
    NoToken = NoToken
    NoCompany = NoCompany
    NoSession = NoSession
    NoLink = NoLink
    User <- OneUser
    Session <- TwoSessions
    Owner <- SameOwner
    Company <- OneCompany
    Request <- OneRequest
    Token <- ThreeTokens
    SingleFlight = {}
    MaxLost = 0
    Link <- ThreeLinks
    Addressee <- SameUser
    ResetLinks <- TwoResets
    Handler <- TwoHandlers
    MaxBroken = 1
SYMMETRY Symmetry
INVARIANTS
    OldPasswordSessionsEnd
    LinkResetsOnce
CHECK_DEADLOCK FALSE
