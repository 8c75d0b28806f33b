\* Requests of all kinds at once on a session, with the access tokens they answer
\* with; restarts may change the mode of the tokens.
SPECIFICATION AccSpec
CONSTANTS
    u1 = u1
    s1 = s1
    c1 = c1
    c2 = c2
    r1 = r1
    r2 = r2
    t1 = t1
    t2 = t2
    t3 = t3
    t4 = t4
    NoToken = NoToken
    NoCompany = NoCompany
    NoSession = NoSession
    User <- OneUser
    Session <- OneSession
    Owner <- SameOwner
    Company <- TwoCompanies
    Request <- TwoRequests
    Token <- FourTokens
    SingleFlight <- OneSession
    MaxLost = 1
    Life = 2
SYMMETRY Interchangeable
INVARIANTS
    TypeOK
    BoundToMembership
    RevokedAccessEnds
    ClientIsCurrent
    RotatedOnce
PROPERTIES
    RevokedForGood
    LoneAnswerIsCurrent
CHECK_DEADLOCK FALSE
