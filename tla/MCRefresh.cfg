SPECIFICATION Spec
CONSTANTS
    p1 = p1
    p2 = p2
    uid = uid
    admin = admin
    Procs <- TwoRequests
    Subjects <- OneUser
    Res = 2
    TTL = 3
    MaxNow = 4
    MaxLogins = 2
SYMMETRY RequestSymmetry
INVARIANTS TypeOK ReuseOnlyIfResigned SessionsBounded JwtExpiresFirst
PROPERTIES RevokedForever LockoutBounded
