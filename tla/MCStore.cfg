SPECIFICATION Spec
CONSTANTS
    p1 = p1
    p2 = p2
    k1 = k1
    k2 = k2
    Procs <- Requests
    Keys <- TwoKeys
    Values <- TwoValues
    TTLs <- SomeTTLs
    Second = 2
    W = 16
    MaxNow = 4
SYMMETRY Symmetry
INVARIANTS TypeOK GetAtomic
