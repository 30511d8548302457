SPECIFICATION Spec
CONSTANTS
    main = main
    pub = pub
    run1 = run1
    run2 = run2
    stop1 = stop1
    stop2 = stop2
    t1 = t1
    h1 = h1
    h2 = h2
    Procs <- PairProcs
    Role <- PairRole
    Topics <- OneTopic
    Handlers <- TwoHandlers
    MaxStart = 2
    MaxSubs = 2
    Orderly = FALSE
INVARIANTS StartEndsNormally
