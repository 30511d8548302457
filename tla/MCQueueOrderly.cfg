SPECIFICATION FairSpec
CONSTANTS
    main = main
    pub = pub
    run1 = run1
    run2 = run2
    stop1 = stop1
    stop2 = stop2
    t1 = t1
    h1 = h1
    h2 = h2
    Procs <- ServerProcs
    Role <- ServerRole
    Topics <- OneTopic
    Handlers <- TwoHandlers
    MaxStart = 2
    MaxSubs = 2
    Orderly = TRUE
INVARIANTS StartEndsNormally
PROPERTIES CloseStopsLoop AcceptedReachesAll CloseReturns
