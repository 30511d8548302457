SPECIFICATION Spec
CONSTANTS
    main = main
    pub = pub
    run1 = run1
    run2 = run2
    stop1 = stop1
    stop2 = stop2
    t1 = t1
    h1 = h1
    h2 = h2
    Procs <- FreeProcs
    Role <- FreeRole
    Topics <- OneTopic
    Handlers <- OneHandler
    MaxStart = 2
    MaxSubs = 1
    Orderly = FALSE
INVARIANTS TypeOK PublishHasBackend
CHECK_DEADLOCK FALSE
SYMMETRY Alike
