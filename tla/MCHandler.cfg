SPECIFICATION HandlerSpec
CONSTANTS
    Vars <- TwoVars
    Params <- ThreeParams
    GoType <- ParamTypes
    Models <- TwoModels
    Funcs <- AllFuncs
    MaxGen = 3
    MaxLen = 4
INVARIANTS TypeOK Compiles CommitPlaced
INVARIANTS HandlerTypeOK AllOrNothing MessagesKept OneReply StaleExact NilExact
PROPERTIES DurableBeforeReply ImplementsServiceCall
