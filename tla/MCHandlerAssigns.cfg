SPECIFICATION HandlerSpec
CONSTANTS
    Vars <- TwoVars
    Params <- ThreeParams
    GoType <- ParamTypes
    Models <- TwoModels
    Funcs <- AllFuncs
    MaxGen = 2
    MaxLen = 1
INVARIANT AssignsLegal
