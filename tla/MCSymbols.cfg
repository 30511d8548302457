SPECIFICATION Spec
CONSTANTS
    DDLLines <- SomeLines
    QueryItems <- SomeItems
    Operations <- SomeOps
    GoDecls <- SomeDecls
    Packages <- SomePackages
    Pascal <- PascalCols
    MaxItems = 5
INVARIANTS TablesDeclared QueriesLoaded ParamsPositional PackageComplete
