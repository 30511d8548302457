SPECIFICATION Spec
CONSTANTS
    Trees <- SomeTrees
    Symtabs <- SomeSymtabs
    KeyOrder <- Keys
    Reserved <- ReservedKeys
    Keywords <- KeywordKeys
    Pascal <- PascalModels
    Snake <- SnakeFields
    TableOf <- Tables
    IdTable <- IdTables
INVARIANTS KeptUnlessShadowed ModelsGenComplete CallsFit Deterministic
