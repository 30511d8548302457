SPECIFICATION Spec
CONSTANTS
    Files <- AllFiles
    MaxLines = 4
INVARIANT ParsesMeaning
