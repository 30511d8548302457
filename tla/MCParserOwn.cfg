SPECIFICATION Spec
CONSTANTS
    Files <- AllFiles
    MaxLines = 1
INVARIANT OwnComments
