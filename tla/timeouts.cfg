SPECIFICATION Spec
CONSTANTS
    Paths <- AllPaths
    Values <- AllValues
    Requests <- RequestsUsed
    MaxAnnotations = 2
    Millisecond = 1
    Word = 16777216
    PortWord = 131072
    MaxInt = 262143
INVARIANTS
    LargerTimeout
