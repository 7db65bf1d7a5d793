SPECIFICATION JsonSpec
CONSTANTS
    ItemCount = 3
    StringCount = 2
    Texts <- MCTexts
    Literals <- MCLiterals
    Kinds <- MCKinds
    Inputs <- MCInputs
    NestingLimit = 2
    MaxArray = 2
    MaxRoots = 2
    MaxReferences = 1
    Jobs <- MCJobs
    Pieces <- MCPieces
    DefaultSize = 4
    IntMax = 20
    SizeMod = 42
CHECK_DEADLOCK FALSE
INVARIANTS
    MemoryIsSafe
    NothingElseLeaks
    CopiesAreEqual
    PrintStaysInside
    PrintedIsText
