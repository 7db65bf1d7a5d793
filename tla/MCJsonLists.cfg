SPECIFICATION ListsSpec
CONSTANTS
    ItemCount = 5
    StringCount = 0
    Texts = {}
    Literals = {}
    Kinds <- MCKinds
    Inputs = {}
    NestingLimit = 2
    MaxArray = 2
    MaxRoots = 2
    MaxReferences = 0
CHECK_DEADLOCK FALSE
INVARIANTS
    ListsAreLinked
PROPERTIES
    ForestKept
