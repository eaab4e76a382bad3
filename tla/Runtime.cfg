SPECIFICATION LinkedSpec
CONSTANTS
    Objects <- MCObjects
    HeapBases = {40, 48}
    HeapEnd = 56
    CHAR_BIT = 4
    Sizes = {2, 3, 6, 10}
    Parts <- MCParts
    Pointers <- MCPointers
    MaxBlocks = 3
    GlobalEnd = 22
    StaticEnd = 33
    HEAP_SEGMENT = 8
    WORDBITS = 64
    LookupReturns = "leaf"
    ShrinksPartly = FALSE
    BittreeSizes = {3, 10}
INVARIANTS
    AnswersAgree
    InitializedIffWritten
    FreeIsNullified
    BittreeAnswers
    BittreeInitialized
    BittreeIsExact
    HeapIsCounted
PROPERTIES
    KeepsTheBlocks
    BittreeKeepsTheBlocks
VIEW LinkedView
CHECK_DEADLOCK FALSE
