SPECIFICATION Spec
CONSTANTS
    Objects <- MCObjects
    HeapBases = {40, 48}
    HeapEnd = 64
    CHAR_BIT = 4
    Sizes = {3, 12}
    Parts <- MCParts
    Pointers <- MCPointers
    MaxBlocks = 3
    GlobalEnd = 22
    StaticEnd = 33
    HEAP_SEGMENT = 8
INVARIANTS
    InitializedAnywhere
VIEW MCView
CHECK_DEADLOCK FALSE
