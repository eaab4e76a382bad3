SPECIFICATION ThreadSpec
CONSTANTS
    WORDBITS = 64
    MaxThreads = 3
    Areas = {6, 10}
    STACK_SIZE = 4
    TLS_OFFSET = 2
    TLS_SIZE = 1
INVARIANTS
    TrieOfPartitions
    FindsItsOwn
    NoFault
VIEW MCView
CHECK_DEADLOCK FALSE
