SPECIFICATION Spec
CONSTANTS
    Main = main
    Globals = globals
    o1 = o1
    o2 = o2
    o3 = o3
    Addr = {main, globals, o1, o2, o3}
    nil = nil
    number = number
    Kinds = {"table", "userdata", "function", "thread", "string"}
    Attributes <- MCAttributes
    NTexts = 1
    MaxStack = 2
    MaxThreads = 1
    MaxOps = 3
    Heaps <- MCHeaps
INVARIANTS
    TypeOK
    NoDangling
    NothingReachableDies
    TriColour
PROPERTIES
    FinalizedOnceBeforeDeath
    GarbageFreed
