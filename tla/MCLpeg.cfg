SPECIFICATION Spec
CONSTANTS
    Chars = {"a", "b"}
    UCHAR_MAX = 3
    MAXOFF = 2
    MAXBACKVER = 8
    INITBACK = 2
    MAXBACK = 8
    INITCAPSIZE = 2
    MAXSTRCAPS = 3
    Fuel = 12
    MaxBuild = 2
    Starters <- MCStarters
    Operands <- MCOperands
    Labels <- MCLabels
    Repetitions <- MCRepetitions
    Subjects <- MCSubjects
    Inits <- MCInits
    Args <- MCArgs
INVARIANTS
    MatchMeansPeg
    StackDiscipline
    InBounds
    CapturesNested
PROPERTIES
    PendingCapturesKept
    MatchEnds
CHECK_DEADLOCK FALSE
