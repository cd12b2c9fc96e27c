SPECIFICATION Spec
CONSTANTS
    Values <- MCValues
    nil = nil
    Inputs <- MCInputs
INVARIANTS SortedAtEnd ElementsKept DepthBounded
PROPERTY SortEnds
