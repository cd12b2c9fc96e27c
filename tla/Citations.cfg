SPECIFICATION Spec
CONSTANTS
  Keys = {k1, k2}
  Notes = {n1, n2}
  Empty = Empty
  Dash = Dash
  None = None
  MaxCites = 3
INVARIANTS
  WellBraced
  NotesKept
  AuthorsSuppressed
  Grouping
CHECK_DEADLOCK FALSE
