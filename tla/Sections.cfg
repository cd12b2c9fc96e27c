SPECIFICATION Spec
CONSTANTS
  Levels = {1, 2, 3, 4}
  MaxHeaders = 4
  MaxBlocks = 1
  MaxDocs = 2
INVARIANTS SlidesNeverNest Outline Balanced
PROPERTY NothingLeftOpen
CHECK_DEADLOCK FALSE
