SPECIFICATION Spec
CONSTANTS
  nil = nil
  Idle = Idle
  name1 = name1
  object1 = object1
  Ints = {1, 2, 4}
  Names = {name1}
  Objects = {object1}
  Hash <- MCHash
  MaxInt = 5
  Narrays = {0}
  Nhashes = {0, 3}
INVARIANTS MainPosition Border
PROPERTIES IsMap ArrayWellUsed LoopEnds
