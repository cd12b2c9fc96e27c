SPECIFICATION Spec
CONSTANTS
  Commands <- MCCommands
  Names <- MCNames
  Files <- MCFiles
  Locked = {"locked"}
  Present = {"stdin", "a", "b", "locked"}
  Templates = {"letter"}
  Keys = {"cc", "title"}
  None = None
INVARIANTS
  ExtensionsAsAsked
  ConversionDelivered
  DataOfPairs
CHECK_DEADLOCK FALSE
