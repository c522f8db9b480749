CONSTANTS
  Direct = 1
  Ids = 3
  Device = 25
  Handles = {1, 2}
  Inline = 3
  MaxTruncate = 12
  MaxSteps = 5
  Setups <- MC_Setups
SPECIFICATION Spec
INVARIANTS BlocksKept ReadsBack ShortWhenFull
PROPERTIES KeepsFile
CHECK_DEADLOCK FALSE
