CONSTANTS
  Byte = 4
  Near = 4
  BitmapBits = 8
  DescPerBlock = 4
  InodesPerBlock = 2
  Setups <- MC_Setups
SPECIFICATION Spec
INVARIANTS Accounted
PROPERTY GivesWhatIsFree
CHECK_DEADLOCK FALSE
