CONSTANTS
  Logical <- MC_Logical
  Device <- MC_Device
  RootMax = 1
  NodeMax = 2
  InitMax = 4
  Forever = 6
  Setups <- MC_Setups
SPECIFICATION Spec
INVARIANTS TreeSound Accounted
PROPERTIES KeepsMap
CHECK_DEADLOCK FALSE
