CONSTANTS
  Bitmap = bitmap
  Junk = junk
  Magic = magic
  Plain = plain
  Other = other
  Pool <- MC_Pool
  Values <- MC_Values
  TagsPerBlock = 2
  RevokesPerBlock = 1
  Setups <- MC_Setups
  StopIn <- MC_StopLast
  AbortFrees = FALSE
  Unrevoked = FALSE
SPECIFICATION Spec
INVARIANTS NoDangling LogSound NoStaleCommit
PROPERTY KeepsTransactions
CHECK_DEADLOCK FALSE
