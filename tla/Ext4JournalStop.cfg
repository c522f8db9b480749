CONSTANTS
  Bitmap = bitmap
  Junk = junk
  Magic = magic
  Plain = plain
  Other = other
  Pool <- MC_Pool
  Values <- MC_Values
  TagsPerBlock = 2
  RevokesPerBlock = 1
  Setups <- MC_OneThrough
  StopIn <- MC_StopFirst
  AbortFrees = FALSE
  Unrevoked = FALSE
SPECIFICATION Spec
INVARIANT NoStaleCommit
CHECK_DEADLOCK FALSE
