SPECIFICATION Spec
CONSTANTS
  Components = {"a", "b", "ab", "", "."}
  Archives <- MC_Archives
  Locals <- MC_Locals
  NoRoot = NoRoot
  Perms = {m1, m3}
  NewPerm <- NewPerms
  Owners = {0, 1}
  Contents = {c1, c2}
  NoContent = NoContent
  Adds <- AddPaths
  Others <- OtherPaths
  MaxTop = 3
  m1 = m1
  m2 = m2
  m3 = m3
  c1 = c1
  c2 = c2
CHECK_DEADLOCK FALSE
INVARIANTS
  NoNamesakes
  MergeDone
PROPERTIES
  MergeKeepsOrder
  FreshInodes
  KeepsPromise
