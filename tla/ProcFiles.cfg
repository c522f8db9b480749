SPECIFICATION Spec
CONSTANTS
  Paths <- GivenPaths
  Outs = {"out"}
  Given <- GivenFiles
  KernelData = {k1}
  FsData = {r1}
  DtbData = {d1}
  Oss = {linux}
  Arches = {arm}
  FitOss = {linux}
  FitArches = {arm}
  Names = {}
  Addrs = {1}
  Wrong = Wrong
  Said <- GivenSaid
  EmptyFs = EmptyFs
  EmptyDtb = EmptyDtb
  NoImage = NoImage
  NoFile = NoFile
  Missing = Missing
  Broken = Broken
  Incomplete = Incomplete
  Throws = Throws
  Nothing = Nothing
  k1 = k1
  r1 = r1
  d1 = d1
  linux = linux
  arm = arm
INVARIANTS
  StoredFilesLoad
  FitReadsBack
PROPERTIES
  ErrorCostsNothing
