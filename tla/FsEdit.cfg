SPECIFICATION Spec
CONSTANTS
  Components <- MC_Components
  Bare <- MC_Bare
  Ids = {1, 2}
  Root = 0
  FsPaths <- EditPaths
  Archives <- CleanArchives
  Modes = {m1, m2}
  Owners = {0, 1}
  RootMode = m1
  RootOwner = 0
  Contents = {c1}
  Targets = {t1}
  NoFile = NoFile
  NoData = NoData
  NoFs = NoFs
  m1 = m1
  m2 = m2
  c1 = c1
  c2 = c2
  t1 = t1
PROPERTIES
  OkMeansDone
  KeepsPromise

