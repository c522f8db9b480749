SPECIFICATION Spec
CONSTANTS
  Components <- MC_Components
  Bare <- MC_Bare
  Ids = {1, 2, 3}
  Root = 0
  FsPaths <- AllPaths
  Archives <- AllArchives
  Modes = {m1}
  Owners = {0}
  RootMode = m1
  RootOwner = 0
  Contents = {c1}
  Targets = {t1}
  NoFile = NoFile
  NoData = NoData
  NoFs = NoFs
  m1 = m1
  m2 = m2
  c1 = c1
  c2 = c2
  t1 = t1
INVARIANTS
  OneHome
  NamesFollowPlaces
  EveryNameIsFound
  RoundTrip
PROPERTIES
  NoNamesakes
