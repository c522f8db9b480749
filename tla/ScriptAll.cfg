SPECIFICATION Spec
CONSTANTS
  Words <- AllWords
  Comments = {"#"}
  Opening <- MCOpening
  Closing <- MCClosing
  Octal = {"755"}
  Letters = {"rwxr-xr-x"}
  Numbers = {"0", "755"}
  Joined = Joined
  NoArgs = NoArgs
  Disks <- AllDisks
  Main <- M
  PathOf <- MCPathOf
  MaxDepth = 4
CHECK_DEADLOCK FALSE
INVARIANTS
  RunsOnlyWhatIsRight
  EveryLineCounts
PROPERTIES
  Stops
