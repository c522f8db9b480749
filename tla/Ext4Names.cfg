CONSTANTS
  Names <- MC_Names
  Ids = {3, 4, 5}
  Slots = 3
  Blocks = 4
  Makes <- MC_Makes
  Sources <- MC_Sources
  Targets <- MC_Targets
  Careful = TRUE
  MaxSteps = 5
SPECIFICATION Spec
INVARIANTS TreeSound LinksCounted ListsWhatStays
PROPERTIES KeepsTree OkMeansDone
CHECK_DEADLOCK FALSE
