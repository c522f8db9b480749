CONSTANTS
  Names <- MC_Names
  RootMax = 2
  NodeMax = 3
  Setups <- MC_Setups
SPECIFICATION Spec
INVARIANTS EntriesSound FindsWhatIsThere IndexSound
CHECK_DEADLOCK FALSE
