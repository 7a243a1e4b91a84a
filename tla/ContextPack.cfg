\* Up to three items of twelve shapes under 17 configurations: MaxUsize = 9 makes
\* the additions overflow for real.
CONSTANTS
  Shapes <- MCShapes
  Configs <- MCConfigs
  MaxUsize <- MCMaxUsize
  MaxGiven = 3
SPECIFICATION Spec
INVARIANTS
  FitsTheWindow
  EveryItemAccounted
  OmissionsAreReal
  ReplayByDistinctRanks
\* A pack returns and is replayed once.
CHECK_DEADLOCK FALSE
