\* Two estimates fill the bucket; usages go below, to and above an estimate.
CONSTANTS
  Handles = {r1, r2, r3}
  Estimates = {1, 2}
  Usages = {0, 2}
  Capacity = 3
  MaxU64 = 20
  NotLoaded = NotLoaded
SPECIFICATION FairSpec
CHECK_DEADLOCK FALSE
INVARIANTS
  TypeOK
  NoOverCommit
  BooksBalance
PROPERTY ImplementsTokenBudget
PROPERTY LoopsSpinOnlyUnderContention
