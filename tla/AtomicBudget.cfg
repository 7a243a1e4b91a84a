\* Three clients on two units: one can be starved of the last unit by either of the
\* others while both are between a load and a CAS.  MaxU64 = 3 makes release's
\* saturating_add saturate for real.
CONSTANTS
  Clients = {c1, c2, c3}
  Costs = {1, 2}
  Capacity = 2
  MaxU64 = 3
  NotLoaded = NotLoaded
  MaxRefills = 1
SPECIFICATION FairSpec
INVARIANTS
  TypeOK
  Conservation
  EpochBound
PROPERTY ImplementsGuard
PROPERTY SpinsOnlyUnderContention
