\* One budget hook and one stuck-loop hook under three dispatches.
CONSTANTS
  Tasks <- ThreeTasks
  Hooks <- SharedHooks
  Kind <- SharedKind
  HooksOf <- SharedHooksOf
  Fingerprints <- Fps
  Calls <- SameCall
  Capacity = 2
  Cost = 1
  MaxIdentical = 2
  Decisions <- AllDecisions
  MayFail = {"before", "tool"}
  MayCancel = FALSE
SPECIFICATION FairSpec
CHECK_DEADLOCK FALSE
INVARIANTS
  IdenticalCallsBounded
PROPERTY PermitsComeBack
