\* One slot, three dispatches through one budget hook.
CONSTANTS
  Tasks <- ThreeTasks
  Hooks <- BudgetOnly
  Kind <- BudgetOnlyKind
  HooksOf <- BudgetOnlyHooksOf
  Fingerprints <- Fps
  Calls <- OneCall
  Capacity = 1
  Cost = 1
  MaxIdentical = 3
  Decisions <- AllDecisions
  MayFail = {"tool"}
  MayCancel = FALSE
SPECIFICATION Spec
CHECK_DEADLOCK FALSE
INVARIANT AdmissionBound
