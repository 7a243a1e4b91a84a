\* An audit hook whose callback fails, in front of a budget hook.
CONSTANTS
  Tasks <- OneTask
  Hooks <- AuditHooks
  Kind <- AuditKind
  HooksOf <- AuditHooksOf
  Fingerprints <- Fps
  Calls <- AuditCalls
  Capacity = 1
  Cost = 1
  MaxIdentical = 3
  Decisions <- AllDecisions
  MayFail = {"tool", "callback"}
  MayCancel = FALSE
SPECIFICATION Spec
CHECK_DEADLOCK FALSE
INVARIANT NothingHeldAtRest
