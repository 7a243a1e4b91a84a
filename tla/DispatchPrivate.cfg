\* The host drops dispatches that wait for a tool or a policy hook, and policy
\* callbacks fail.
CONSTANTS
  Tasks <- TwoTasks
  Hooks <- PrivateHooks
  Kind <- PrivateKind
  HooksOf <- PrivateHooksOf
  Fingerprints <- Fps
  Calls <- TwoCalls
  Capacity = 2
  Cost = 2
  MaxIdentical = 3
  Decisions <- AllDecisions
  MayFail = {"before", "tool", "callback"}
  MayCancel = TRUE
SPECIFICATION Spec
CHECK_DEADLOCK FALSE
INVARIANTS
  GuardBalanced
  AdmissionBound
  CallbacksPaired
  OutcomeTraced
  LeakBound
