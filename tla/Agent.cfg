\* The whitelists let no agent reach itself, so MaxDepth is never met.
CONSTANTS
  Chain <- MCChain
  Short <- MCShort
  Rules <- MCRules
  Specialists <- MCSpecialists
  Fallback <- MCFallback
  Needs <- MCNeeds
  Signals = {"fanout"}
  Deltas <- MCDeltas
  MaxConfidence = 1
  Given <- MCGiven
  Hooks = 2
  Allowed <- MCAllowed
  Entry = "desk"
  Delegates = {"annex", "scout"}
  NoAgent = NoAgent
  MaxSteps = 2
  MaxDepth = 9
SPECIFICATION FairSpec
INVARIANTS
  ChainReported
  ConclusionIsLast
  HooksAgree
  StepAccounted
PROPERTIES
  DelegatesIsolated
  StepsEnd
\* A host that has stepped MaxSteps times stops.
CHECK_DEADLOCK FALSE
