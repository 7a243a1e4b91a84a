------------------------------- MODULE Exchange -------------------------------
(***************************************************************************)
(* What passes between a host, a model and its tools: the model's answer is *)
(* normalized into calls, by LfmNormalizer from a text or by                *)
(* StructuredToolCallNormalizer from a provider's JSON; a tool's result is  *)
(* bounded; the history that goes back to the model is repaired.  These     *)
(* share no state: a host does one of them, on any input, and the others    *)
(* rest.                                                                    *)
(***************************************************************************)
EXTENDS LfmNormalizer, StructuredCalls, RepairHistory, ToolResultEnvelope

\* At rest, each of them is done with an empty input.
NoText ==
  /\ writing = [text |-> <<>>, written |-> <<>>, strings |-> {}, closers |-> {}, good |-> TRUE]
  /\ damage = "none" /\ remaining = <<>> /\ calls = <<>> /\ progress = "done"

NoJson ==
  /\ answer = [reader |-> "responses", value |-> Null, sent |-> <<>>]
  /\ invocations = <<>> /\ reading = "done"

NoResult ==
  /\ payload = Scalar(<<>>, 1)
  /\ config = [maxString |-> 0, maxItems |-> 0, maxTotal |-> 1, deny |-> {}, allow |-> {<<>>}]
  /\ envelope = [payload |-> payload, truncated |-> FALSE, segments |-> {}]
  /\ phase = "again"

NoHistory ==
  /\ entries = <<>> /\ next = 1 /\ order = <<>> /\ chosen = [c \in Fingerprints |-> Vacant]
  /\ hasCompleted = {} /\ output = <<>> /\ pass = 2 /\ pc = "done"

ExchangeInit ==
  \/ LfmInit /\ NoJson /\ NoResult /\ NoHistory
  \/ StructuredInit /\ NoText /\ NoResult /\ NoHistory
  \/ EnvelopeInit /\ NoText /\ NoJson /\ NoHistory
  \/ Init /\ NoText /\ NoJson /\ NoResult

ExchangeNext ==
  \/ LfmNext /\ UNCHANGED <<structuredVars, envelopeVars, vars>>
  \/ StructuredNext /\ UNCHANGED <<lfmVars, envelopeVars, vars>>
  \/ EnvelopeNext /\ UNCHANGED <<lfmVars, structuredVars, vars>>
  \/ Next /\ UNCHANGED <<lfmVars, structuredVars, envelopeVars>>

ExchangeSpec == ExchangeInit /\ [][ExchangeNext]_<<lfmVars, structuredVars, envelopeVars, vars>>
=============================================================================
