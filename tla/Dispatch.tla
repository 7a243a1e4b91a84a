------------------------------ MODULE Dispatch ------------------------------
(***************************************************************************)
(* dispatch_inner (src/src/normalizer.rs): one model turn's tool           *)
(* invocations run in order, each through every hook, while other          *)
(* dispatches run at the same time over the same hooks, the same budget    *)
(* guard and the same tools.                                               *)
(*                                                                         *)
(* Hooks are of three kinds: DispatchBudgetHook (budget.rs), StuckLoopHook *)
(* (reliability.rs) and the host's own ("policy"), which may decide        *)
(* anything.  The guard behind the budget hooks is a BudgetGuard whose     *)
(* calls take effect at one instant, as AtomicBudget's are proved to.      *)
(*                                                                         *)
(* An action is what one dispatch does between two accesses to state that  *)
(* other dispatches see (the guard, a hook's mutex) or two awaits of the   *)
(* host's code (a policy callback, a tool body).                           *)
(***************************************************************************)
EXTENDS Integers, Sequences, FiniteSets, Functions

CONSTANTS
  Tasks,          \* the dispatches
  Hooks,          \* the hook objects
  Kind,           \* Kind[h]: "budget", "stuck" or "policy"
  HooksOf,        \* HooksOf[t]: the hook slice dispatch t was given
  Fingerprints,   \* tool calls up to equality of name and arguments
  Calls,          \* Calls[t]: the invocations of dispatch t
  Capacity,       \* capacity of the guard behind the budget hooks
  Cost,           \* cost_per_invocation of the budget hooks
  MaxIdentical,   \* max_identical_calls of the stuck-loop hooks
  Decisions,      \* what policy hooks may decide
  MayFail,        \* which of the host's code may fail: "before", "tool", "callback"
  MayCancel       \* may the host drop a dispatch future?

ASSUME FiniteAssumption == IsFiniteSet(Tasks) /\ IsFiniteSet(Hooks)
ASSUME BudgetAssumption == Capacity \in Nat /\ Cost \in Nat
ASSUME StuckAssumption == MaxIdentical \in Nat
ASSUME HooksAssumption ==
  /\ Kind \in [Hooks -> {"budget", "stuck", "policy"}]
  /\ HooksOf \in [Tasks -> Seq(Hooks)]
  /\ Calls \in [Tasks -> Seq(Fingerprints)]
ASSUME HostAssumption ==
  /\ Decisions \subseteq {"Continue", "Skip", "Terminate"}
  /\ MayFail \subseteq {"before", "tool", "callback"}
  /\ MayCancel \in BOOLEAN

VARIABLES
  available,   \* units left in the guard
  reserved,    \* reserved[h]: DispatchBudgetHook::reserved
  counts,      \* counts[h][f]: StuckLoopHook::counts
  pc,          \* pc[t]: where dispatch t is
  inv,         \* inv[t]: invocation_index, from 1
  pos,         \* pos[t]: hook_index, from 1
  upto,        \* upto[t]: how many hooks the callback loop goes through
  outcome,     \* outcome[t]: how invocation inv[t] ends
  value,       \* value[t]: the local `output` or `error` it ends with, then the Err returned
  results,     \* results[t]: the results pushed so far
  trace,       \* trace[t]: the DispatchTrace
  ran          \* history: ran[f]: tool bodies for fingerprint f its hooks let start

vars == <<available, reserved, counts, pc, inv, pos, upto, outcome, value, results, trace, ran>>

\* The values of pc[t]:
\*   before                     about to call before_invocation of hook pos
\*   count                      a budget hook holds a grant it has not counted yet
\*   tool                       the tool body runs
\*   after                      about to call after_invocation_with_outcome of hook pos
\*   cleanup                    about to call on_invocation_error of hook pos
\*   after_give, cleanup_give   release_one has taken the count, not yet called release
\*   ok, err                    the dispatch returned Ok or Err
\*   cancelled                  its future was dropped
Ended(t) == pc[t] \in {"ok", "err", "cancelled"}

Hook(t) == HooksOf[t][pos[t]]

Call(t) == Calls[t][inv[t]]

Event(kind, i, k, what) == [kind |-> kind, inv |-> i, hook |-> k, what |-> what]

----------------------------------------------------------------------------
(* Control: where the dispatch goes next.  A loop over no hooks is over at *)
(* once.                                                                   *)

\* Where an invocation starts; past the last one the dispatch returns Ok.
EntryOf(t, i) ==
  IF i > Len(Calls[t]) THEN "ok" ELSE IF Len(HooksOf[t]) = 0 THEN "tool" ELSE "before"

Init ==
  /\ available = Capacity
  /\ reserved = [h \in Hooks |-> 0]
  /\ counts = [h \in Hooks |-> [f \in Fingerprints |-> 0]]
  /\ pc = [t \in Tasks |-> EntryOf(t, 1)]
  /\ inv = [t \in Tasks |-> 1]
  /\ pos = [t \in Tasks |-> 1]
  /\ upto = [t \in Tasks |-> 0]
  /\ outcome = [t \in Tasks |-> "none"]
  /\ value = [t \in Tasks |-> "none"]
  /\ results = [t \in Tasks |-> <<>>]
  /\ trace = [t \in Tasks |-> <<>>]
  /\ ran = [f \in Fingerprints |-> 0]

\* The hooks and the guard are left alone.
SharedUnchanged == UNCHANGED <<available, reserved, counts>>

WithOutcome_NeverSkipped(t, events, how) ==   \* mutant: a skip is traced as a completion
  Append(events, Event("InvocationOutcome", inv[t], 0, IF how = "Skipped" THEN "Completed" ELSE how))

WithOutcome(t, events, how) == Append(events, Event("InvocationOutcome", inv[t], 0, how))

\* Push the outcome event and, for an output, the result; then the next
\* invocation, or for an error the return.
Finish(t, events, how, what) ==
  /\ trace' = [trace EXCEPT ![t] = WithOutcome(t, events, how)]
  /\ pos' = [pos EXCEPT ![t] = 1]
  /\ upto' = [upto EXCEPT ![t] = 0]
  /\ outcome' = [outcome EXCEPT ![t] = "none"]
  /\ \/ /\ how \in {"Completed", "Skipped"}
        /\ results' = [results EXCEPT ![t] = Append(@, [call |-> Call(t), output |-> what])]
        /\ value' = [value EXCEPT ![t] = "none"]
        /\ inv' = [inv EXCEPT ![t] = @ + 1]
        /\ pc' = [pc EXCEPT ![t] = EntryOf(t, inv[t] + 1)]
     \/ /\ how \in {"Failed", "Terminated"}
        /\ value' = [value EXCEPT ![t] = what]
        /\ pc' = [pc EXCEPT ![t] = "err"]
        /\ UNCHANGED <<results, inv>>

\* Run the callback loop `phase` over the first n hooks, for an invocation that
\* ends with outcome `how` and output or error `what`.
StartCallbacks(t, phase, n, events, how, what) ==
  \/ /\ n = 0
     /\ Finish(t, events, how, what)
  \/ /\ n > 0
     /\ trace' = [trace EXCEPT ![t] = events]
     /\ pc' = [pc EXCEPT ![t] = phase]
     /\ pos' = [pos EXCEPT ![t] = 1]
     /\ upto' = [upto EXCEPT ![t] = n]
     /\ outcome' = [outcome EXCEPT ![t] = how]
     /\ value' = [value EXCEPT ![t] = what]
     /\ UNCHANGED <<results, inv>>

----------------------------------------------------------------------------
(* The before_invocation loop                                              *)

StartTool(t) ==
  /\ pc' = [pc EXCEPT ![t] = "tool"]
  /\ ran' = [ran EXCEPT ![Call(t)] = @ + 1]

\* Hook pos returned Ok(decision): record it, then go on, or break.
Decide(t, decision) ==
  LET events == Append(trace[t], Event("HookBefore", inv[t], pos[t], decision))
      n == Len(HooksOf[t])
  IN  \/ /\ decision = "Continue"
         /\ pos[t] < n
         /\ pos' = [pos EXCEPT ![t] = @ + 1]
         /\ pc' = [pc EXCEPT ![t] = "before"]
         /\ trace' = [trace EXCEPT ![t] = events]
         /\ UNCHANGED <<inv, upto, outcome, value, results, ran>>
      \/ /\ decision = "Continue"
         /\ pos[t] = n
         /\ StartTool(t)
         /\ trace' = [trace EXCEPT ![t] = events]
         /\ UNCHANGED <<inv, pos, upto, outcome, value, results>>
      \/ /\ decision = "Skip"
         /\ StartCallbacks(t, "after", n, events, "Skipped", "hook_output")
         /\ UNCHANGED ran
      \/ /\ decision = "Terminate"
         /\ StartCallbacks(t, "cleanup", n, events, "Terminated", "terminated")
         /\ UNCHANGED ran

\* DispatchBudgetHook: reserve from the guard; count the grant under the lock.
BudgetGrant(t) ==
  /\ pc[t] = "before"
  /\ Kind[Hook(t)] = "budget"
  /\ available >= Cost
  /\ available' = available - Cost
  /\ pc' = [pc EXCEPT ![t] = "count"]
  /\ UNCHANGED <<reserved, counts, inv, pos, upto, outcome, value, results, trace, ran>>

BudgetCount_Forgotten(t) ==   \* mutant: the grant is never counted
  /\ pc[t] = "count"
  /\ UNCHANGED <<reserved, available, counts>>
  /\ Decide(t, "Continue")

BudgetCount(t) ==
  /\ pc[t] = "count"
  /\ reserved' = [reserved EXCEPT ![Hook(t)] = @ + 1]
  /\ UNCHANGED <<available, counts>>
  /\ Decide(t, "Continue")

BudgetDeny_Ignored(t) ==   \* mutant: a denial is treated as Continue
  /\ pc[t] = "before"
  /\ Kind[Hook(t)] = "budget"
  /\ available < Cost
  /\ SharedUnchanged
  /\ Decide(t, "Continue")

BudgetDeny(t) ==
  /\ pc[t] = "before"
  /\ Kind[Hook(t)] = "budget"
  /\ available < Cost
  /\ SharedUnchanged
  /\ Decide(t, "Terminate")

StuckDecision_OffByOne(count) ==   \* mutant: the count before this call is compared
  IF count - 1 > MaxIdentical THEN "Terminate" ELSE "Continue"

StuckDecision(count) == IF count > MaxIdentical THEN "Terminate" ELSE "Continue"

\* StuckLoopHook: count this fingerprint and compare, under one lock.
StuckCount(t) ==
  /\ pc[t] = "before"
  /\ Kind[Hook(t)] = "stuck"
  /\ counts' = [counts EXCEPT ![Hook(t)][Call(t)] = @ + 1]
  /\ UNCHANGED <<available, reserved>>
  /\ Decide(t, StuckDecision(counts[Hook(t)][Call(t)] + 1))

PolicyDecide(t, decision) ==
  /\ pc[t] = "before"
  /\ Kind[Hook(t)] = "policy"
  /\ SharedUnchanged
  /\ Decide(t, decision)

\* before_invocation returned Err, of a host's hook or of a budget hook whose
\* guard answers with a BudgetError: only the hooks observed so far are told.
Observed_Short(t) == IF pos[t] > 1 THEN pos[t] - 2 ELSE 0   \* mutant: off by one

Observed(t) == pos[t] - 1

BeforeFail(t) ==
  /\ pc[t] = "before"
  /\ Kind[Hook(t)] # "stuck"
  /\ "before" \in MayFail
  /\ SharedUnchanged
  /\ StartCallbacks(t, "cleanup", Observed(t),
       Append(trace[t], Event("HookBeforeError", inv[t], pos[t], "error")), "Failed", "hook_error")
  /\ UNCHANGED ran

----------------------------------------------------------------------------
(* The tool body                                                           *)

ToolOk(t) ==
  /\ pc[t] = "tool"
  /\ SharedUnchanged
  /\ StartCallbacks(t, "after", Len(HooksOf[t]), trace[t], "Completed", "tool_output")
  /\ UNCHANGED ran

ToolFail(t) ==
  /\ pc[t] = "tool"
  /\ "tool" \in MayFail
  /\ SharedUnchanged
  /\ StartCallbacks(t, "cleanup", Len(HooksOf[t]), trace[t], "Failed", "tool_error")
  /\ UNCHANGED ran

----------------------------------------------------------------------------
(* The callback loops: after_invocation_with_outcome on every hook, or     *)
(* on_invocation_error on the first upto.                                  *)

InCallbacks(t) == pc[t] \in {"after", "cleanup"}

\* The callback of hook pos returned Ok.
CallbackDone(t, phase) ==
  LET kind == IF phase = "after" THEN "HookAfter" ELSE "HookCleanup"
      events == Append(trace[t], Event(kind, inv[t], pos[t], "done"))
  IN  \/ /\ pos[t] = upto[t]
         /\ Finish(t, events, outcome[t], value[t])
      \/ /\ pos[t] < upto[t]
         /\ pos' = [pos EXCEPT ![t] = @ + 1]
         /\ pc' = [pc EXCEPT ![t] = phase]
         /\ trace' = [trace EXCEPT ![t] = events]
         /\ UNCHANGED <<inv, upto, outcome, value, results>>

\* DispatchBudgetHook::release_one, the locked part: nothing reserved, nothing
\* to release.
ReleaseNone(t) ==
  /\ InCallbacks(t)
  /\ Kind[Hook(t)] = "budget"
  /\ reserved[Hook(t)] = 0
  /\ SharedUnchanged
  /\ CallbackDone(t, pc[t])
  /\ UNCHANGED ran

ReleaseTake(t) ==
  /\ InCallbacks(t)
  /\ Kind[Hook(t)] = "budget"
  /\ reserved[Hook(t)] > 0
  /\ reserved' = [reserved EXCEPT ![Hook(t)] = @ - 1]
  /\ pc' = [pc EXCEPT ![t] = IF @ = "after" THEN "after_give" ELSE "cleanup_give"]
  /\ UNCHANGED <<available, counts, inv, pos, upto, outcome, value, results, trace, ran>>

\* ... and the release after the lock is dropped.
ReleaseGive(t) ==
  /\ pc[t] \in {"after_give", "cleanup_give"}
  /\ available' = IF available + Cost < Capacity THEN available + Cost ELSE Capacity
  /\ UNCHANGED <<reserved, counts>>
  /\ CallbackDone(t, IF pc[t] = "after_give" THEN "after" ELSE "cleanup")
  /\ UNCHANGED ran

\* A stuck-loop hook keeps the default callbacks; a policy hook returns Ok.
PlainCallback(t) ==
  /\ InCallbacks(t)
  /\ Kind[Hook(t)] # "budget"
  /\ SharedUnchanged
  /\ CallbackDone(t, pc[t])
  /\ UNCHANGED ran

\* The `?` on a callback: the dispatch returns at once, the remaining hooks are
\* not called and no outcome is recorded.
CallbackFail(t) ==
  /\ InCallbacks(t)
  /\ Kind[Hook(t)] = "policy"
  /\ "callback" \in MayFail
  /\ pc' = [pc EXCEPT ![t] = "err"]
  /\ value' = [value EXCEPT ![t] = "callback_error"]
  /\ UNCHANGED <<available, reserved, counts, inv, pos, upto, outcome, results, trace, ran>>

----------------------------------------------------------------------------
(* The host drops the future of a dispatch that waits for the host's code. *)

Cancel(t) ==
  /\ MayCancel
  /\ \/ pc[t] = "tool"
     \/ pc[t] = "before" /\ Kind[Hook(t)] = "policy"
     \/ InCallbacks(t) /\ Kind[Hook(t)] = "policy"
  /\ pc' = [pc EXCEPT ![t] = "cancelled"]
  /\ UNCHANGED <<available, reserved, counts, inv, pos, upto, outcome, value, results, trace, ran>>

----------------------------------------------------------------------------

\* What the dispatch does by itself, or once the code it awaits returns.
Run(t) ==
  \/ BudgetGrant(t) \/ BudgetCount(t) \/ BudgetDeny(t) \/ StuckCount(t)
  \/ (\E d \in Decisions : PolicyDecide(t, d)) \/ BeforeFail(t)
  \/ ToolOk(t) \/ ToolFail(t)
  \/ ReleaseNone(t) \/ ReleaseTake(t) \/ ReleaseGive(t)
  \/ PlainCallback(t) \/ CallbackFail(t)

Next == \E t \in Tasks : Run(t) \/ Cancel(t)

Spec == Init /\ [][Next]_vars

\* Tool bodies and hooks return, and the executor polls what can run.
FairSpec == Spec /\ \A t \in Tasks : WF_vars(Run(t))

----------------------------------------------------------------------------
(* Properties                                                              *)

\* Grants the guard has given that are not back: counted by a hook, not counted
\* yet, or on their way back.
UnitsOut ==
  SumFunction(reserved)
    + Cardinality({t \in Tasks : pc[t] \in {"count", "after_give", "cleanup_give"}})

\* Hooks give back to the guard exactly what it granted: in every state the
\* units out and those left are the capacity, so release is never called for
\* units nobody holds and its cap never bites.
GuardBalanced == available + Cost * UnitsOut = Capacity

\* "Budget reservations are released on every success and failure path": when
\* every dispatch has returned, the guard is full again.
NothingHeldAtRest ==
  (\A t \in Tasks : Ended(t)) => available = Capacity /\ \A h \in Hooks : reserved[h] = 0

HasBudgetHook(t) == \E k \in DOMAIN HooksOf[t] : Kind[HooksOf[t][k]] = "budget"

\* A tool gated by a budget hook runs only while its reservation is held: no
\* more bodies run at once than the guard has room for.
AdmissionBound ==
  Cost * Cardinality({t \in Tasks : pc[t] = "tool" /\ HasBudgetHook(t)}) <= Capacity

\* Over all dispatches sharing one StuckLoopHook no fingerprint's body is run
\* more than max_identical_calls times.
IdenticalCallsBounded ==
  (\E h \in Hooks : Kind[h] = "stuck" /\ \A t \in Tasks : \E k \in DOMAIN HooksOf[t] : HooksOf[t][k] = h)
    => \A f \in Fingerprints : ran[f] <= MaxIdentical

Indices(t, kinds, i, k) ==
  {n \in DOMAIN trace[t] : /\ trace[t][n].kind \in kinds
                           /\ trace[t][n].inv = i
                           /\ trace[t][n].hook = k}

HasOutcome(t, i) == Indices(t, {"InvocationOutcome"}, i, 0) # {}

\* Once an invocation is over, each hook that observed it has been called back
\* exactly once, after its before_invocation; and when a before_invocation failed,
\* "exactly those hooks" have been, the failing one and those behind it not.
CallbacksPaired ==
  \A t \in Tasks : \A i \in 1 .. Len(Calls[t]) :
    HasOutcome(t, i) =>
      \A k \in DOMAIN HooksOf[t] :
        LET back == Indices(t, {"HookAfter", "HookCleanup"}, i, k)
            observed == Indices(t, {"HookBefore"}, i, k)
        IN  /\ observed # {} => Cardinality(back) = 1
            /\ \A b \in observed, n \in back : b < n
            /\ observed = {} /\ back # {} =>
                 \A j \in DOMAIN HooksOf[t] : Indices(t, {"HookBeforeError"}, i, j) = {}

\* The traced outcome that goes with an output or an error.
OutcomeOf(what) ==
  CASE what = "tool_output" -> "Completed"
    [] what = "hook_output" -> "Skipped"
    [] what = "terminated"  -> "Terminated"
    [] OTHER                -> "Failed"

TracedAs(t, i, what) ==
  \E n \in DOMAIN trace[t] :
    /\ Indices(t, {"InvocationOutcome"}, i, 0) = {n}
    /\ trace[t][n].what = OutcomeOf(what)

\* The trace tells the host's story of "every final per-invocation outcome": each
\* result is the one of its invocation and has one outcome event, Completed for a
\* tool's own output and Skipped for a hook's; a dispatch that returns Ok has a
\* result for every invocation; one that returns Err has one outcome event more,
\* for the invocation it ended in, that goes with that very error.  (The error of
\* a failing callback is the one returned without an outcome event.)
OutcomeTraced ==
  \A t \in Tasks :
    /\ \A i \in DOMAIN results[t] :
         results[t][i].call = Calls[t][i] /\ TracedAs(t, i, results[t][i].output)
    /\ pc[t] = "ok" => Len(results[t]) = Len(Calls[t])
    /\ pc[t] = "err" /\ value[t] # "callback_error" =>
         TracedAs(t, Len(results[t]) + 1, value[t])

\* A dispatch cut short: its future was dropped, or the `?` on a callback left
\* the invocation without an outcome.
CutShort(t) == pc[t] = "cancelled" \/ (pc[t] = "err" /\ ~HasOutcome(t, inv[t]))

\* Only a dispatch cut short leaves a reservation behind, and at most its own:
\* one cost each when a dispatch has one budget hook, none from the others.
LeakBound ==
  (\A t \in Tasks : Ended(t)) =>
    Capacity - available <= Cost * Cardinality({t \in Tasks : CutShort(t)})

\* Whatever hooks decide and tools return, every dispatch ends and the guard is
\* full for good.
PermitsComeBack == <>[](available = Capacity)
=============================================================================
