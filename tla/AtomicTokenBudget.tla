------------------------- MODULE AtomicTokenBudget -------------------------
(***************************************************************************)
(* AtomicTokenBudget and TokenReservation (src/src/budget.rs): optimistic  *)
(* reservation of LLM tokens with reconciliation against the actual usage, *)
(* and the refund when a reservation is dropped unrecorded.                *)
(*                                                                         *)
(* As in AtomicBudget an action is one access to an atomic, `available` or *)
(* `consumed`, with the local computation up to the next one; the load and *)
(* the failed compare_exchange_weak of a loop keep the value observed.     *)
(* A handle is a caller and the reservation it holds: one that was denied  *)
(* or dropped its reservation asks again, so that callers can contend for  *)
(* the bucket forever; one that counted usage does not, which bounds       *)
(* `consumed`.                                                             *)
(***************************************************************************)
EXTENDS Integers, FiniteSets, Functions

CONSTANTS
  Handles,     \* bound: the callers, each with one reservation at a time
  Estimates,   \* the `est` arguments
  Usages,      \* the `prompt` and `completion` arguments
  Capacity,    \* the capacity given to AtomicTokenBudget::new
  MaxU64,      \* the largest u64
  NotLoaded    \* "this loop has not read `available` yet"

ASSUME HandlesAssumption == IsFiniteSet(Handles)
ASSUME CapacityAssumption == Capacity \in Nat
ASSUME WidthAssumption == MaxU64 \in Nat /\ Capacity <= MaxU64
ASSUME EstimatesAssumption == Estimates \subseteq Nat
ASSUME UsagesAssumption == Usages \subseteq Nat
ASSUME NotLoadedAssumption == NotLoaded \notin Nat

VARIABLES
  available,   \* AtomicTokenBudgetInner::available
  consumed,    \* AtomicTokenBudgetInner::consumed
  alive,       \* the host still holds the AtomicTokenBudget
  phase,       \* phase[r]: what handle r's call or value is doing
  est,         \* est[r]: TokenReservation::estimate
  armed,       \* armed[r]: TokenReservation::refund is Some
  todo,        \* todo[r]: amount of r's refund (> 0) or debit (< 0) under way
  cur,         \* cur[r]: the local `current` of r's CAS loop
  used,        \* history: used[r]: what record_usage counted for r
  committed    \* history: tokens granted and not refunded, over all handles

vars == <<available, consumed, alive, phase, est, armed, todo, cur, used, committed>>

Phases == {"new",        \* not asked for
           "reserve",    \* in try_reserve_tokens
           "denied",     \* it returned None
           "open",       \* a TokenReservation the caller owns
           "reconcile",  \* in the refund or debit of record_usage
           "scope_end",  \* record_usage returns and drops the reservation
           "refund",     \* in the refund run by Drop
           "closed"}     \* gone

Init ==
  /\ available = Capacity
  /\ consumed = 0
  /\ alive = TRUE
  /\ phase = [r \in Handles |-> "new"]
  /\ est = [r \in Handles |-> 0]
  /\ armed = [r \in Handles |-> FALSE]
  /\ todo = [r \in Handles |-> 0]
  /\ cur = [r \in Handles |-> NotLoaded]
  /\ used = [r \in Handles |-> 0]
  /\ committed = 0

Enter(r, p) == phase' = [phase EXCEPT ![r] = p]

----------------------------------------------------------------------------
(* try_reserve_tokens                                                      *)

\* Bound: a caller that has counted usage asks no more.
TryReserve(r, e) ==
  /\ alive
  /\ phase[r] \in {"new", "denied", "closed"}
  /\ used[r] = 0
  /\ Enter(r, "reserve")
  /\ est' = [est EXCEPT ![r] = e]
  /\ UNCHANGED <<available, consumed, alive, armed, todo, cur, used, committed>>

ReserveRead_Unchecked(r) ==   \* mutant: `current < est` is not tested
  /\ phase[r] = "reserve"
  /\ cur' = [cur EXCEPT ![r] = available]
  /\ UNCHANGED <<available, consumed, alive, phase, est, armed, todo, used, committed>>

\* The first load, or a failed CAS: the value read is compared with est.
ReserveRead(r) ==
  /\ phase[r] = "reserve"
  /\ \/ /\ available < est[r]
        /\ Enter(r, "denied")
        /\ cur' = [cur EXCEPT ![r] = NotLoaded]
     \/ /\ available >= est[r]
        /\ cur' = [cur EXCEPT ![r] = available]
        /\ UNCHANGED phase
  /\ UNCHANGED <<available, consumed, alive, est, armed, todo, used, committed>>

ReserveCas_Store(r) ==   \* mutant: load, test, store without the CAS
  /\ phase[r] = "reserve"
  /\ cur[r] # NotLoaded
  /\ available' = cur[r] - est[r]
  /\ cur' = [cur EXCEPT ![r] = NotLoaded]
  /\ armed' = [armed EXCEPT ![r] = TRUE]
  /\ committed' = committed + est[r]
  /\ Enter(r, "open")
  /\ UNCHANGED <<consumed, alive, est, todo, used>>

ReserveCas(r) ==
  /\ phase[r] = "reserve"
  /\ cur[r] = available
  /\ available' = cur[r] - est[r]
  /\ cur' = [cur EXCEPT ![r] = NotLoaded]
  /\ armed' = [armed EXCEPT ![r] = TRUE]
  /\ committed' = committed + est[r]
  /\ Enter(r, "open")
  /\ UNCHANGED <<consumed, alive, est, todo, used>>

----------------------------------------------------------------------------
(* record_usage: one fetch_add on `consumed`, then disarm, then the refund *)
(* or debit loop, which returns at once for an amount of 0.                *)

SaturatingAdd(a, b) == IF a + b < MaxU64 THEN a + b ELSE MaxU64

Disarm(r) == armed' = [armed EXCEPT ![r] = FALSE]

RecordUsage(r, prompt, completion) ==
  LET actual == SaturatingAdd(prompt, completion)
  IN  /\ alive
      /\ phase[r] = "open"
      /\ consumed' = (consumed + actual) % (MaxU64 + 1)
      /\ used' = [used EXCEPT ![r] = actual]
      /\ Disarm(r)
      /\ todo' = [todo EXCEPT ![r] = est[r] - actual]
      /\ Enter(r, IF est[r] = actual THEN "scope_end" ELSE "reconcile")
      /\ UNCHANGED <<available, alive, est, cur, committed>>

AdjustRead_Once(r) ==   \* mutant: a failed CAS does not update `current`
  /\ phase[r] \in {"reconcile", "refund"}
  /\ cur' = [cur EXCEPT ![r] = IF @ = NotLoaded THEN available ELSE @]
  /\ UNCHANGED <<available, consumed, alive, phase, est, armed, todo, used, committed>>

\* The first load, or a failed CAS, of refund and of debit.
AdjustRead(r) ==
  /\ phase[r] \in {"reconcile", "refund"}
  /\ cur' = [cur EXCEPT ![r] = available]
  /\ UNCHANGED <<available, consumed, alive, phase, est, armed, todo, used, committed>>

\* refund: saturating_add, then the cap.
Refunded(current, amount) ==
  LET sum == SaturatingAdd(current, amount)
  IN  IF sum < Capacity THEN sum ELSE Capacity

Debited_Wrapping(current, amount) ==   \* mutant: wrapping_sub in debit
  (current - amount) % (MaxU64 + 1)

\* debit: saturating_sub.
Debited(current, amount) == IF current > amount THEN current - amount ELSE 0

Adjusted(r) == IF todo[r] >= 0 THEN Refunded(cur[r], todo[r]) ELSE Debited(cur[r], -todo[r])

AdjustCas_Store(r) ==   \* mutant: load, add, store without the CAS
  /\ phase[r] \in {"reconcile", "refund"}
  /\ cur[r] # NotLoaded
  /\ available' = Adjusted(r)
  /\ committed' = IF todo[r] > 0 THEN committed - todo[r] ELSE committed
  /\ todo' = [todo EXCEPT ![r] = 0]
  /\ cur' = [cur EXCEPT ![r] = NotLoaded]
  /\ Enter(r, IF phase[r] = "reconcile" THEN "scope_end" ELSE "closed")
  /\ UNCHANGED <<consumed, alive, est, armed, used>>

AdjustCas(r) ==
  /\ phase[r] \in {"reconcile", "refund"}
  /\ cur[r] = available
  /\ available' = Adjusted(r)
  /\ committed' = IF todo[r] > 0 THEN committed - todo[r] ELSE committed
  /\ todo' = [todo EXCEPT ![r] = 0]
  /\ cur' = [cur EXCEPT ![r] = NotLoaded]
  /\ Enter(r, IF phase[r] = "reconcile" THEN "scope_end" ELSE "closed")
  /\ UNCHANGED <<consumed, alive, est, armed, used>>

----------------------------------------------------------------------------
(* TokenReservation::drop, run when the caller drops an open reservation   *)
(* and when record_usage lets go of the one it was given.  The closure     *)
(* refunds through a Weak reference: the inner budget is there while the   *)
(* host holds the budget, a method borrows it, or a refund has upgraded.   *)

BudgetInUse == \E r \in Handles : phase[r] \in {"reserve", "reconcile", "scope_end"}

Upgradable == alive \/ \E r \in Handles : phase[r] = "refund"

RunDrop(r) ==
  /\ armed' = [armed EXCEPT ![r] = FALSE]
  /\ \/ /\ armed[r] /\ Upgradable /\ est[r] > 0
        /\ todo' = [todo EXCEPT ![r] = est[r]]
        /\ Enter(r, "refund")
     \/ /\ ~(armed[r] /\ Upgradable /\ est[r] > 0)
        /\ Enter(r, "closed")
        /\ UNCHANGED todo
  /\ UNCHANGED <<available, consumed, alive, est, cur, used, committed>>

DropReservation(r) == phase[r] = "open" /\ RunDrop(r)

ScopeEnd(r) == phase[r] = "scope_end" /\ RunDrop(r)

\* The host drops the budget; no method can be borrowing it.
DropBudget ==
  /\ alive
  /\ ~BudgetInUse
  /\ alive' = FALSE
  /\ UNCHANGED <<available, consumed, phase, est, armed, todo, cur, used, committed>>

----------------------------------------------------------------------------

Step(r) == ReserveRead(r) \/ ReserveCas(r) \/ AdjustRead(r) \/ AdjustCas(r) \/ ScopeEnd(r)

Next ==
  \/ \E r \in Handles, e \in Estimates : TryReserve(r, e)
  \/ \E r \in Handles, p, k \in Usages : RecordUsage(r, p, k)
  \/ \E r \in Handles : Step(r) \/ DropReservation(r)
  \/ DropBudget

Spec == Init /\ [][Next]_vars

\* A method or a Drop that has begun keeps running; nobody must make a call.
FairSpec == Spec /\ \A r \in Handles : WF_vars(Step(r))

----------------------------------------------------------------------------
(* Properties                                                              *)

\* available stays within 0..capacity, whatever is refunded or debited, and
\* handles and loops have the values the code gives them.
TypeOK ==
  /\ available \in 0 .. Capacity
  /\ consumed \in 0 .. MaxU64
  /\ alive \in BOOLEAN
  /\ phase \in [Handles -> Phases]
  /\ est \in [Handles -> Nat]
  /\ armed \in [Handles -> BOOLEAN]
  /\ todo \in [Handles -> Int]
  /\ cur \in [Handles -> 0 .. Capacity \cup {NotLoaded}]
  /\ used \in [Handles -> Nat]
  /\ committed \in Int

\* "Concurrent prompts can't all over-commit": the tokens granted and not
\* refunded, those recorded as used included, never exceed what has left the
\* bucket, in any interleaving of reservations, reconciliations and drops.
NoOverCommit == available + committed <= Capacity

\* What handle r still has to give back or to have counted.
Outstanding(r) ==
  CASE phase[r] = "open"                                      -> est[r]
    [] phase[r] \in {"reconcile", "refund"} /\ todo[r] > 0    -> todo[r]
    [] OTHER                                                  -> 0

TotalOutstanding == SumFunction([r \in Handles |-> Outstanding(r)])

\* While every call stays within its estimate the books balance in every state:
\* tokens left, tokens out and tokens consumed make up the capacity.
BooksBalance ==
  (\A r \in Handles : used[r] <= est[r]) /\ alive
    => available + TotalOutstanding + consumed = Capacity

\* Where each handle is in the TokenBudget contract: a loop is an amount owed,
\* and a reservation record_usage has let go of is closed.
StateOf(p) ==
  CASE p = "reserve"                 -> "asking"
    [] p \in {"reconcile", "refund"} -> "owing"
    [] p = "scope_end"               -> "closed"
    [] OTHER                         -> p

AbstractState == [r \in Handles |-> StateOf(phase[r])]

Contract == INSTANCE TokenBudget WITH pool <- available, state <- AbstractState, delta <- todo

\* The code is an implementation of the TokenBudget contract; in particular a
\* reservation is returned or recorded once, never both.
ImplementsTokenBudget == Contract!Spec

\* A reservation attempt, a reconciliation or a refund-on-drop that never comes
\* to its end spins only because others keep changing the bucket: without such
\* contention each of them ends.
LoopsSpinOnlyUnderContention ==
  \A r \in Handles :
    \/ []<>(phase[r] \notin {"reserve", "reconcile", "scope_end", "refund"})
    \/ []<><<available' # available>>_vars
=============================================================================
