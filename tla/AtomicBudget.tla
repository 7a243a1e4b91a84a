---------------------------- MODULE AtomicBudget ----------------------------
(***************************************************************************)
(* AtomicBudget (src/src/budget.rs): the lock-free token bucket.           *)
(*                                                                         *)
(* The bucket is one AtomicU64.  An action is one access to it, with the   *)
(* local computation up to the next access: a load, a compare_exchange_weak *)
(* that succeeds, one that fails and hands back the value it observed, or  *)
(* the plain store of refill.  Any number of clients are between accesses  *)
(* at once.                                                                *)
(*                                                                         *)
(* compare_exchange_weak may also fail when the values are equal; then it  *)
(* hands back the very value the client holds, so that failure is the      *)
(* stuttering case of the ...CasFail actions, which have no guard on it.   *)
(***************************************************************************)
EXTENDS Integers, FiniteSets, Functions

CONSTANTS
  Clients,     \* the concurrent callers of one bucket
  Costs,       \* the costs they pass
  Capacity,    \* the capacity given to AtomicBudget::new
  MaxU64,      \* the largest u64
  NotLoaded,   \* "this call has not read the bucket yet"
  MaxRefills   \* bound: how often refill is called

ASSUME ClientsAssumption == IsFiniteSet(Clients)
ASSUME CapacityAssumption == Capacity \in Nat
ASSUME CostsAssumption == Costs \subseteq Nat
ASSUME WidthAssumption == MaxU64 \in Nat /\ Capacity <= MaxU64
ASSUME NotLoadedAssumption == NotLoaded \notin Nat
ASSUME RefillsAssumption == MaxRefills \in Nat

VARIABLES
  available,   \* AtomicBudget::available
  held,        \* held[c]: units granted to c that c has not released
  op,          \* op[c]: the method c is inside, "none" between calls
  arg,         \* arg[c]: its cost argument
  cur,         \* cur[c]: the local `current` of its CAS loop
  reply,       \* reply[c]: what c's last call returned, until the next one
  refills      \* history: how often refill ran

vars == <<available, held, op, arg, cur, reply, refills>>

Guard == INSTANCE BudgetGuard WITH
           available <- available, held <- held, op <- op, arg <- arg, reply <- reply

Init ==
  /\ available = Capacity
  /\ held = [c \in Clients |-> 0]
  /\ op = [c \in Clients |-> "none"]
  /\ arg = [c \in Clients |-> 0]
  /\ cur = [c \in Clients |-> NotLoaded]
  /\ reply = [c \in Clients |-> "none"]
  /\ refills = 0

----------------------------------------------------------------------------
(* Calls.  Both methods start with a load of the bucket.                   *)

Call(c, method, cost) ==
  /\ op[c] = "none"
  /\ op' = [op EXCEPT ![c] = method]
  /\ arg' = [arg EXCEPT ![c] = cost]
  /\ reply' = [reply EXCEPT ![c] = "none"]
  /\ UNCHANGED <<available, held, cur, refills>>

CallReserve(c, cost) == Call(c, "reserve", cost)

CallRelease(c, cost) == cost <= held[c] /\ Call(c, "release", cost)

Return(c, r) ==
  /\ op' = [op EXCEPT ![c] = "none"]
  /\ arg' = [arg EXCEPT ![c] = 0]
  /\ reply' = [reply EXCEPT ![c] = r]
  /\ cur' = [cur EXCEPT ![c] = NotLoaded]

----------------------------------------------------------------------------
(* try_reserve                                                             *)

ReserveRead_DenyWhenExact(c) ==   \* mutant: `current <= cost` denies
  \/ /\ available <= arg[c]
     /\ Return(c, "denied")
  \/ /\ available > arg[c]
     /\ cur' = [cur EXCEPT ![c] = available]
     /\ UNCHANGED <<op, arg, reply>>

\* The body of the loop on a value just read: deny, or go on to the CAS.
ReserveRead(c) ==
  \/ /\ available < arg[c]
     /\ Return(c, "denied")
  \/ /\ available >= arg[c]
     /\ cur' = [cur EXCEPT ![c] = available]
     /\ UNCHANGED <<op, arg, reply>>

ReserveLoad(c) ==
  /\ op[c] = "reserve"
  /\ cur[c] = NotLoaded
  /\ ReserveRead(c)
  /\ UNCHANGED <<available, held, refills>>

ReserveCasFail_NoRecheck(c) ==   \* mutant: the retry skips `current < cost`
  /\ op[c] = "reserve"
  /\ cur[c] # NotLoaded
  /\ cur' = [cur EXCEPT ![c] = available]
  /\ UNCHANGED <<available, held, op, arg, reply, refills>>

ReserveCasFail_KeepsCurrent(c) ==   \* mutant: `Err(_)` does not update current
  /\ op[c] = "reserve"
  /\ cur[c] # NotLoaded
  /\ UNCHANGED vars

ReserveCasFail(c) ==
  /\ op[c] = "reserve"
  /\ cur[c] # NotLoaded
  /\ ReserveRead(c)
  /\ UNCHANGED <<available, held, refills>>

Granted(c) ==
  /\ available' = cur[c] - arg[c]
  /\ held' = [held EXCEPT ![c] = @ + arg[c]]
  /\ Return(c, "granted")
  /\ UNCHANGED refills

ReserveCasOk_Store(c) ==   \* mutant: a plain store where the code has the CAS
  /\ op[c] = "reserve"
  /\ cur[c] # NotLoaded
  /\ Granted(c)

ReserveCasOk(c) ==
  /\ op[c] = "reserve"
  /\ cur[c] = available
  /\ Granted(c)

----------------------------------------------------------------------------
(* release                                                                 *)

SaturatingAdd(a, b) == IF a + b < MaxU64 THEN a + b ELSE MaxU64

AfterRelease(current, cost) ==
  LET sum == SaturatingAdd(current, cost)
  IN  IF sum < Capacity THEN sum ELSE Capacity

\* The load and the failed CAS do the same thing: keep the value observed.
ReleaseRead(c) ==
  /\ op[c] = "release"
  /\ cur' = [cur EXCEPT ![c] = available]
  /\ UNCHANGED <<available, held, op, arg, reply, refills>>

ReleaseCasOk_Store(c) ==   \* mutant: a plain store where the code has the CAS
  /\ op[c] = "release"
  /\ cur[c] # NotLoaded
  /\ available' = AfterRelease(cur[c], arg[c])
  /\ held' = [held EXCEPT ![c] = @ - arg[c]]
  /\ Return(c, "released")
  /\ UNCHANGED refills

ReleaseCasOk(c) ==
  /\ op[c] = "release"
  /\ cur[c] = available
  /\ available' = AfterRelease(cur[c], arg[c])
  /\ held' = [held EXCEPT ![c] = @ - arg[c]]
  /\ Return(c, "released")
  /\ UNCHANGED refills

----------------------------------------------------------------------------
(* refill: one store, made by whoever starts a scheduling epoch            *)

Refill ==
  /\ refills < MaxRefills
  /\ available' = Capacity
  /\ refills' = refills + 1
  /\ UNCHANGED <<held, op, arg, cur, reply>>

----------------------------------------------------------------------------

Step(c) ==
  \/ ReserveLoad(c)
  \/ ReserveCasFail(c)
  \/ ReserveCasOk(c)
  \/ ReleaseRead(c)
  \/ ReleaseCasOk(c)

Next ==
  \/ \E c \in Clients, cost \in Costs : CallReserve(c, cost) \/ CallRelease(c, cost)
  \/ \E c \in Clients : Step(c)
  \/ Refill

Spec == Init /\ [][Next]_vars

\* The executor keeps polling a method that has not returned; it never has to
\* start another call, and refill never has to run.
Fairness == \A c \in Clients : WF_vars(Step(c))

FairSpec == Spec /\ Fairness

----------------------------------------------------------------------------
(* Properties                                                              *)

\* The bucket stays within 0..Capacity (it is a u64: below zero would wrap to
\* a huge credit), and every call's locals have the range the code gives them.
TypeOK ==
  /\ available \in 0 .. Capacity
  /\ held \in [Clients -> Nat]
  /\ op \in [Clients -> {"none", "reserve", "release"}]
  /\ arg \in [Clients -> Nat]
  /\ cur \in [Clients -> 0 .. Capacity \cup {NotLoaded}]
  /\ reply \in [Clients -> {"none", "granted", "denied", "released"}]
  /\ refills \in 0 .. MaxRefills

\* Until the first refill the units in the bucket and in clients' hands are
\* together exactly the capacity: no interleaving of CAS loops invents or
\* loses a unit, and release's cap at capacity never throws one away.
Conservation == refills = 0 => available + SumFunction(held) = Capacity

\* Each refill hands out at most one more capacity: the units out at once plus
\* those left never exceed Capacity per epoch started.
EpochBound == available + SumFunction(held) <= Capacity * (refills + 1)

\* The code is an implementation of the trait: every grant, denial and release
\* takes effect at one instant, and a denial is given only when at that instant
\* the bucket holds less than the cost.
ImplementsGuard == Guard!Spec

\* A call that never returns spins only because others keep changing the
\* bucket: without such contention every try_reserve and release returns.
SpinsOnlyUnderContention ==
  \A c \in Clients : []<>(op[c] = "none") \/ []<><<available' # available>>_vars
=============================================================================
