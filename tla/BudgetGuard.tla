---------------------------- MODULE BudgetGuard ----------------------------
(***************************************************************************)
(* What the BudgetGuard trait promises its callers, whatever the           *)
(* implementation: a pool of Capacity units, and calls that take effect at *)
(* one instant between the call and its answer.                            *)
(*                                                                         *)
(*   - try_reserve(cost) answers TRUE and takes cost units out of the      *)
(*     pool, or answers FALSE because at that instant fewer than cost      *)
(*     units were left;                                                    *)
(*   - release(cost) puts cost units back, never above Capacity;           *)
(*   - refill makes the pool full.                                         *)
(*                                                                         *)
(* A client has one call in progress at a time and releases only units it  *)
(* holds ("Release previously reserved units back to the pool").           *)
(* AtomicBudget implements this module with a compare-and-swap loop.       *)
(***************************************************************************)
EXTENDS Integers

CONSTANTS
  Clients,    \* the concurrent callers of one guard
  Costs,      \* the costs they pass
  Capacity    \* units in a full pool

VARIABLES
  available,  \* units left in the pool
  held,       \* held[c]: units client c has reserved and not released
  op,         \* op[c]: the call c is in, "none" between calls
  arg,        \* arg[c]: the cost of that call
  reply       \* reply[c]: the answer to c's last call, until the next one

guardVars == <<available, held, op, arg, reply>>

Init ==
  /\ available = Capacity
  /\ held = [c \in Clients |-> 0]
  /\ op = [c \in Clients |-> "none"]
  /\ arg = [c \in Clients |-> 0]
  /\ reply = [c \in Clients |-> "none"]

Ask(c, method, cost) ==
  /\ op' = [op EXCEPT ![c] = method]
  /\ arg' = [arg EXCEPT ![c] = cost]
  /\ reply' = [reply EXCEPT ![c] = "none"]
  /\ UNCHANGED <<available, held>>

CallReserve(c, cost) ==
  /\ op[c] = "none"
  /\ Ask(c, "reserve", cost)

CallRelease(c, cost) ==
  /\ op[c] = "none"
  /\ cost <= held[c]
  /\ Ask(c, "release", cost)

Answer(c, r) ==
  /\ op' = [op EXCEPT ![c] = "none"]
  /\ arg' = [arg EXCEPT ![c] = 0]
  /\ reply' = [reply EXCEPT ![c] = r]

Grant(c) ==
  /\ op[c] = "reserve"
  /\ arg[c] <= available
  /\ available' = available - arg[c]
  /\ held' = [held EXCEPT ![c] = @ + arg[c]]
  /\ Answer(c, "granted")

Deny(c) ==
  /\ op[c] = "reserve"
  /\ available < arg[c]
  /\ Answer(c, "denied")
  /\ UNCHANGED <<available, held>>

TakeBack(c) ==
  /\ op[c] = "release"
  /\ available' = IF available + arg[c] < Capacity THEN available + arg[c]
                                                   ELSE Capacity
  /\ held' = [held EXCEPT ![c] = @ - arg[c]]
  /\ Answer(c, "released")

Refill ==
  /\ available' = Capacity
  /\ UNCHANGED <<held, op, arg, reply>>

Next ==
  \/ \E c \in Clients, cost \in Costs : CallReserve(c, cost) \/ CallRelease(c, cost)
  \/ \E c \in Clients : Grant(c) \/ Deny(c) \/ TakeBack(c)
  \/ Refill

Spec == Init /\ [][Next]_guardVars
=============================================================================
