---------------------------- MODULE TokenBudget ----------------------------
(***************************************************************************)
(* What the TokenBudget trait and TokenReservation promise: a pool of      *)
(* Capacity tokens and a running total of tokens consumed.                 *)
(*                                                                         *)
(*   - a reservation of est tokens is granted when the pool holds them and *)
(*     refused when it does not, at one instant;                           *)
(*   - a granted reservation is used up once: recorded, which counts the   *)
(*     actual usage and then corrects the pool by est - actual, or dropped, *)
(*     which returns est;                                                  *)
(*   - the pool is corrected at one instant and stays in 0..Capacity;      *)
(*   - who was denied, or is done with a reservation, may ask for another. *)
(*                                                                         *)
(* AtomicTokenBudget implements this module.                               *)
(***************************************************************************)
EXTENDS Integers

CONSTANTS
  Handles,     \* the reservations asked for
  Estimates,   \* the estimates they ask for
  Usages,      \* prompt and completion counts providers report
  Capacity,    \* tokens in a full pool
  MaxU64       \* the largest u64

VARIABLES
  pool,        \* tokens left
  consumed,    \* tokens recorded as used
  state,       \* state[r]: where reservation r is in its life
  est,         \* est[r]: its estimate
  delta,       \* delta[r]: the correction it still owes the pool
  alive        \* the budget itself has not been dropped

tokenVars == <<pool, consumed, state, est, delta, alive>>

Init ==
  /\ pool = Capacity
  /\ consumed = 0
  /\ state = [r \in Handles |-> "new"]
  /\ est = [r \in Handles |-> 0]
  /\ delta = [r \in Handles |-> 0]
  /\ alive = TRUE

Enter(r, s) == state' = [state EXCEPT ![r] = s]

Ask(r, e) ==
  /\ alive
  /\ state[r] \in {"new", "denied", "closed"}
  /\ Enter(r, "asking")
  /\ est' = [est EXCEPT ![r] = e]
  /\ UNCHANGED <<pool, consumed, delta, alive>>

Grant(r) ==
  /\ state[r] = "asking"
  /\ est[r] <= pool
  /\ pool' = pool - est[r]
  /\ Enter(r, "open")
  /\ UNCHANGED <<consumed, est, delta, alive>>

Refuse(r) ==
  /\ state[r] = "asking"
  /\ pool < est[r]
  /\ Enter(r, "denied")
  /\ UNCHANGED <<pool, consumed, est, delta, alive>>

\* Owing nothing is the same as being done.
Owe(r, d) ==
  /\ delta' = [delta EXCEPT ![r] = d]
  /\ Enter(r, IF d = 0 THEN "closed" ELSE "owing")

Actual(prompt, completion) ==
  IF prompt + completion < MaxU64 THEN prompt + completion ELSE MaxU64

Record(r, prompt, completion) ==
  /\ alive
  /\ state[r] = "open"
  /\ consumed' = (consumed + Actual(prompt, completion)) % (MaxU64 + 1)
  /\ Owe(r, est[r] - Actual(prompt, completion))
  /\ UNCHANGED <<pool, est, alive>>

Drop(r) ==
  /\ state[r] = "open"
  /\ Owe(r, est[r])
  /\ UNCHANGED <<pool, consumed, est, alive>>

\* Once the budget is gone there is nothing to return the tokens to.
DropUnpaid(r) ==
  /\ state[r] = "open"
  /\ ~alive
  /\ Enter(r, "closed")
  /\ UNCHANGED <<pool, consumed, est, delta, alive>>

Clamp(n) == CASE n < 0        -> 0
              [] n > Capacity -> Capacity
              [] OTHER        -> n

Correct(r) ==
  /\ state[r] = "owing"
  /\ pool' = Clamp(pool + delta[r])
  /\ delta' = [delta EXCEPT ![r] = 0]
  /\ Enter(r, "closed")
  /\ UNCHANGED <<consumed, est, alive>>

DropBudget ==
  /\ alive' = FALSE
  /\ UNCHANGED <<pool, consumed, state, est, delta>>

Next ==
  \/ \E r \in Handles, e \in Estimates : Ask(r, e)
  \/ \E r \in Handles, p, k \in Usages : Record(r, p, k)
  \/ \E r \in Handles : Grant(r) \/ Refuse(r) \/ Drop(r) \/ DropUnpaid(r) \/ Correct(r)
  \/ DropBudget

Spec == Init /\ [][Next]_tokenVars
=============================================================================
