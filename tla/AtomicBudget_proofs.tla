------------------------ MODULE AtomicBudget_proofs ------------------------
(***************************************************************************)
(* Theorems about AtomicBudget, for any finite set of clients, any costs,  *)
(* any capacity and any width of the counter.                              *)
(***************************************************************************)
EXTENDS AtomicBudget, Sums_proofs, TLAPS

ConstantsOK ==
  /\ Capacity \in Nat /\ MaxU64 \in Nat /\ Capacity <= MaxU64
  /\ Costs \subseteq Nat /\ MaxRefills \in Nat /\ NotLoaded \notin Nat

\* What a client's locals say about its call.
CallInv(c) ==
  /\ op[c] = "none" => cur[c] = NotLoaded /\ arg[c] = 0
  /\ op[c] = "reserve" /\ cur[c] # NotLoaded => arg[c] <= cur[c]
  /\ op[c] = "release" => arg[c] <= held[c]

\* TypeOK alone is not inductive: `current - cost` stays in range because the
\* loop compared the two before the CAS, held[c] because a client releases only
\* what it holds.
IInv ==
  /\ TypeOK
  /\ \A c \in Clients : CallInv(c)
  /\ EpochBound
  /\ Conservation

LEMMA ConstantsAreOK == ConstantsOK
BY CapacityAssumption, CostsAssumption, WidthAssumption, NotLoadedAssumption,
   RefillsAssumption DEF ConstantsOK

\* release's two clamps together are a cap at Capacity: a counter that starts
\* within Capacity never meets the saturation of the add.
LEMMA AfterReleaseCaps ==
  ASSUME NEW current \in 0 .. Capacity, NEW cost \in Nat
  PROVE  /\ AfterRelease(current, cost) \in current .. Capacity
         /\ AfterRelease(current, cost) <= current + cost
         /\ AfterRelease(current, cost) =
              IF current + cost < Capacity THEN current + cost ELSE Capacity
BY ConstantsAreOK DEF AfterRelease, SaturatingAdd, ConstantsOK

\* One more epoch is one more capacity (the only product in the invariant).
LEMMA NextEpoch ==
  ASSUME NEW n \in Nat
  PROVE  /\ Capacity * (n + 1) \in Nat
         /\ Capacity * (n + 2) = Capacity * (n + 1) + Capacity
BY ConstantsAreOK DEF ConstantsOK

\* The units out: each client's are part of them, and they change with it.
LEMMA HeldIsPart ==
  ASSUME TypeOK
  PROVE  /\ SumFunction(held) \in Nat
         /\ \A c \in Clients : held[c] \in Nat /\ held[c] <= SumFunction(held)
BY SumBounds, ClientsAssumption DEF TypeOK

LEMMA HeldChange ==
  ASSUME NEW f \in [Clients -> Nat], NEW g \in [Clients -> Nat], NEW c \in Clients,
         \A d \in Clients \ {c} : g[d] = f[d]
  PROVE  SumFunction(g) = SumFunction(f) + g[c] - f[c]
<1>1. f \in [Clients -> Int] /\ g \in [Clients -> Int]
  OBVIOUS
<1> QED BY <1>1, SumChange, ClientsAssumption

LEMMA InitInv == Init => IInv
<1> SUFFICES ASSUME Init PROVE IInv
  OBVIOUS
<1> USE ConstantsAreOK DEF ConstantsOK, Init
<1>1. TypeOK
  BY DEF TypeOK
<1>2. \A c \in Clients : CallInv(c)
  BY DEF CallInv
<1>3. SumFunction(held) = 0
  <2>1. held \in [Clients -> Int] /\ \A c \in Clients : held[c] = 0
    OBVIOUS
  <2> QED BY <2>1, SumOfNothing, ClientsAssumption
<1>4. EpochBound /\ Conservation
  BY <1>3 DEF EpochBound, Conservation
<1> QED
  BY <1>1, <1>2, <1>4 DEF IInv

----------------------------------------------------------------------------
(* One lemma per action.  Only the CAS that grants, the CAS that releases  *)
(* and the refill touch what EpochBound speaks of.                         *)

LEMMA CallKeepsInv ==
  ASSUME IInv, NEW c \in Clients, NEW cost \in Costs,
         CallReserve(c, cost) \/ CallRelease(c, cost)
  PROVE  IInv'
<1> USE ConstantsAreOK DEF ConstantsOK, IInv, CallReserve, CallRelease, Call
<1>1. TypeOK'
  BY DEF TypeOK
<1>2. ASSUME NEW d \in Clients PROVE CallInv(d)'
  BY DEF TypeOK, CallInv
<1>3. EpochBound' /\ Conservation'
  BY DEF EpochBound, Conservation
<1> QED
  BY <1>1, <1>2, <1>3

LEMMA ReserveReadKeepsInv ==
  ASSUME IInv, NEW c \in Clients, ReserveLoad(c) \/ ReserveCasFail(c)
  PROVE  IInv'
<1> USE ConstantsAreOK
        DEF ConstantsOK, IInv, ReserveLoad, ReserveCasFail, ReserveRead, Return
<1>1. TypeOK'
  BY DEF TypeOK
<1>2. ASSUME NEW d \in Clients PROVE CallInv(d)'
  BY DEF TypeOK, CallInv
<1>3. EpochBound' /\ Conservation'
  BY DEF EpochBound, Conservation
<1> QED
  BY <1>1, <1>2, <1>3

LEMMA GrantKeepsInv ==
  ASSUME IInv, NEW c \in Clients, ReserveCasOk(c)
  PROVE  IInv'
<1> USE ConstantsAreOK DEF ConstantsOK, IInv, ReserveCasOk, Granted, Return
<1>1. arg[c] <= available /\ arg[c] \in Nat /\ cur[c] = available
  BY DEF TypeOK, CallInv
<1>2. TypeOK'
  BY <1>1 DEF TypeOK
<1>3. ASSUME NEW d \in Clients PROVE CallInv(d)'
  BY DEF TypeOK, CallInv
<1>4. available' + SumFunction(held') = available + SumFunction(held)
  <2>1. /\ held \in [Clients -> Nat] /\ held' \in [Clients -> Nat]
        /\ held'[c] = held[c] + arg[c] /\ \A d \in Clients \ {c} : held'[d] = held[d]
    BY <1>1 DEF TypeOK
  <2>2. SumFunction(held') = SumFunction(held) + held'[c] - held[c]
    BY <2>1, HeldChange
  <2>3. SumFunction(held) \in Nat /\ held[c] \in Nat /\ available \in Nat
    BY HeldIsPart DEF TypeOK
  <2> QED BY <1>1, <2>1, <2>2, <2>3
<1>5. EpochBound' /\ Conservation'
  BY <1>4 DEF EpochBound, Conservation
<1> QED
  BY <1>2, <1>3, <1>5

LEMMA ReleaseReadKeepsInv ==
  ASSUME IInv, NEW c \in Clients, ReleaseRead(c)
  PROVE  IInv'
<1> USE ConstantsAreOK DEF ConstantsOK, IInv, ReleaseRead
<1>1. TypeOK'
  BY DEF TypeOK
<1>2. ASSUME NEW d \in Clients PROVE CallInv(d)'
  BY DEF TypeOK, CallInv
<1>3. EpochBound' /\ Conservation'
  BY DEF EpochBound, Conservation
<1> QED
  BY <1>1, <1>2, <1>3

LEMMA ReleaseKeepsInv ==
  ASSUME IInv, NEW c \in Clients, ReleaseCasOk(c)
  PROVE  IInv'
<1> USE ConstantsAreOK DEF ConstantsOK, IInv, ReleaseCasOk, Return
<1>1. /\ cur[c] = available /\ cur[c] \in 0 .. Capacity
      /\ arg[c] \in Nat /\ arg[c] <= held[c]
  BY DEF TypeOK, CallInv
<1>2. /\ available' \in 0 .. Capacity
      /\ available' <= available + arg[c]
  <2>1. /\ AfterRelease(cur[c], arg[c]) \in cur[c] .. Capacity
        /\ AfterRelease(cur[c], arg[c]) <= cur[c] + arg[c]
    BY <1>1, AfterReleaseCaps
  <2>2. available' = AfterRelease(cur[c], arg[c])
    OBVIOUS
  <2> QED
    BY <1>1, <2>1, <2>2
<1>3. TypeOK'
  BY <1>1, <1>2 DEF TypeOK
<1>4. ASSUME NEW d \in Clients PROVE CallInv(d)'
  BY DEF TypeOK, CallInv
<1>5. /\ held \in [Clients -> Nat] /\ held' \in [Clients -> Nat]
      /\ held'[c] = held[c] - arg[c] /\ \A d \in Clients \ {c} : held'[d] = held[d]
  BY <1>1, <1>3 DEF TypeOK
<1>6. SumFunction(held') = SumFunction(held) - arg[c]
  <2>1. SumFunction(held') = SumFunction(held) + held'[c] - held[c]
    BY <1>5, HeldChange
  <2> QED BY <1>1, <1>5, <2>1, HeldIsPart
<1>7. EpochBound'
  <2>1. Capacity * (refills + 1) \in Nat /\ refills' = refills
    BY NextEpoch DEF TypeOK
  <2>2. available \in Int /\ available' \in Int /\ SumFunction(held) \in Nat
    BY <1>2, HeldIsPart DEF TypeOK
  <2>3. available' + SumFunction(held') <= available + SumFunction(held)
    BY <1>1, <1>2, <1>6, <2>2
  <2> QED
    BY <1>1, <1>6, <2>1, <2>2, <2>3 DEF EpochBound
\* What the client gives back was missing from the bucket, so the cap does not bite.
<1>8. Conservation'
  <2> SUFFICES ASSUME refills = 0
               PROVE  available' + SumFunction(held') = Capacity
    BY DEF Conservation
  <2>1. available + SumFunction(held) = Capacity
    BY DEF Conservation
  <2>2. arg[c] <= SumFunction(held) /\ SumFunction(held) \in Nat /\ available \in Nat
    BY <1>1, <1>5, HeldIsPart DEF TypeOK
  <2>3. available' = available + arg[c]
    <3>1. available' = AfterRelease(available, arg[c]) /\ available \in 0 .. Capacity
      BY <1>1
    <3>2. available' = IF available + arg[c] < Capacity THEN available + arg[c] ELSE Capacity
      BY <1>1, <3>1, AfterReleaseCaps
    <3> QED BY <1>1, <2>1, <2>2, <3>2
  <2> QED
    BY <1>1, <1>6, <2>1, <2>2, <2>3
<1> QED
  BY <1>3, <1>4, <1>7, <1>8

LEMMA RefillKeepsInv ==
  ASSUME IInv, Refill
  PROVE  IInv'
<1> USE ConstantsAreOK DEF ConstantsOK, IInv, Refill
<1>1. TypeOK'
  BY DEF TypeOK
<1>2. ASSUME NEW d \in Clients PROVE CallInv(d)'
  BY DEF TypeOK, CallInv
<1>3. EpochBound'
  <2>1. SumFunction(held) <= Capacity * (refills + 1) /\ SumFunction(held) \in Nat
    BY NextEpoch, HeldIsPart DEF TypeOK, EpochBound
  <2>2. Capacity * (refills' + 1) = Capacity * (refills + 1) + Capacity
    BY NextEpoch DEF TypeOK
  <2> QED
    BY <2>1, <2>2, NextEpoch DEF TypeOK, EpochBound
<1>4. Conservation'
  BY DEF TypeOK, Conservation
<1> QED
  BY <1>1, <1>2, <1>3, <1>4

LEMMA NextInv == IInv /\ [Next]_vars => IInv'
<1> SUFFICES ASSUME IInv, [Next]_vars PROVE IInv'
  OBVIOUS
<1>1. ASSUME NEW c \in Clients, NEW cost \in Costs,
             CallReserve(c, cost) \/ CallRelease(c, cost)
      PROVE  IInv'
  BY <1>1, CallKeepsInv
<1>2. ASSUME NEW c \in Clients, Step(c) PROVE IInv'
  BY <1>2, ReserveReadKeepsInv, GrantKeepsInv, ReleaseReadKeepsInv, ReleaseKeepsInv
     DEF Step
<1>3. CASE Refill
  BY <1>3, RefillKeepsInv
<1>4. CASE UNCHANGED vars
  BY <1>4 DEF IInv, TypeOK, CallInv, EpochBound, Conservation, vars
<1> QED
  BY <1>1, <1>2, <1>3, <1>4 DEF Next

LEMMA Invariance == Spec => []IInv
BY InitInv, NextInv, PTL DEF Spec

----------------------------------------------------------------------------

\* The bucket never leaves 0..Capacity: no CAS stores a difference that wrapped
\* below zero or a sum above the capacity (try_reserve and release).
THEOREM TypeCorrect == Spec => []TypeOK
<1>1. IInv => TypeOK
  BY DEF IInv
<1> QED
  BY <1>1, Invariance, PTL

\* However the CAS loops interleave, the units lent out at one time and those
\* left in the bucket never exceed one capacity per epoch begun by refill.
THEOREM EpochBounded == Spec => []EpochBound
<1>1. IInv => EpochBound
  BY DEF IInv
<1> QED
  BY <1>1, Invariance, PTL

\* Until the first refill no interleaving of the CAS loops invents or loses a unit:
\* the bucket and the clients' hands hold exactly the capacity.
THEOREM UnitsConserved == Spec => []Conservation
<1>1. IInv => Conservation
  BY DEF IInv
<1> QED
  BY <1>1, Invariance, PTL

----------------------------------------------------------------------------
(* AtomicBudget implements BudgetGuard: loads, failed CASes that go round  *)
(* the loop and nothing else are stutters; the rest are the abstract       *)
(* operations.                                                             *)

LEMMA InitImplements == Init => Guard!Init
BY DEF Init, Guard!Init

LEMMA CallImplements ==
  ASSUME NEW c \in Clients, NEW cost \in Costs,
         CallReserve(c, cost) \/ CallRelease(c, cost)
  PROVE  Guard!CallReserve(c, cost) \/ Guard!CallRelease(c, cost)
BY DEF CallReserve, CallRelease, Call,
       Guard!CallReserve, Guard!CallRelease, Guard!Ask

LEMMA ReserveReadImplements ==
  ASSUME IInv, NEW c \in Clients, ReserveLoad(c) \/ ReserveCasFail(c)
  PROVE  Guard!Deny(c) \/ UNCHANGED Guard!guardVars
BY DEF ReserveLoad, ReserveCasFail, ReserveRead, Return,
       Guard!Deny, Guard!Answer, Guard!guardVars

LEMMA GrantImplements ==
  ASSUME IInv, NEW c \in Clients, ReserveCasOk(c)
  PROVE  Guard!Grant(c)
<1>1. arg[c] <= available /\ cur[c] = available
  BY ConstantsAreOK DEF ConstantsOK, IInv, TypeOK, CallInv, ReserveCasOk
<1> QED
  BY <1>1 DEF ReserveCasOk, Granted, Return, Guard!Grant, Guard!Answer

LEMMA ReleaseImplements ==
  ASSUME IInv, NEW c \in Clients, ReleaseCasOk(c)
  PROVE  Guard!TakeBack(c)
<1>1. cur[c] = available /\ available \in 0 .. Capacity /\ arg[c] \in Nat
  BY DEF IInv, TypeOK, ReleaseCasOk
<1>2. available' = IF available + arg[c] < Capacity THEN available + arg[c]
                                                    ELSE Capacity
  BY <1>1, AfterReleaseCaps DEF ReleaseCasOk
<1> QED
  BY <1>2 DEF ReleaseCasOk, Return, Guard!TakeBack, Guard!Answer

LEMMA NextImplements == IInv /\ [Next]_vars => [Guard!Next]_Guard!guardVars
<1> SUFFICES ASSUME IInv, [Next]_vars PROVE [Guard!Next]_Guard!guardVars
  OBVIOUS
<1>1. ASSUME NEW c \in Clients, NEW cost \in Costs,
             CallReserve(c, cost) \/ CallRelease(c, cost)
      PROVE  Guard!Next
  BY <1>1, CallImplements DEF Guard!Next
<1>2. ASSUME NEW c \in Clients, Step(c)
      PROVE  [Guard!Next]_Guard!guardVars
  <2>1. CASE ReserveLoad(c) \/ ReserveCasFail(c)
    BY <2>1, ReserveReadImplements DEF Guard!Next
  <2>2. CASE ReserveCasOk(c)
    BY <2>2, GrantImplements DEF Guard!Next
  <2>3. CASE ReleaseRead(c)
    BY <2>3 DEF ReleaseRead, Guard!guardVars
  <2>4. CASE ReleaseCasOk(c)
    BY <2>4, ReleaseImplements DEF Guard!Next
  <2> QED
    BY <1>2, <2>1, <2>2, <2>3, <2>4 DEF Step
<1>3. CASE Refill
  BY <1>3 DEF Refill, Guard!Refill, Guard!Next
<1>4. CASE UNCHANGED vars
  BY <1>4 DEF vars, Guard!guardVars
<1> QED
  BY <1>1, <1>2, <1>3, <1>4 DEF Next

\* Every behaviour of the CAS loops is a behaviour of the BudgetGuard contract:
\* each answer is the one the contract gives at a single instant.
THEOREM Implementation == Spec => ImplementsGuard
BY InitImplements, NextImplements, Invariance, PTL DEF Spec, ImplementsGuard, Guard!Spec
=============================================================================
