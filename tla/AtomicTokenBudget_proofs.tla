---------------------- MODULE AtomicTokenBudget_proofs ----------------------
(***************************************************************************)
(* Theorems about AtomicTokenBudget, for any number of reservations, any   *)
(* estimates and usages, any capacity and any width of the counters.       *)
(***************************************************************************)
EXTENDS AtomicTokenBudget, Sums_proofs, TLAPS

ConstantsOK ==
  /\ Capacity \in Nat /\ MaxU64 \in Nat /\ Capacity <= MaxU64
  /\ Estimates \subseteq Nat /\ Usages \subseteq Nat /\ NotLoaded \notin Nat

\* What a handle's phase says of its locals.
HandleInv(r) ==
  /\ phase[r] = "reserve" /\ cur[r] # NotLoaded => est[r] <= cur[r]
  /\ phase[r] \notin {"reserve", "reconcile", "refund"} => cur[r] = NotLoaded
  /\ armed[r] <=> phase[r] = "open"
  /\ todo[r] # 0 <=> phase[r] \in {"reconcile", "refund"}
  /\ phase[r] = "refund" => todo[r] > 0

\* The bound on what is committed needs the loops' locals: a grant subtracts
\* est from the value it was compared with, an armed reservation is open, and
\* a loop in progress has an amount.
IInv ==
  /\ TypeOK
  /\ \A r \in Handles : HandleInv(r)
  /\ NoOverCommit

LEMMA ConstantsAreOK == ConstantsOK
BY CapacityAssumption, WidthAssumption, EstimatesAssumption, UsagesAssumption,
   NotLoadedAssumption DEF ConstantsOK

\* fetch_add keeps the counter within its width.
LEMMA FetchAddWidth ==
  ASSUME NEW n \in Nat
  PROVE  n % (MaxU64 + 1) \in 0 .. MaxU64
BY ConstantsAreOK DEF ConstantsOK

\* A refund gives back at most its amount, a debit takes nothing back, and both
\* stay within 0..Capacity.
LEMMA RefundedBounds ==
  ASSUME NEW current \in 0 .. Capacity, NEW amount \in Nat
  PROVE  /\ Refunded(current, amount) \in 0 .. Capacity
         /\ Refunded(current, amount) <= current + amount
         /\ Refunded(current, amount) =
              IF current + amount > Capacity THEN Capacity ELSE current + amount
BY ConstantsAreOK DEF Refunded, SaturatingAdd, ConstantsOK

LEMMA DebitedBounds ==
  ASSUME NEW current \in 0 .. Capacity, NEW amount \in Nat
  PROVE  /\ Debited(current, amount) \in 0 .. Capacity
         /\ Debited(current, amount) <= current
         /\ Debited(current, amount) =
              IF current - amount < 0 THEN 0 ELSE current - amount
BY ConstantsAreOK DEF Debited, ConstantsOK

LEMMA InitInv == Init => IInv
<1> SUFFICES ASSUME Init PROVE IInv
  OBVIOUS
<1> USE ConstantsAreOK DEF ConstantsOK, Init
<1>1. TypeOK
  BY DEF TypeOK, Phases
<1>2. \A r \in Handles : HandleInv(r)
  BY DEF HandleInv
<1>3. NoOverCommit
  BY DEF NoOverCommit
<1> QED
  BY <1>1, <1>2, <1>3 DEF IInv

----------------------------------------------------------------------------

LEMMA TryReserveKeepsInv ==
  ASSUME IInv, NEW r \in Handles, NEW e \in Estimates, TryReserve(r, e)
  PROVE  IInv'
<1> USE ConstantsAreOK DEF ConstantsOK, IInv, TryReserve, Enter
<1>1. TypeOK'
  BY DEF TypeOK, Phases
<1>2. ASSUME NEW s \in Handles PROVE HandleInv(s)'
  BY DEF TypeOK, HandleInv
<1>3. NoOverCommit'
  BY DEF NoOverCommit
<1> QED
  BY <1>1, <1>2, <1>3

LEMMA ReserveReadKeepsInv ==
  ASSUME IInv, NEW r \in Handles, ReserveRead(r)
  PROVE  IInv'
<1> USE ConstantsAreOK DEF ConstantsOK, IInv, ReserveRead, Enter
<1>1. TypeOK'
  BY DEF TypeOK, Phases
<1>2. ASSUME NEW s \in Handles PROVE HandleInv(s)'
  BY DEF TypeOK, HandleInv
<1>3. NoOverCommit'
  BY DEF NoOverCommit
<1> QED
  BY <1>1, <1>2, <1>3

LEMMA ReserveCasKeepsInv ==
  ASSUME IInv, NEW r \in Handles, ReserveCas(r)
  PROVE  IInv'
<1> USE ConstantsAreOK DEF ConstantsOK, IInv, ReserveCas, Enter
<1>1. est[r] <= available /\ est[r] \in Nat /\ cur[r] = available
  BY DEF TypeOK, HandleInv
<1>2. TypeOK'
  BY <1>1 DEF TypeOK, Phases
<1>3. ASSUME NEW s \in Handles PROVE HandleInv(s)'
  BY DEF TypeOK, HandleInv
<1>4. NoOverCommit'
  BY <1>1 DEF TypeOK, NoOverCommit
<1> QED
  BY <1>2, <1>3, <1>4

LEMMA RecordUsageKeepsInv ==
  ASSUME IInv, NEW r \in Handles, NEW p \in Usages, NEW k \in Usages,
         RecordUsage(r, p, k)
  PROVE  IInv'
<1> USE ConstantsAreOK DEF ConstantsOK, IInv, RecordUsage, Enter, Disarm
<1> DEFINE actual == SaturatingAdd(p, k)
<1>1. actual \in Nat
  BY DEF SaturatingAdd
<1> HIDE DEF actual
<1>2. consumed' \in 0 .. MaxU64
  BY <1>1, FetchAddWidth DEF TypeOK, actual
<1>3. /\ used' = [used EXCEPT ![r] = actual]
      /\ todo' = [todo EXCEPT ![r] = est[r] - actual]
      /\ phase' = [phase EXCEPT ![r] = IF est[r] = actual THEN "scope_end"
                                                          ELSE "reconcile"]
  BY DEF actual
<1>4. TypeOK'
  BY <1>1, <1>2, <1>3 DEF TypeOK, Phases
<1>5. ASSUME NEW s \in Handles PROVE HandleInv(s)'
  BY <1>1, <1>3 DEF TypeOK, HandleInv
<1>6. NoOverCommit'
  BY DEF NoOverCommit
<1> QED
  BY <1>4, <1>5, <1>6

LEMMA AdjustReadKeepsInv ==
  ASSUME IInv, NEW r \in Handles, AdjustRead(r)
  PROVE  IInv'
<1> USE ConstantsAreOK DEF ConstantsOK, IInv, AdjustRead
<1>1. TypeOK'
  BY DEF TypeOK
<1>2. ASSUME NEW s \in Handles PROVE HandleInv(s)'
  BY DEF TypeOK, HandleInv
<1>3. NoOverCommit'
  BY DEF NoOverCommit
<1> QED
  BY <1>1, <1>2, <1>3

\* The CAS of refund and of debit: what it puts back is no more than what it
\* takes off the commitments.
LEMMA AdjustCasBounds ==
  ASSUME IInv, NEW r \in Handles, AdjustCas(r)
  PROVE  /\ available' \in 0 .. Capacity
         /\ available' + committed' <= available + committed
<1>1. /\ cur[r] = available /\ available \in 0 .. Capacity
      /\ todo[r] \in Int /\ committed \in Int
  BY DEF IInv, TypeOK, AdjustCas
<1>2. CASE todo[r] > 0
  <2>1. /\ available' = Refunded(available, todo[r])
        /\ committed' = committed - todo[r]
    BY <1>1, <1>2 DEF AdjustCas, Adjusted
  <2>2. /\ Refunded(available, todo[r]) \in 0 .. Capacity
        /\ Refunded(available, todo[r]) <= available + todo[r]
    <3>1. todo[r] \in Nat
      BY <1>1, <1>2
    <3> QED
      BY <1>1, <3>1, RefundedBounds
  <2> QED
    BY <1>1, <1>2, <2>1, <2>2, CapacityAssumption
<1>3. CASE todo[r] = 0
  <2>1. available' = Refunded(available, 0) /\ committed' = committed
    BY <1>1, <1>3 DEF AdjustCas, Adjusted
  <2>2. Refunded(available, 0) \in 0 .. Capacity /\ Refunded(available, 0) <= available + 0
    BY <1>1, RefundedBounds
  <2> QED
    BY <1>1, <2>1, <2>2, ConstantsAreOK DEF ConstantsOK
<1>4. CASE todo[r] < 0
  <2>1. available' = Debited(available, -todo[r]) /\ committed' = committed
    BY <1>1, <1>4 DEF AdjustCas, Adjusted
  <2>2. -todo[r] \in Nat
    BY <1>1, <1>4
  <2>3. /\ Debited(available, -todo[r]) \in 0 .. Capacity
        /\ Debited(available, -todo[r]) <= available
    BY <1>1, <2>2, DebitedBounds
  <2> QED
    BY <1>1, <2>1, <2>3, CapacityAssumption
<1> QED
  BY <1>1, <1>2, <1>3, <1>4

LEMMA AdjustCasKeepsInv ==
  ASSUME IInv, NEW r \in Handles, AdjustCas(r)
  PROVE  IInv'
<1>1. TypeOK'
  <2>1. available' \in 0 .. Capacity
    BY AdjustCasBounds
  <2>2. committed' \in Int
    BY DEF IInv, TypeOK, AdjustCas
  <2> QED
    BY <2>1, <2>2 DEF IInv, TypeOK, Phases, AdjustCas, Enter
<1>2. ASSUME NEW s \in Handles PROVE HandleInv(s)'
  BY ConstantsAreOK DEF ConstantsOK, IInv, TypeOK, HandleInv, AdjustCas, Enter
<1>3. NoOverCommit'
  <2>1. /\ available \in Int /\ committed \in Int
        /\ available' \in Int /\ committed' \in Int
    BY <1>1 DEF IInv, TypeOK
  <2>2. available' + committed' <= available + committed
    BY AdjustCasBounds
  <2>3. available + committed <= Capacity
    BY DEF IInv, NoOverCommit
  <2>4. available' + committed' <= Capacity
    <3> DEFINE a == available' + committed'   b == available + committed
    <3>1. a \in Int /\ b \in Int
      BY <2>1
    <3>2. a <= b /\ b <= Capacity
      BY <2>2, <2>3
    <3> HIDE DEF a, b
    <3>3. a <= Capacity
      BY <3>1, <3>2, CapacityAssumption
    <3> QED
      BY <3>3 DEF a
  <2> QED
    BY <2>4 DEF NoOverCommit
<1> QED
  BY <1>1, <1>2, <1>3 DEF IInv

LEMMA RunDropKeepsInv ==
  ASSUME IInv, NEW r \in Handles, DropReservation(r) \/ ScopeEnd(r)
  PROVE  IInv'
<1> USE ConstantsAreOK DEF ConstantsOK, IInv, DropReservation, ScopeEnd, RunDrop, Enter
<1>1. TypeOK'
  <2>1. armed' \in [Handles -> BOOLEAN]
    BY DEF TypeOK
  <2>2. todo' \in [Handles -> Int] /\ phase' \in [Handles -> Phases]
    BY DEF TypeOK, Phases
  <2> QED
    BY <2>1, <2>2 DEF TypeOK
<1>2. ASSUME NEW s \in Handles PROVE HandleInv(s)'
  BY DEF TypeOK, HandleInv
<1>3. NoOverCommit'
  BY DEF NoOverCommit
<1> QED
  BY <1>1, <1>2, <1>3

LEMMA NextInv == IInv /\ [Next]_vars => IInv'
<1> SUFFICES ASSUME IInv, [Next]_vars PROVE IInv'
  OBVIOUS
<1>1. ASSUME NEW r \in Handles, NEW e \in Estimates, TryReserve(r, e)
      PROVE  IInv'
  BY <1>1, TryReserveKeepsInv
<1>2. ASSUME NEW r \in Handles, NEW p \in Usages, NEW k \in Usages, RecordUsage(r, p, k)
      PROVE  IInv'
  BY <1>2, RecordUsageKeepsInv
<1>3. ASSUME NEW r \in Handles, Step(r) \/ DropReservation(r) PROVE IInv'
  BY <1>3, ReserveReadKeepsInv, ReserveCasKeepsInv, AdjustReadKeepsInv,
     AdjustCasKeepsInv, RunDropKeepsInv DEF Step
<1>4. CASE DropBudget
  BY <1>4 DEF DropBudget, IInv, TypeOK, HandleInv, NoOverCommit
<1>5. CASE UNCHANGED vars
  BY <1>5 DEF IInv, TypeOK, HandleInv, NoOverCommit, vars
<1> QED
  BY <1>1, <1>2, <1>3, <1>4, <1>5 DEF Next

LEMMA Invariance == Spec => []IInv
BY InitInv, NextInv, PTL DEF Spec

----------------------------------------------------------------------------

\* No refund takes the bucket above its capacity, no debit or reservation below
\* zero, and the consumed total stays in its width.
THEOREM TypeCorrect == Spec => []TypeOK
<1>1. IInv => TypeOK
  BY DEF IInv
<1> QED
  BY <1>1, Invariance, PTL

\* However reservations, reconciliations and drops interleave, the tokens
\* granted and not refunded never exceed those that have left the bucket.
THEOREM NeverOverCommitted == Spec => []NoOverCommit
<1>1. IInv => NoOverCommit
  BY DEF IInv
<1> QED
  BY <1>1, Invariance, PTL

----------------------------------------------------------------------------
(* The books.  A second invariant on top of the first.                      *)

\* What a handle has to account for.
Account(r) ==
  /\ phase[r] \in {"new", "reserve", "denied", "open"} => used[r] = 0
  /\ phase[r] = "reconcile" => todo[r] = est[r] - used[r]

BooksInv ==
  /\ \A r \in Handles : Account(r)
  /\ BooksBalance

WithinEstimates == alive /\ \A r \in Handles : used[r] <= est[r]

Out == [r \in Handles |-> Outstanding(r)]

LEMMA OutFacts ==
  ASSUME IInv
  PROVE  /\ Out \in [Handles -> Nat]
         /\ TotalOutstanding = SumFunction(Out) /\ TotalOutstanding \in Nat
         /\ \A r \in Handles : Outstanding(r) \in Nat /\ Outstanding(r) <= TotalOutstanding
<1>1. \A r \in Handles : Outstanding(r) \in Nat
  BY DEF IInv, TypeOK, Outstanding
<1>2. Out \in [Handles -> Nat] /\ \A r \in Handles : Out[r] = Outstanding(r)
  BY <1>1 DEF Out
<1>3. TotalOutstanding = SumFunction(Out)
  BY DEF TotalOutstanding, Out
<1> QED BY <1>1, <1>2, <1>3, SumBounds, HandlesAssumption

\* A step of one handle changes the total by what that handle's part changes.
LEMMA OutChange ==
  ASSUME IInv, IInv', NEW r \in Handles,
         \A s \in Handles \ {r} : Outstanding(s)' = Outstanding(s)
  PROVE  TotalOutstanding' = TotalOutstanding + Outstanding(r)' - Outstanding(r)
<1>1. /\ Out \in [Handles -> Int] /\ TotalOutstanding = SumFunction(Out)
      /\ \A s \in Handles : Out[s] = Outstanding(s)
  BY OutFacts DEF Out
<1>2. /\ Out' \in [Handles -> Nat] /\ TotalOutstanding' = SumFunction(Out')
      /\ \A s \in Handles : Out'[s] = Outstanding(s)'
  <2>1. \A s \in Handles : Outstanding(s)' \in Nat
    BY DEF IInv, TypeOK, Outstanding
  <2> QED BY <2>1 DEF Out, TotalOutstanding
<1>3. \A s \in Handles \ {r} : Out'[s] = Out[s]
  BY <1>1, <1>2
<1>4. SumFunction(Out') = SumFunction(Out) + Out'[r] - Out[r]
  BY <1>1, <1>2, <1>3, SumChange, HandlesAssumption
<1> QED BY <1>1, <1>2, <1>4

LEMMA InitBooks == Init => BooksInv
<1> SUFFICES ASSUME Init PROVE BooksInv
  OBVIOUS
<1>1. IInv
  BY InitInv
<1>2. Out \in [Handles -> Int] /\ \A r \in Handles : Out[r] = 0
  BY DEF Init, Out, Outstanding
<1>3. TotalOutstanding = 0
  BY <1>1, <1>2, OutFacts, SumOfNothing, HandlesAssumption
<1>4. \A r \in Handles : Account(r)
  BY DEF Init, Account
<1>5. BooksBalance
  BY <1>3, CapacityAssumption DEF Init, BooksBalance
<1> QED BY <1>4, <1>5 DEF BooksInv

LEMMA StillBooks ==
  ASSUME IInv, BooksInv, IInv', WithinEstimates' => WithinEstimates,
         WithinEstimates /\ WithinEstimates' /\ available + TotalOutstanding + consumed = Capacity
           => available' + TotalOutstanding' + consumed' = Capacity
  PROVE  BooksBalance'
BY DEF BooksInv, BooksBalance, WithinEstimates

\* A step that moves no handle's amount, nor either counter.
LEMMA QuietBooks ==
  ASSUME IInv, BooksInv, IInv', WithinEstimates' => WithinEstimates,
         UNCHANGED <<available, consumed>>,
         \A r \in Handles : Outstanding(r)' = Outstanding(r)
  PROVE  BooksBalance'
<1>1. Out' = Out
  BY DEF Out
<1>2. TotalOutstanding' = TotalOutstanding
  BY <1>1 DEF TotalOutstanding, Out
<1> QED BY <1>2, StillBooks

LEMMA TryReserveBooks ==
  ASSUME IInv, BooksInv, IInv', NEW r \in Handles, NEW e \in Estimates, TryReserve(r, e)
  PROVE  BooksInv'
<1> USE ConstantsAreOK DEF ConstantsOK, IInv, TypeOK, BooksInv, TryReserve, Enter
<1>1. ASSUME NEW s \in Handles PROVE Account(s)'
  BY DEF Account, Phases
<1>2. \A s \in Handles : Outstanding(s)' = Outstanding(s)
  BY DEF Outstanding, Phases
<1>3. WithinEstimates' => WithinEstimates
  BY DEF WithinEstimates, Account
<1> QED BY <1>1, <1>2, <1>3, QuietBooks

LEMMA ReadBooks ==
  ASSUME IInv, BooksInv, IInv', NEW r \in Handles, ReserveRead(r) \/ AdjustRead(r)
  PROVE  BooksInv'
<1> USE DEF IInv, TypeOK, BooksInv, ReserveRead, AdjustRead, Enter
<1>1. ASSUME NEW s \in Handles PROVE Account(s)'
  BY DEF Account, Phases
<1>2. \A s \in Handles : Outstanding(s)' = Outstanding(s)
  BY DEF Outstanding, Phases
<1>3. WithinEstimates' => WithinEstimates
  BY DEF WithinEstimates
<1> QED BY <1>1, <1>2, <1>3, QuietBooks

LEMMA ReserveCasBooks ==
  ASSUME IInv, BooksInv, IInv', NEW r \in Handles, ReserveCas(r)
  PROVE  BooksInv'
<1> USE DEF ReserveCas, Enter
<1>1. ASSUME NEW s \in Handles PROVE Account(s)'
  BY DEF Account, Phases, IInv, TypeOK, BooksInv
<1>2. \A s \in Handles \ {r} : Outstanding(s)' = Outstanding(s)
  BY DEF Outstanding, Phases, IInv, TypeOK
<1>3. Outstanding(r)' = est[r] /\ Outstanding(r) = 0 /\ est[r] \in Nat
  BY DEF Outstanding, Phases, IInv, TypeOK
<1>4. TotalOutstanding' = TotalOutstanding + est[r] - 0
  BY <1>2, <1>3, OutChange
<1>5. available' = available - est[r] /\ UNCHANGED consumed
      /\ available \in Int /\ consumed \in Int /\ TotalOutstanding \in Int
  BY OutFacts DEF IInv, TypeOK
<1>6. WithinEstimates' => WithinEstimates
  BY DEF WithinEstimates
<1>7. BooksBalance'
  BY <1>3, <1>4, <1>5, <1>6, StillBooks
<1> QED BY <1>1, <1>7 DEF BooksInv

\* A call within its estimate counts what it used: the rest stays out, and the
\* counter cannot wrap, for what was out is at least what is counted.
LEMMA RecordUsageBooks ==
  ASSUME IInv, BooksInv, IInv', NEW r \in Handles, NEW p \in Usages, NEW k \in Usages,
         RecordUsage(r, p, k)
  PROVE  BooksInv'
<1> DEFINE actual == SaturatingAdd(p, k)
<1>1. /\ phase[r] = "open" /\ alive' = alive /\ available' = available
      /\ consumed' = (consumed + actual) % (MaxU64 + 1)
      /\ used' = [used EXCEPT ![r] = actual] /\ est' = est
      /\ todo' = [todo EXCEPT ![r] = est[r] - actual]
      /\ phase' = [phase EXCEPT ![r] = IF est[r] = actual THEN "scope_end" ELSE "reconcile"]
  BY DEF RecordUsage, Enter
<1>2. actual \in Nat
  BY ConstantsAreOK DEF ConstantsOK, SaturatingAdd
<1> HIDE DEF actual
<1>3. ASSUME NEW s \in Handles PROVE Account(s)'
  BY <1>1, <1>2 DEF Account, IInv, TypeOK, BooksInv
<1>4. \A s \in Handles \ {r} : Outstanding(s)' = Outstanding(s)
  BY <1>1 DEF Outstanding, IInv, TypeOK
<1>5. Outstanding(r) = est[r] /\ est[r] \in Nat
  BY <1>1 DEF Outstanding, IInv, TypeOK
<1>6. TotalOutstanding' = TotalOutstanding + Outstanding(r)' - est[r]
  BY <1>4, <1>5, OutChange
<1>7. /\ available \in Nat /\ consumed \in Nat /\ TotalOutstanding \in Nat
      /\ est[r] <= TotalOutstanding
  BY <1>5, OutFacts, ConstantsAreOK DEF IInv, TypeOK, ConstantsOK
<1>8. WithinEstimates' => WithinEstimates /\ actual <= est[r]
  BY <1>1, <1>2 DEF WithinEstimates, IInv, TypeOK, BooksInv, Account
<1>9. ASSUME WithinEstimates', available + TotalOutstanding + consumed = Capacity
      PROVE  available' + TotalOutstanding' + consumed' = Capacity
  <2>1. actual <= est[r]
    BY <1>8, <1>9
  <2>2. Outstanding(r)' = est[r] - actual
    BY <1>1, <1>2, <1>5, <2>1 DEF Outstanding, IInv, TypeOK
  <2>3. consumed + actual \in 0 .. MaxU64
    BY <1>2, <1>5, <1>7, <1>9, <2>1, ConstantsAreOK DEF ConstantsOK
  <2>4. consumed' = consumed + actual
    BY <1>1, <2>3, ConstantsAreOK DEF ConstantsOK
  <2> QED BY <1>1, <1>2, <1>5, <1>6, <1>7, <1>9, <2>2, <2>4
<1>10. BooksBalance'
  BY <1>8, <1>9, StillBooks
<1> QED BY <1>3, <1>10 DEF BooksInv

\* A refund within the books: it fits under the cap, and all of it goes back.
LEMMA AdjustCasBooks ==
  ASSUME IInv, BooksInv, IInv', NEW r \in Handles, AdjustCas(r)
  PROVE  BooksInv'
<1>1. /\ phase[r] \in {"reconcile", "refund"} /\ cur[r] = available
      /\ available' = Adjusted(r) /\ UNCHANGED <<alive, consumed, est, used>>
      /\ todo' = [todo EXCEPT ![r] = 0]
      /\ phase' = [phase EXCEPT ![r] = IF phase[r] = "reconcile" THEN "scope_end" ELSE "closed"]
  BY DEF AdjustCas, Enter
<1>2. ASSUME NEW s \in Handles PROVE Account(s)'
  BY <1>1 DEF Account, IInv, TypeOK, BooksInv
<1>3. \A s \in Handles \ {r} : Outstanding(s)' = Outstanding(s)
  BY <1>1 DEF Outstanding, IInv, TypeOK
<1>4. Outstanding(r)' = 0
  BY <1>1 DEF Outstanding, IInv, TypeOK
<1>5. Outstanding(r) \in Nat
  BY OutFacts
<1>6. TotalOutstanding' = TotalOutstanding + 0 - Outstanding(r)
  BY <1>3, <1>4, OutChange
<1>7. /\ available \in 0 .. Capacity /\ consumed \in Nat /\ TotalOutstanding \in Nat
      /\ Outstanding(r) <= TotalOutstanding
  BY OutFacts, ConstantsAreOK DEF IInv, TypeOK, ConstantsOK
<1>8. WithinEstimates' <=> WithinEstimates
  BY <1>1 DEF WithinEstimates
<1>9. ASSUME WithinEstimates, available + TotalOutstanding + consumed = Capacity
      PROVE  available' + TotalOutstanding' + consumed' = Capacity
  <2>1. todo[r] \in Nat /\ todo[r] > 0
    BY <1>1, <1>9 DEF WithinEstimates, IInv, TypeOK, HandleInv, BooksInv, Account
  <2>2. Outstanding(r) = todo[r]
    BY <1>1, <2>1 DEF Outstanding
  <2>3. available' = Refunded(available, todo[r])
    BY <1>1, <2>1 DEF Adjusted
  <2>4. available + todo[r] <= Capacity
    BY <1>7, <1>9, <2>1, <2>2, CapacityAssumption
  <2>5. available' = available + todo[r]
    <3>1. Refunded(available, todo[r]) =
            IF available + todo[r] > Capacity THEN Capacity ELSE available + todo[r]
      BY <1>7, <2>1, RefundedBounds
    <3>2. ~(available + todo[r] > Capacity)
      BY <1>7, <2>1, <2>4, CapacityAssumption
    <3> QED BY <2>3, <3>1, <3>2
  <2> QED BY <1>1, <1>6, <1>7, <1>9, <2>1, <2>2, <2>5
<1>10. BooksBalance'
  BY <1>8, <1>9, StillBooks
<1> QED BY <1>2, <1>10 DEF BooksInv

\* While the host holds the budget a drop finds it, and hands the whole
\* estimate to the refund.
LEMMA DropBooks ==
  ASSUME IInv, BooksInv, IInv', NEW r \in Handles, DropReservation(r) \/ ScopeEnd(r)
  PROVE  BooksInv'
<1> USE DEF DropReservation, ScopeEnd, RunDrop, Enter
<1>1. ASSUME NEW s \in Handles PROVE Account(s)'
  BY DEF Account, IInv, TypeOK, BooksInv
<1>2. ASSUME alive PROVE \A s \in Handles : Outstanding(s)' = Outstanding(s)
  <2>1. ASSUME NEW s \in Handles \ {r} PROVE Outstanding(s)' = Outstanding(s)
    BY DEF Outstanding, IInv, TypeOK
  <2>2. CASE phase[r] = "open"
    BY <1>2, <2>2 DEF Outstanding, IInv, TypeOK, HandleInv, Upgradable
  <2>3. CASE phase[r] = "scope_end"
    BY <1>2, <2>3 DEF Outstanding, IInv, TypeOK, HandleInv
  <2> QED BY <2>1, <2>2, <2>3
<1>3. WithinEstimates' => WithinEstimates /\ alive
  BY DEF WithinEstimates
<1>4. BooksBalance'
  BY <1>2, <1>3, QuietBooks DEF BooksBalance, WithinEstimates
<1> QED BY <1>1, <1>4 DEF BooksInv

LEMMA NextBooks == IInv /\ BooksInv /\ [Next]_vars /\ IInv' => BooksInv'
<1> SUFFICES ASSUME IInv, BooksInv, [Next]_vars, IInv' PROVE BooksInv'
  OBVIOUS
<1>1. ASSUME NEW r \in Handles, NEW e \in Estimates, TryReserve(r, e)
      PROVE  BooksInv'
  BY <1>1, TryReserveBooks
<1>2. ASSUME NEW r \in Handles, NEW p \in Usages, NEW k \in Usages, RecordUsage(r, p, k)
      PROVE  BooksInv'
  BY <1>2, RecordUsageBooks
<1>3. ASSUME NEW r \in Handles, Step(r) \/ DropReservation(r) PROVE BooksInv'
  BY <1>3, ReadBooks, ReserveCasBooks, AdjustCasBooks, DropBooks DEF Step
<1>4. CASE DropBudget
  BY <1>4 DEF DropBudget, BooksInv, Account, BooksBalance
<1>5. CASE UNCHANGED vars
  BY <1>5 DEF vars, BooksInv, Account, BooksBalance, TotalOutstanding, Outstanding
<1> QED
  BY <1>1, <1>2, <1>3, <1>4, <1>5 DEF Next

\* As long as the host holds the budget and every call so far stayed within its
\* estimate, no token is lost or made up, however the calls interleave: what is
\* left, what is out and what was consumed make up the capacity.
THEOREM BooksBalanced == Spec => []BooksBalance
<1>1. BooksInv => BooksBalance
  BY DEF BooksInv
<1> QED
  BY <1>1, Invariance, InitBooks, NextBooks, PTL DEF Spec

----------------------------------------------------------------------------
(* AtomicTokenBudget implements TokenBudget.  A step that moves handle r to *)
(* phase p moves the abstract reservation r to StateOf(p).                 *)

LEMMA EnterMaps ==
  ASSUME TypeOK, NEW r \in Handles, NEW p, Enter(r, p)
  PROVE  AbstractState' = [AbstractState EXCEPT ![r] = StateOf(p)]
BY DEF TypeOK, Enter, AbstractState

LEMMA SamePhaseMaps == UNCHANGED phase => UNCHANGED AbstractState
BY DEF AbstractState

LEMMA StateOfPhase ==
  /\ StateOf("new") = "new" /\ StateOf("reserve") = "asking"
  /\ StateOf("open") = "open" /\ StateOf("denied") = "denied"
  /\ StateOf("reconcile") = "owing" /\ StateOf("refund") = "owing"
  /\ StateOf("scope_end") = "closed" /\ StateOf("closed") = "closed"
BY DEF StateOf

LEMMA AbstractAt == \A r \in Handles : AbstractState[r] = StateOf(phase[r])
BY DEF AbstractState

LEMMA InitImplements == Init => Contract!Init
<1> SUFFICES ASSUME Init PROVE Contract!Init
  OBVIOUS
<1>1. AbstractState = [r \in Handles |-> "new"]
  BY StateOfPhase DEF Init, AbstractState
<1> QED
  BY <1>1 DEF Init, Contract!Init

LEMMA TryReserveImplements ==
  ASSUME IInv, NEW r \in Handles, NEW e \in Estimates, TryReserve(r, e)
  PROVE  Contract!Ask(r, e)
<1>1. AbstractState[r] \in {"new", "denied", "closed"}
  BY AbstractAt, StateOfPhase DEF TryReserve
<1>2. AbstractState' = [AbstractState EXCEPT ![r] = "asking"]
  BY EnterMaps, StateOfPhase DEF IInv, TryReserve
<1> QED
  BY <1>1, <1>2 DEF TryReserve, Contract!Ask, Contract!Enter

LEMMA ReserveReadImplements ==
  ASSUME IInv, NEW r \in Handles, ReserveRead(r)
  PROVE  Contract!Refuse(r) \/ UNCHANGED Contract!tokenVars
<1>1. AbstractState[r] = "asking"
  BY AbstractAt, StateOfPhase DEF ReserveRead
<1>2. CASE available < est[r] /\ Enter(r, "denied")
  <2>1. AbstractState' = [AbstractState EXCEPT ![r] = "denied"]
    BY <1>2, EnterMaps, StateOfPhase DEF IInv
  <2> QED
    BY <1>1, <1>2, <2>1 DEF ReserveRead, Contract!Refuse, Contract!Enter
<1>3. CASE UNCHANGED phase
  BY <1>3, SamePhaseMaps DEF ReserveRead, Contract!tokenVars
<1> QED
  BY <1>2, <1>3 DEF ReserveRead

LEMMA ReserveCasImplements ==
  ASSUME IInv, NEW r \in Handles, ReserveCas(r)
  PROVE  Contract!Grant(r)
<1>1. AbstractState[r] = "asking"
  BY AbstractAt, StateOfPhase DEF ReserveCas
<1>2. AbstractState' = [AbstractState EXCEPT ![r] = "open"]
  BY EnterMaps, StateOfPhase DEF IInv, ReserveCas
<1>3. est[r] <= available /\ cur[r] = available
  BY ConstantsAreOK DEF ConstantsOK, IInv, TypeOK, HandleInv, ReserveCas
<1> QED
  BY <1>1, <1>2, <1>3 DEF ReserveCas, Contract!Grant, Contract!Enter

LEMMA RecordUsageImplements ==
  ASSUME IInv, NEW r \in Handles, NEW p \in Usages, NEW k \in Usages,
         RecordUsage(r, p, k)
  PROVE  Contract!Record(r, p, k)
<1> DEFINE actual == SaturatingAdd(p, k)
<1>1. actual = Contract!Actual(p, k) /\ actual \in Nat
  BY ConstantsAreOK DEF ConstantsOK, SaturatingAdd, Contract!Actual
<1>2. /\ alive /\ phase[r] = "open"
      /\ consumed' = (consumed + actual) % (MaxU64 + 1)
      /\ todo' = [todo EXCEPT ![r] = est[r] - actual]
      /\ Enter(r, IF est[r] = actual THEN "scope_end" ELSE "reconcile")
      /\ UNCHANGED <<available, alive, est>>
  BY DEF RecordUsage
<1> HIDE DEF actual
<1>3. AbstractState[r] = "open"
  BY <1>2, AbstractAt, StateOfPhase
<1>4. AbstractState' =
        [AbstractState EXCEPT ![r] = StateOf(IF est[r] = actual THEN "scope_end"
                                                                ELSE "reconcile")]
  BY <1>2, EnterMaps DEF IInv
<1>5. est[r] = actual <=> est[r] - actual = 0
  BY <1>1 DEF IInv, TypeOK
<1>6. AbstractState' =
        [AbstractState EXCEPT ![r] = IF est[r] - actual = 0 THEN "closed" ELSE "owing"]
  BY <1>4, <1>5, StateOfPhase
<1> QED
  BY <1>1, <1>2, <1>3, <1>6 DEF Contract!Record, Contract!Owe, Contract!Enter

LEMMA AdjustCasImplements ==
  ASSUME IInv, NEW r \in Handles, AdjustCas(r)
  PROVE  Contract!Correct(r)
<1>1. AbstractState[r] = "owing"
  BY AbstractAt, StateOfPhase DEF AdjustCas
<1>2. AbstractState' = [AbstractState EXCEPT ![r] = "closed"]
  <2>1. PICK p \in {"scope_end", "closed"} : Enter(r, p)
    BY DEF AdjustCas
  <2>2. StateOf(p) = "closed"
    BY <2>1, StateOfPhase
  <2> QED
    BY <2>1, <2>2, EnterMaps DEF IInv
<1>3. /\ cur[r] = available /\ available \in 0 .. Capacity /\ todo[r] \in Int
      /\ available' = Adjusted(r)
  BY DEF IInv, TypeOK, AdjustCas
<1>4. available' = Contract!Clamp(available + todo[r])
  <2>1. CASE todo[r] >= 0
    <3>1. todo[r] \in Nat /\ available' = Refunded(available, todo[r])
      BY <1>3, <2>1 DEF Adjusted
    <3>2. Refunded(available, todo[r]) =
            IF available + todo[r] > Capacity THEN Capacity ELSE available + todo[r]
      BY <1>3, <3>1, RefundedBounds
    <3> QED
      BY <1>3, <3>1, <3>2, CapacityAssumption DEF Contract!Clamp
  <2>2. CASE todo[r] < 0
    <3>1. -todo[r] \in Nat /\ available' = Debited(available, -todo[r])
      BY <1>3, <2>2 DEF Adjusted
    <3>2. Debited(available, -todo[r]) =
            IF available - (-todo[r]) < 0 THEN 0 ELSE available - (-todo[r])
      BY <1>3, <3>1, DebitedBounds
    <3> QED
      BY <1>3, <2>2, <3>1, <3>2, CapacityAssumption DEF Contract!Clamp
  <2> QED
    BY <1>3, <2>1, <2>2
<1> QED
  BY <1>1, <1>2, <1>4 DEF AdjustCas, Contract!Correct, Contract!Enter

\* Dropping an armed reservation owes its estimate; an estimate of 0 owes
\* nothing, and neither does a reservation whose budget is gone.
LEMMA DropImplements ==
  ASSUME IInv, NEW r \in Handles, DropReservation(r)
  PROVE  Contract!Drop(r) \/ Contract!DropUnpaid(r)
<1>1. /\ AbstractState[r] = "open" /\ phase[r] = "open" /\ armed[r]
      /\ est[r] \in Nat /\ todo[r] = 0 /\ todo \in [Handles -> Int]
  BY AbstractAt, StateOfPhase DEF IInv, TypeOK, HandleInv, DropReservation
<1>2. CASE Upgradable /\ est[r] > 0
  <2>1. Enter(r, "refund") /\ todo' = [todo EXCEPT ![r] = est[r]]
    BY <1>1, <1>2 DEF DropReservation, RunDrop
  <2>2. AbstractState' = [AbstractState EXCEPT ![r] = "owing"]
    BY <2>1, EnterMaps, StateOfPhase DEF IInv
  <2>3. est[r] # 0
    BY <1>1, <1>2
  <2> QED
    BY <1>1, <2>1, <2>2, <2>3
       DEF DropReservation, RunDrop, Contract!Drop, Contract!Owe, Contract!Enter
<1>3. CASE ~(Upgradable /\ est[r] > 0)
  <2>1. Enter(r, "closed") /\ UNCHANGED todo
    BY <1>1, <1>3 DEF DropReservation, RunDrop
  <2>2. AbstractState' = [AbstractState EXCEPT ![r] = "closed"]
    BY <2>1, EnterMaps, StateOfPhase DEF IInv
  <2>3. CASE ~alive
    BY <1>1, <2>1, <2>2, <2>3
       DEF DropReservation, RunDrop, Contract!DropUnpaid, Contract!Enter
  <2>4. CASE alive
    <3>1. est[r] = 0
      BY <1>1, <1>3, <2>4 DEF Upgradable
    <3>2. todo' = [todo EXCEPT ![r] = est[r]]
      BY <1>1, <2>1, <3>1
    <3> QED
      BY <1>1, <2>2, <3>1, <3>2
         DEF DropReservation, RunDrop, Contract!Drop, Contract!Owe, Contract!Enter
  <2> QED
    BY <2>3, <2>4
<1> QED
  BY <1>2, <1>3

\* What record_usage lets go of is disarmed: nothing abstract happens.
LEMMA ScopeEndImplements ==
  ASSUME IInv, NEW r \in Handles, ScopeEnd(r)
  PROVE  UNCHANGED Contract!tokenVars
<1>1. ~armed[r] /\ AbstractState[r] = "closed"
  BY AbstractAt, StateOfPhase DEF IInv, HandleInv, ScopeEnd
<1>2. Enter(r, "closed") /\ UNCHANGED todo
  BY <1>1 DEF ScopeEnd, RunDrop
<1>3. UNCHANGED AbstractState
  <2>1. AbstractState' = [AbstractState EXCEPT ![r] = "closed"]
    BY <1>2, EnterMaps, StateOfPhase DEF IInv
  <2> QED
    BY <1>1, <2>1 DEF AbstractState
<1> QED
  BY <1>2, <1>3 DEF ScopeEnd, RunDrop, Contract!tokenVars

LEMMA NextImplements == IInv /\ [Next]_vars => [Contract!Next]_Contract!tokenVars
<1> SUFFICES ASSUME IInv, [Next]_vars PROVE [Contract!Next]_Contract!tokenVars
  OBVIOUS
<1>1. ASSUME NEW r \in Handles, NEW e \in Estimates, TryReserve(r, e)
      PROVE  Contract!Next
  BY <1>1, TryReserveImplements DEF Contract!Next
<1>2. ASSUME NEW r \in Handles, NEW p \in Usages, NEW k \in Usages, RecordUsage(r, p, k)
      PROVE  Contract!Next
  BY <1>2, RecordUsageImplements DEF Contract!Next
<1>3. ASSUME NEW r \in Handles, Step(r) \/ DropReservation(r)
      PROVE  [Contract!Next]_Contract!tokenVars
  <2>1. CASE ReserveRead(r)
    BY <2>1, ReserveReadImplements DEF Contract!Next
  <2>2. CASE ReserveCas(r)
    BY <2>2, ReserveCasImplements DEF Contract!Next
  <2>3. CASE AdjustRead(r)
    BY <2>3, SamePhaseMaps DEF AdjustRead, Contract!tokenVars
  <2>4. CASE AdjustCas(r)
    BY <2>4, AdjustCasImplements DEF Contract!Next
  <2>5. CASE ScopeEnd(r)
    BY <2>5, ScopeEndImplements
  <2>6. CASE DropReservation(r)
    BY <2>6, DropImplements DEF Contract!Next
  <2> QED
    BY <1>3, <2>1, <2>2, <2>3, <2>4, <2>5, <2>6 DEF Step
<1>4. CASE DropBudget
  BY <1>4, SamePhaseMaps DEF DropBudget, Contract!DropBudget, Contract!Next
<1>5. CASE UNCHANGED vars
  BY <1>5, SamePhaseMaps DEF vars, Contract!tokenVars
<1> QED
  BY <1>1, <1>2, <1>3, <1>4, <1>5 DEF Next

\* Every behaviour of the atomics is one of the TokenBudget contract: a grant,
\* a refusal, a recording and a correction each take effect at one instant, and
\* each reservation is recorded or returned once.
THEOREM Implementation == Spec => ImplementsTokenBudget
BY InitImplements, NextImplements, Invariance, PTL
   DEF Spec, ImplementsTokenBudget, Contract!Spec
=============================================================================
