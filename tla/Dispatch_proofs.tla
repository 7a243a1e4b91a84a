--------------------------- MODULE Dispatch_proofs ---------------------------
(***************************************************************************)
(* Theorems about Dispatch, for any number of dispatches, any hooks over   *)
(* any line-ups, any invocations, any capacity, cost and limit, whatever   *)
(* the host's code decides, fails or cancels.                              *)
(***************************************************************************)
EXTENDS Dispatch, Sums_proofs, SequenceTheorems, TLAPS

PCs == {"before", "count", "tool", "after", "cleanup", "after_give", "cleanup_give",
        "ok", "err", "cancelled"}

Outcomes == {"Completed", "Skipped", "Failed", "Terminated"}

Kinds == {"HookBefore", "HookBeforeError", "HookAfter", "HookCleanup", "InvocationOutcome"}

Whats == Outcomes \cup {"Continue", "Skip", "Terminate", "error", "done"}

Events == [kind : Kinds, inv : Nat, hook : Nat, what : Whats]

LocalTypes ==
  /\ pc \in [Tasks -> PCs]
  /\ inv \in [Tasks -> Nat \ {0}]
  /\ pos \in [Tasks -> Nat \ {0}]
  /\ upto \in [Tasks -> Nat]
  /\ outcome \in [Tasks -> Outcomes \cup {"none"}]
  /\ trace \in [Tasks -> Seq(Events)]

InLoop(t) == pc[t] \in {"after", "cleanup", "after_give", "cleanup_give"}

\* What a dispatch's place says of its indices.
Control(t) ==
  /\ pc[t] # "ok" => inv[t] <= Len(Calls[t])
  /\ pc[t] = "ok" => inv[t] = Len(Calls[t]) + 1
  /\ pc[t] \in {"before", "count"} => pos[t] <= Len(HooksOf[t])
  /\ InLoop(t) => pos[t] <= upto[t] /\ upto[t] <= Len(HooksOf[t])
  /\ pc[t] \in {"after", "after_give"} => outcome[t] \in {"Completed", "Skipped"}
  /\ pc[t] \in {"cleanup", "cleanup_give"} => outcome[t] \in {"Failed", "Terminated"}
  /\ pc[t] \in {"count", "after_give", "cleanup_give"} => Kind[Hook(t)] = "budget"

Pending == {t \in Tasks : pc[t] \in {"count", "after_give", "cleanup_give"}}

----------------------------------------------------------------------------
(* Traces.  The events of one invocation i in a trace tr, with hooks 1..n.  *)

IndicesIn(tr, kinds, i, k) ==
  {x \in DOMAIN tr : tr[x].kind \in kinds /\ tr[x].inv = i /\ tr[x].hook = k}

Seen(tr, i, k) == IndicesIn(tr, {"HookBefore"}, i, k)
Failure(tr, i, k) == IndicesIn(tr, {"HookBeforeError"}, i, k)
Back(tr, i, k) == IndicesIn(tr, {"HookAfter", "HookCleanup"}, i, k)
OutcomesOf(tr, i) == IndicesIn(tr, {"InvocationOutcome"}, i, 0)

\* Hook k was called back once, after it observed the invocation.
CalledBack(tr, i, k) == \E x \in Nat : Back(tr, i, k) = {x} /\ \A y \in Seen(tr, i, k) : y < x

NoFailure(tr, i, n) == \A k \in 1 .. n : Failure(tr, i, k) = {}

\* In the before loop, at hook p.
InFront(tr, i, n, p) ==
  /\ OutcomesOf(tr, i) = {}
  /\ NoFailure(tr, i, n)
  /\ \A k \in 1 .. n : Back(tr, i, k) = {} /\ (Seen(tr, i, k) # {} <=> k < p)

\* In the callback loop, at hook p of the first m.
InMiddle(tr, i, n, p, m) ==
  /\ OutcomesOf(tr, i) = {}
  /\ \A k \in 1 .. n :
       /\ IF k < p THEN CalledBack(tr, i, k) ELSE Back(tr, i, k) = {}
       /\ Seen(tr, i, k) # {} => k <= m
       /\ Seen(tr, i, k) = {} /\ k <= m => NoFailure(tr, i, n)

\* The invocation has its outcome, and every callback was made.
Over(tr, i, n) ==
  /\ \E x \in Nat : OutcomesOf(tr, i) = {x}
  /\ \A k \in 1 .. n :
       /\ Seen(tr, i, k) # {} => CalledBack(tr, i, k)
       /\ Seen(tr, i, k) = {} /\ Back(tr, i, k) # {} => NoFailure(tr, i, n)

\* Does event e belong in IndicesIn(_, kinds, i, k)?
Fits(e, kinds, i, k) == e.kind \in kinds /\ e.inv = i /\ e.hook = k

\* Append, as the lemmas name it.
Grow(tr, e) == Append(tr, e)

LEMMA GrowIndices ==
  ASSUME NEW tr \in Seq(Events), NEW e \in Events, NEW kinds, NEW i, NEW k
  PROVE  /\ ~Fits(e, kinds, i, k) =>
               IndicesIn(Grow(tr, e), kinds, i, k) = IndicesIn(tr, kinds, i, k)
         /\ Fits(e, kinds, i, k) =>
               IndicesIn(Grow(tr, e), kinds, i, k) = IndicesIn(tr, kinds, i, k) \cup {Len(tr) + 1}
<1>1. /\ DOMAIN tr = 1 .. Len(tr) /\ Len(tr) \in Nat
      /\ DOMAIN Grow(tr, e) = 1 .. Len(tr) + 1
      /\ \A x \in 1 .. Len(tr) : Grow(tr, e)[x] = tr[x]
      /\ Grow(tr, e)[Len(tr) + 1] = e
  BY DEF Grow
<1>2. DOMAIN Grow(tr, e) = DOMAIN tr \cup {Len(tr) + 1}
  BY <1>1
<1>3. ASSUME NEW x
      PROVE  x \in IndicesIn(Grow(tr, e), kinds, i, k) <=>
               \/ x \in IndicesIn(tr, kinds, i, k)
               \/ x = Len(tr) + 1 /\ Fits(e, kinds, i, k)
  <2>1. CASE x \in DOMAIN tr
    BY <1>1, <1>2, <2>1 DEF IndicesIn
  <2>2. CASE x = Len(tr) + 1
    BY <1>1, <1>2, <2>2 DEF IndicesIn, Fits
  <2>3. CASE x \notin DOMAIN Grow(tr, e)
    BY <1>2, <2>3 DEF IndicesIn
  <2> QED BY <1>2, <2>1, <2>2, <2>3
<1> QED BY <1>1, <1>3

LEMMA IndicesRange ==
  ASSUME NEW tr \in Seq(Events), NEW kinds, NEW i, NEW k
  PROVE  IndicesIn(tr, kinds, i, k) \subseteq 1 .. Len(tr) /\ Len(tr) \in Nat
BY DEF IndicesIn

\* An event of another invocation changes nothing for this one.
LEMMA OtherInvocation ==
  ASSUME NEW tr \in Seq(Events), NEW e \in Events, NEW i, NEW n \in Nat, e.inv # i
  PROVE  Over(Grow(tr, e), i, n) <=> Over(tr, i, n)
<1>1. ASSUME NEW kinds, NEW k
      PROVE  IndicesIn(Grow(tr, e), kinds, i, k) = IndicesIn(tr, kinds, i, k)
  <2>1. ~Fits(e, kinds, i, k)
    BY DEF Fits
  <2> QED BY <2>1, GrowIndices
<1> QED
  BY <1>1 DEF Over, CalledBack, NoFailure, Seen, Failure, Back, OutcomesOf

LEMMA FrontOfFresh ==
  ASSUME NEW tr \in Seq(Events), NEW i, NEW n \in Nat, \A x \in DOMAIN tr : tr[x].inv # i
  PROVE  InFront(tr, i, n, 1)
<1>1. \A kinds, k : IndicesIn(tr, kinds, i, k) = {}
  BY DEF IndicesIn
<1> QED
  BY <1>1 DEF InFront, NoFailure, Seen, Failure, Back, OutcomesOf

\* What an event of the invocation adds to each of the four sets.
Added(tr, e, i, k) ==
  /\ Len(tr) \in Nat
  /\ \A y \in Seen(tr, i, k) : y \in Nat /\ y < Len(tr) + 1
  /\ IF e.kind = "HookBefore" /\ e.hook = k
     THEN Seen(Grow(tr, e), i, k) = Seen(tr, i, k) \cup {Len(tr) + 1}
     ELSE Seen(Grow(tr, e), i, k) = Seen(tr, i, k)
  /\ IF e.kind = "HookBeforeError" /\ e.hook = k
     THEN Failure(Grow(tr, e), i, k) = Failure(tr, i, k) \cup {Len(tr) + 1}
     ELSE Failure(Grow(tr, e), i, k) = Failure(tr, i, k)
  /\ IF e.kind \in {"HookAfter", "HookCleanup"} /\ e.hook = k
     THEN Back(Grow(tr, e), i, k) = Back(tr, i, k) \cup {Len(tr) + 1}
     ELSE Back(Grow(tr, e), i, k) = Back(tr, i, k)
  /\ IF e.kind = "InvocationOutcome" /\ e.hook = 0
     THEN OutcomesOf(Grow(tr, e), i) = OutcomesOf(tr, i) \cup {Len(tr) + 1}
     ELSE OutcomesOf(Grow(tr, e), i) = OutcomesOf(tr, i)

LEMMA EventAdds ==
  ASSUME NEW tr \in Seq(Events), NEW e \in Events, NEW i, e.inv = i, NEW k
  PROVE  Added(tr, e, i, k)
<1>1. Len(tr) \in Nat /\ \A y \in Seen(tr, i, k) : y \in Nat /\ y < Len(tr) + 1
  BY IndicesRange DEF Seen
<1>2. ASSUME NEW kinds, NEW q
      PROVE  IF e.kind \in kinds /\ e.hook = q
             THEN IndicesIn(Grow(tr, e), kinds, i, q) = IndicesIn(tr, kinds, i, q) \cup {Len(tr) + 1}
             ELSE IndicesIn(Grow(tr, e), kinds, i, q) = IndicesIn(tr, kinds, i, q)
  <2>1. Fits(e, kinds, i, q) <=> e.kind \in kinds /\ e.hook = q
    BY DEF Fits
  <2> QED BY <2>1, GrowIndices
<1>3. \A kind : e.kind \in {kind} <=> e.kind = kind
  OBVIOUS
<1>4. IF e.kind = "HookBefore" /\ e.hook = k
      THEN Seen(Grow(tr, e), i, k) = Seen(tr, i, k) \cup {Len(tr) + 1}
      ELSE Seen(Grow(tr, e), i, k) = Seen(tr, i, k)
  BY <1>2, <1>3 DEF Seen
<1>5. IF e.kind = "HookBeforeError" /\ e.hook = k
      THEN Failure(Grow(tr, e), i, k) = Failure(tr, i, k) \cup {Len(tr) + 1}
      ELSE Failure(Grow(tr, e), i, k) = Failure(tr, i, k)
  BY <1>2, <1>3 DEF Failure
<1>6. IF e.kind \in {"HookAfter", "HookCleanup"} /\ e.hook = k
      THEN Back(Grow(tr, e), i, k) = Back(tr, i, k) \cup {Len(tr) + 1}
      ELSE Back(Grow(tr, e), i, k) = Back(tr, i, k)
  BY <1>2 DEF Back
<1>7. IF e.kind = "InvocationOutcome" /\ e.hook = 0
      THEN OutcomesOf(Grow(tr, e), i) = OutcomesOf(tr, i) \cup {Len(tr) + 1}
      ELSE OutcomesOf(Grow(tr, e), i) = OutcomesOf(tr, i)
  BY <1>2, <1>3 DEF OutcomesOf
<1> QED BY <1>1, <1>4, <1>5, <1>6, <1>7 DEF Added

LEMMA FrontGoesOn ==
  ASSUME NEW tr \in Seq(Events), NEW e \in Events, NEW i, NEW n \in Nat, NEW p \in 1 .. n,
         InFront(tr, i, n, p), e.kind = "HookBefore", e.inv = i, e.hook = p
  PROVE  InFront(Grow(tr, e), i, n, p + 1)
<1>0. \A k : Added(tr, e, i, k)
  BY EventAdds
<1>1. OutcomesOf(Grow(tr, e), i) = {}
  BY <1>0 DEF InFront, Added
<1>2. ASSUME NEW k \in 1 .. n
      PROVE  /\ Failure(Grow(tr, e), i, k) = {}
             /\ Back(Grow(tr, e), i, k) = {}
             /\ Seen(Grow(tr, e), i, k) # {} <=> k < p + 1
  <2>1. Added(tr, e, i, k)
    BY <1>0
  <2>2. Failure(Grow(tr, e), i, k) = Failure(tr, i, k) /\ Back(Grow(tr, e), i, k) = Back(tr, i, k)
    BY <2>1 DEF Added
  <2>3. Seen(Grow(tr, e), i, k) # {} <=> k = p \/ Seen(tr, i, k) # {}
    BY <2>1 DEF Added
  <2>4. Failure(tr, i, k) = {} /\ Back(tr, i, k) = {} /\ (Seen(tr, i, k) # {} <=> k < p)
    BY DEF InFront, NoFailure
  <2> QED BY <2>2, <2>3, <2>4
<1> QED BY <1>1, <1>2 DEF InFront, NoFailure

\* The callbacks begin: after a decision or the tool, on every hook.
LEMMA FrontIsDone ==
  ASSUME NEW tr, NEW i, NEW n \in Nat, NEW p \in Nat, InFront(tr, i, n, p)
  PROVE  InMiddle(tr, i, n, 1, n)
BY DEF InFront, InMiddle

\* ... and after a failed before_invocation, on the hooks in front of it.
LEMMA FrontHasFailed ==
  ASSUME NEW tr \in Seq(Events), NEW e \in Events, NEW i, NEW n \in Nat, NEW p \in 1 .. n,
         InFront(tr, i, n, p), e.kind = "HookBeforeError", e.inv = i, e.hook = p
  PROVE  InMiddle(Grow(tr, e), i, n, 1, p - 1)
<1>0. \A k : Added(tr, e, i, k)
  BY EventAdds
<1>1. OutcomesOf(Grow(tr, e), i) = {}
  BY <1>0 DEF InFront, Added
<1>2. ASSUME NEW k \in 1 .. n
      PROVE  Back(Grow(tr, e), i, k) = {} /\ (Seen(Grow(tr, e), i, k) # {} <=> k < p)
  <2>1. Added(tr, e, i, k)
    BY <1>0
  <2> QED BY <2>1 DEF InFront, Added
<1> QED BY <1>1, <1>2 DEF InMiddle

LEMMA MiddleGoesOn ==
  ASSUME NEW tr \in Seq(Events), NEW e \in Events, NEW i, NEW n \in Nat, NEW m \in 1 .. n,
         NEW p \in 1 .. m, InMiddle(tr, i, n, p, m),
         e.kind \in {"HookAfter", "HookCleanup"}, e.inv = i, e.hook = p
  PROVE  InMiddle(Grow(tr, e), i, n, p + 1, m)
<1>0. \A k : Added(tr, e, i, k)
  BY EventAdds
<1>1. OutcomesOf(Grow(tr, e), i) = {}
  BY <1>0 DEF InMiddle, Added
<1>2. ASSUME NEW k \in 1 .. n
      PROVE  /\ Seen(Grow(tr, e), i, k) = Seen(tr, i, k)
             /\ Failure(Grow(tr, e), i, k) = Failure(tr, i, k)
             /\ k # p => Back(Grow(tr, e), i, k) = Back(tr, i, k)
  <2>1. Added(tr, e, i, k)
    BY <1>0
  <2> QED BY <2>1 DEF Added
<1>3. ASSUME NEW k \in 1 .. n, k < p PROVE CalledBack(Grow(tr, e), i, k)
  <2>1. CalledBack(tr, i, k)
    BY <1>3 DEF InMiddle
  <2> QED BY <1>2, <1>3, <2>1 DEF CalledBack
<1>4. CalledBack(Grow(tr, e), i, p)
  <2>1. p \in 1 .. n /\ Added(tr, e, i, p)
    BY <1>0
  <2>2. Back(tr, i, p) = {}
    BY <2>1 DEF InMiddle
  <2>3. Back(Grow(tr, e), i, p) = {Len(tr) + 1} /\ Len(tr) + 1 \in Nat
    BY <2>1, <2>2 DEF Added
  <2>4. \A y \in Seen(Grow(tr, e), i, p) : y < Len(tr) + 1
    BY <1>2, <2>1 DEF Added
  <2> QED BY <2>3, <2>4 DEF CalledBack
<1>5. ASSUME NEW k \in 1 .. n, k > p PROVE Back(Grow(tr, e), i, k) = {}
  <2>1. k # p /\ ~(k < p)
    BY <1>5
  <2> QED BY <1>2, <2>1 DEF InMiddle
<1>6. ASSUME NEW k \in 1 .. n
      PROVE  IF k < p + 1 THEN CalledBack(Grow(tr, e), i, k) ELSE Back(Grow(tr, e), i, k) = {}
  BY <1>3, <1>4, <1>5
<1> QED BY <1>1, <1>2, <1>6 DEF InMiddle, NoFailure

LEMMA MiddleIsOver ==
  ASSUME NEW tr \in Seq(Events), NEW e \in Events, NEW i, NEW n \in Nat, NEW m \in 0 .. n,
         InMiddle(tr, i, n, m + 1, m), e.kind = "InvocationOutcome", e.inv = i, e.hook = 0
  PROVE  Over(Grow(tr, e), i, n)
<1>0. \A k : Added(tr, e, i, k)
  BY EventAdds
<1>1. OutcomesOf(Grow(tr, e), i) = {Len(tr) + 1} /\ Len(tr) + 1 \in Nat
  BY <1>0 DEF InMiddle, Added
<1>2. ASSUME NEW k \in 1 .. n
      PROVE  /\ Seen(Grow(tr, e), i, k) = Seen(tr, i, k)
             /\ Failure(Grow(tr, e), i, k) = Failure(tr, i, k)
             /\ Back(Grow(tr, e), i, k) = Back(tr, i, k)
  <2>1. Added(tr, e, i, k)
    BY <1>0
  <2> QED BY <2>1 DEF Added
<1> QED BY <1>1, <1>2 DEF InMiddle, Over, CalledBack, NoFailure

----------------------------------------------------------------------------
(* Control.  What each part of a step does to the dispatch that takes it;  *)
(* every other dispatch stands still.                                      *)

StandsStill(s) ==
  /\ pc'[s] = pc[s] /\ inv'[s] = inv[s] /\ pos'[s] = pos[s] /\ upto'[s] = upto[s]
  /\ outcome'[s] = outcome[s] /\ trace'[s] = trace[s]

\* Only dispatch t moves, and its place makes sense.
Moves(t) == LocalTypes' /\ Control(t)' /\ \A s \in Tasks \ {t} : StandsStill(s)

\* Invocation inv[t] ends, with an outcome after the trace tr.
Ends(t, tr) ==
  /\ \E e \in Events : /\ e.kind = "InvocationOutcome" /\ e.inv = inv[t] /\ e.hook = 0
                       /\ trace'[t] = Grow(tr, e)
  /\ pos'[t] = 1
  /\ \/ /\ inv'[t] = inv[t] + 1
        /\ \/ pc'[t] = "ok"
           \/ pc'[t] = "before"
           \/ pc'[t] = "tool" /\ Len(HooksOf[t]) = 0
     \/ inv'[t] = inv[t] /\ pc'[t] = "err"

\* Dispatch t comes to callback p of m.
CallsBack(t, tr, p, m) ==
  /\ pc'[t] \in {"after", "cleanup"} /\ pos'[t] = p /\ upto'[t] = m /\ inv'[t] = inv[t]
  /\ trace'[t] = tr

Enters(t, tr, m) == IF m = 0 THEN Ends(t, tr) ELSE CallsBack(t, tr, 1, m)

LEMMA EventType ==
  ASSUME NEW kind \in Kinds, NEW i \in Nat, NEW k \in Nat, NEW what \in Whats
  PROVE  /\ Event(kind, i, k, what) \in Events
         /\ Event(kind, i, k, what).kind = kind
         /\ Event(kind, i, k, what).inv = i
         /\ Event(kind, i, k, what).hook = k
BY DEF Event, Events

LEMMA GrowType ==
  ASSUME NEW tr \in Seq(Events), NEW e \in Events
  PROVE  Grow(tr, e) \in Seq(Events)
BY DEF Grow

LEMMA LineUps ==
  ASSUME NEW t \in Tasks
  PROVE  /\ Len(HooksOf[t]) \in Nat /\ DOMAIN HooksOf[t] = 1 .. Len(HooksOf[t])
         /\ \A k \in 1 .. Len(HooksOf[t]) : HooksOf[t][k] \in Hooks
         /\ Len(Calls[t]) \in Nat
         /\ \A i \in 1 .. Len(Calls[t]) : Calls[t][i] \in Fingerprints
BY HooksAssumption, LenProperties, ElementOfSeq

LEMMA EntryFacts ==
  ASSUME NEW t \in Tasks, NEW i \in Nat
  PROVE  /\ EntryOf(t, i) \in {"ok", "before", "tool"}
         /\ EntryOf(t, i) = "ok" <=> i > Len(Calls[t])
         /\ EntryOf(t, i) = "tool" => Len(HooksOf[t]) = 0
         /\ EntryOf(t, i) = "before" => Len(HooksOf[t]) >= 1
BY LineUps DEF EntryOf

LEMMA FinishFacts ==
  ASSUME LocalTypes, NEW t \in Tasks, inv[t] <= Len(Calls[t]), NEW tr \in Seq(Events),
         NEW how \in Outcomes, NEW what, Finish(t, tr, how, what)
  PROVE  Moves(t) /\ Ends(t, tr)
<1> DEFINE e == Event("InvocationOutcome", inv[t], 0, how)
<1>1. /\ e \in Events /\ e.kind = "InvocationOutcome" /\ e.inv = inv[t] /\ e.hook = 0
  <2>1. inv[t] \in Nat /\ 0 \in Nat
    BY DEF LocalTypes
  <2>2. how \in Whats /\ "InvocationOutcome" \in Kinds
    BY DEF Outcomes, Whats, Kinds
  <2> QED BY <2>1, <2>2, EventType
<1>2. trace' = [trace EXCEPT ![t] = Grow(tr, e)]
  BY DEF Finish, WithOutcome, Grow
<1> HIDE DEF e
<1>3. Grow(tr, e) \in Seq(Events)
  BY <1>1, GrowType
<1>4. /\ pos' = [pos EXCEPT ![t] = 1] /\ upto' = [upto EXCEPT ![t] = 0]
      /\ outcome' = [outcome EXCEPT ![t] = "none"]
  BY DEF Finish
<1>5. /\ inv[t] + 1 \in Nat \ {0} /\ inv[t] + 1 \in Nat /\ Len(Calls[t]) \in Nat
      /\ inv[t] + 1 > Len(Calls[t]) <=> inv[t] + 1 = Len(Calls[t]) + 1
  BY LineUps DEF LocalTypes
<1>6. CASE /\ inv' = [inv EXCEPT ![t] = @ + 1]
           /\ pc' = [pc EXCEPT ![t] = EntryOf(t, inv[t] + 1)]
  <2>1. EntryOf(t, inv[t] + 1) \in PCs /\ EntryOf(t, inv[t] + 1) \in {"ok", "before", "tool"}
    BY <1>5, EntryFacts DEF PCs
  <2>2. pc'[t] = EntryOf(t, inv[t] + 1) /\ inv'[t] = inv[t] + 1 /\ pos'[t] = 1
    BY <1>4, <1>6 DEF LocalTypes
  <2>3. LocalTypes'
    BY <1>2, <1>3, <1>4, <1>5, <1>6, <2>1 DEF LocalTypes
  <2>4. Control(t)'
    BY <1>5, <2>1, <2>2, EntryFacts, LineUps DEF Control, InLoop
  <2>5. \A s \in Tasks \ {t} : StandsStill(s)
    BY <1>2, <1>4, <1>6 DEF LocalTypes, StandsStill
  <2>6. Ends(t, tr)
    BY <1>1, <1>2, <1>5, <2>1, <2>2, EntryFacts DEF LocalTypes, Ends
  <2> QED BY <2>3, <2>4, <2>5, <2>6 DEF Moves
<1>7. CASE pc' = [pc EXCEPT ![t] = "err"] /\ UNCHANGED inv
  <2>1. pc'[t] = "err" /\ inv'[t] = inv[t] /\ pos'[t] = 1
    BY <1>4, <1>7 DEF LocalTypes
  <2>2. LocalTypes'
    BY <1>2, <1>3, <1>4, <1>7 DEF LocalTypes, PCs
  <2>3. Control(t)'
    BY <2>1 DEF Control, InLoop
  <2>4. \A s \in Tasks \ {t} : StandsStill(s)
    BY <1>2, <1>4, <1>7 DEF LocalTypes, StandsStill
  <2>5. Ends(t, tr)
    BY <1>1, <1>2, <2>1 DEF LocalTypes, Ends
  <2> QED BY <2>2, <2>3, <2>4, <2>5 DEF Moves
<1> QED BY <1>6, <1>7 DEF Finish

GoodEnd(phase, how) ==
  \/ phase = "after" /\ how \in {"Completed", "Skipped"}
  \/ phase = "cleanup" /\ how \in {"Failed", "Terminated"}

LEMMA StartFacts ==
  ASSUME LocalTypes, NEW t \in Tasks, inv[t] <= Len(Calls[t]), NEW tr \in Seq(Events),
         NEW phase, NEW how, GoodEnd(phase, how), NEW n \in 0 .. Len(HooksOf[t]),
         NEW what, StartCallbacks(t, phase, n, tr, how, what)
  PROVE  Moves(t) /\ Enters(t, tr, n)
<1>1. how \in Outcomes
  BY DEF GoodEnd, Outcomes
<1>2. CASE n = 0
  BY <1>1, <1>2, FinishFacts DEF StartCallbacks, Enters
<1>3. CASE n > 0
  <2>1. /\ trace' = [trace EXCEPT ![t] = tr] /\ pc' = [pc EXCEPT ![t] = phase]
        /\ pos' = [pos EXCEPT ![t] = 1] /\ upto' = [upto EXCEPT ![t] = n]
        /\ outcome' = [outcome EXCEPT ![t] = how] /\ UNCHANGED inv
    BY <1>3 DEF StartCallbacks
  <2>2. n \in Nat /\ Len(HooksOf[t]) \in Nat
    BY LineUps
  <2>3. LocalTypes'
    BY <1>1, <2>1, <2>2 DEF LocalTypes, PCs, GoodEnd
  <2>4. /\ pc'[t] = phase /\ pos'[t] = 1 /\ upto'[t] = n /\ outcome'[t] = how
        /\ inv'[t] = inv[t] /\ trace'[t] = tr
    BY <2>1 DEF LocalTypes
  <2>5. Control(t)'
    BY <1>3, <2>2, <2>4 DEF Control, InLoop, GoodEnd
  <2>6. \A s \in Tasks \ {t} : StandsStill(s)
    BY <2>1 DEF LocalTypes, StandsStill
  <2>7. Enters(t, tr, n)
    BY <1>3, <2>4 DEF Enters, CallsBack, GoodEnd
  <2> QED BY <2>3, <2>5, <2>6, <2>7 DEF Moves
<1> QED BY <1>2, <1>3, LineUps

\* The dispatch goes on with the next hook, with the tool, or with the callbacks.
GoesOn(t, tr) ==
  /\ pc'[t] = "before" /\ pos'[t] = pos[t] + 1 /\ inv'[t] = inv[t] /\ trace'[t] = tr
  /\ UNCHANGED ran

StartsTool(t, tr) ==
  /\ pos[t] = Len(HooksOf[t]) /\ pc'[t] = "tool" /\ inv'[t] = inv[t] /\ trace'[t] = tr
  /\ ran' = [ran EXCEPT ![Call(t)] = @ + 1]

LEMMA DecideFacts ==
  ASSUME LocalTypes, NEW t \in Tasks, Control(t), pc[t] \in {"before", "count"},
         NEW d \in {"Continue", "Skip", "Terminate"}, Decide(t, d)
  PROVE  /\ Moves(t)
         /\ \E e \in Events :
              /\ e.kind = "HookBefore" /\ e.inv = inv[t] /\ e.hook = pos[t]
              /\ IF d = "Continue"
                 THEN GoesOn(t, Grow(trace[t], e)) \/ StartsTool(t, Grow(trace[t], e))
                 ELSE CallsBack(t, Grow(trace[t], e), 1, Len(HooksOf[t])) /\ UNCHANGED ran
<1> DEFINE e == Event("HookBefore", inv[t], pos[t], d)
           n == Len(HooksOf[t])
<1>1. e \in Events /\ e.kind = "HookBefore" /\ e.inv = inv[t] /\ e.hook = pos[t]
  <2>1. inv[t] \in Nat /\ pos[t] \in Nat /\ d \in Whats /\ "HookBefore" \in Kinds
    BY DEF LocalTypes, Whats, Kinds
  <2> QED BY <2>1, EventType
<1>2. trace[t] \in Seq(Events) /\ Append(trace[t], e) = Grow(trace[t], e)
  BY DEF LocalTypes, Grow
<1>3. Grow(trace[t], e) \in Seq(Events)
  BY <1>1, <1>2, GrowType
<1>4. pos[t] \in 1 .. n /\ n \in Nat /\ inv[t] <= Len(Calls[t]) /\ pc[t] # "ok"
  BY LineUps DEF LocalTypes, Control
<1>5. \/ /\ d = "Continue" /\ pos[t] < n
         /\ pos' = [pos EXCEPT ![t] = @ + 1] /\ pc' = [pc EXCEPT ![t] = "before"]
         /\ trace' = [trace EXCEPT ![t] = Grow(trace[t], e)]
         /\ UNCHANGED <<inv, upto, outcome, ran>>
      \/ /\ d = "Continue" /\ pos[t] = n
         /\ pc' = [pc EXCEPT ![t] = "tool"] /\ ran' = [ran EXCEPT ![Call(t)] = @ + 1]
         /\ trace' = [trace EXCEPT ![t] = Grow(trace[t], e)]
         /\ UNCHANGED <<inv, pos, upto, outcome>>
      \/ /\ d = "Skip" /\ UNCHANGED ran
         /\ StartCallbacks(t, "after", n, Grow(trace[t], e), "Skipped", "hook_output")
      \/ /\ d = "Terminate" /\ UNCHANGED ran
         /\ StartCallbacks(t, "cleanup", n, Grow(trace[t], e), "Terminated", "terminated")
  BY <1>2 DEF Decide, StartTool
<1> HIDE DEF e
<1>6. CASE /\ d = "Continue" /\ pos[t] < n
           /\ pos' = [pos EXCEPT ![t] = @ + 1] /\ pc' = [pc EXCEPT ![t] = "before"]
           /\ trace' = [trace EXCEPT ![t] = Grow(trace[t], e)]
           /\ UNCHANGED <<inv, upto, outcome, ran>>
  <2>1. LocalTypes'
    BY <1>3, <1>4, <1>6 DEF LocalTypes, PCs
  <2>2. GoesOn(t, Grow(trace[t], e))
    BY <1>6 DEF GoesOn, LocalTypes
  <2>3. Control(t)'
    BY <1>4, <1>6, <2>2 DEF GoesOn, Control, InLoop
  <2>4. \A s \in Tasks \ {t} : StandsStill(s)
    BY <1>6 DEF LocalTypes, StandsStill
  <2> QED BY <1>1, <1>6, <2>1, <2>2, <2>3, <2>4 DEF Moves
<1>7. CASE /\ d = "Continue" /\ pos[t] = n
           /\ pc' = [pc EXCEPT ![t] = "tool"] /\ ran' = [ran EXCEPT ![Call(t)] = @ + 1]
           /\ trace' = [trace EXCEPT ![t] = Grow(trace[t], e)]
           /\ UNCHANGED <<inv, pos, upto, outcome>>
  <2>1. LocalTypes'
    BY <1>3, <1>4, <1>7 DEF LocalTypes, PCs
  <2>2. StartsTool(t, Grow(trace[t], e))
    BY <1>7 DEF StartsTool, LocalTypes
  <2>3. Control(t)'
    BY <1>4, <2>2 DEF StartsTool, Control, InLoop
  <2>4. \A s \in Tasks \ {t} : StandsStill(s)
    BY <1>7 DEF LocalTypes, StandsStill
  <2> QED BY <1>1, <1>7, <2>1, <2>2, <2>3, <2>4 DEF Moves
<1>8. ASSUME NEW phase, NEW how, GoodEnd(phase, how), d # "Continue", UNCHANGED ran,
             NEW what, StartCallbacks(t, phase, n, Grow(trace[t], e), how, what)
      PROVE  Moves(t) /\ CallsBack(t, Grow(trace[t], e), 1, n)
  <2>1. n \in 0 .. Len(HooksOf[t]) /\ n # 0
    BY <1>4
  <2>2. Moves(t) /\ Enters(t, Grow(trace[t], e), n)
    BY <1>3, <1>4, <1>8, <2>1, StartFacts
  <2> QED BY <2>1, <2>2 DEF Enters
<1>9. GoodEnd("after", "Skipped") /\ GoodEnd("cleanup", "Terminated")
  BY DEF GoodEnd
<1> QED BY <1>1, <1>5, <1>6, <1>7, <1>8, <1>9

LEMMA CallbackFacts ==
  ASSUME LocalTypes, NEW t \in Tasks, Control(t), InLoop(t),
         NEW phase \in {"after", "cleanup"}, GoodEnd(phase, outcome[t]), CallbackDone(t, phase)
  PROVE  /\ Moves(t)
         /\ \E e \in Events :
              /\ e.kind \in {"HookAfter", "HookCleanup"} /\ e.inv = inv[t] /\ e.hook = pos[t]
              /\ IF pos[t] = upto[t] THEN Ends(t, Grow(trace[t], e))
                 ELSE CallsBack(t, Grow(trace[t], e), pos[t] + 1, upto[t])
<1> DEFINE kind == IF phase = "after" THEN "HookAfter" ELSE "HookCleanup"
           e == Event(kind, inv[t], pos[t], "done")
<1>1. /\ e \in Events /\ e.kind \in {"HookAfter", "HookCleanup"}
      /\ e.inv = inv[t] /\ e.hook = pos[t]
  <2>1. /\ inv[t] \in Nat /\ pos[t] \in Nat /\ "done" \in Whats
        /\ kind \in Kinds /\ kind \in {"HookAfter", "HookCleanup"}
    BY DEF LocalTypes, Whats, Kinds
  <2> HIDE DEF kind
  <2> QED BY <2>1, EventType
<1>2. trace[t] \in Seq(Events) /\ Append(trace[t], e) = Grow(trace[t], e)
  BY DEF LocalTypes, Grow
<1>3. Grow(trace[t], e) \in Seq(Events)
  BY <1>1, <1>2, GrowType
<1>4. /\ pos[t] \in Nat \ {0} /\ upto[t] \in Nat /\ pos[t] <= upto[t] /\ upto[t] <= Len(HooksOf[t])
      /\ Len(HooksOf[t]) \in Nat /\ inv[t] <= Len(Calls[t]) /\ outcome[t] \in Outcomes
  BY LineUps DEF LocalTypes, Control, InLoop, GoodEnd, Outcomes
<1>5. \/ pos[t] = upto[t] /\ Finish(t, Grow(trace[t], e), outcome[t], value[t])
      \/ /\ pos[t] < upto[t]
         /\ pos' = [pos EXCEPT ![t] = @ + 1] /\ pc' = [pc EXCEPT ![t] = phase]
         /\ trace' = [trace EXCEPT ![t] = Grow(trace[t], e)]
         /\ UNCHANGED <<inv, upto, outcome>>
  BY <1>2 DEF CallbackDone
<1> HIDE DEF e
<1>6. CASE pos[t] = upto[t] /\ Finish(t, Grow(trace[t], e), outcome[t], value[t])
  <2>1. Moves(t) /\ Ends(t, Grow(trace[t], e))
    BY <1>3, <1>4, <1>6, FinishFacts
  <2> QED BY <1>1, <1>6, <2>1
<1>7. CASE /\ pos[t] < upto[t]
           /\ pos' = [pos EXCEPT ![t] = @ + 1] /\ pc' = [pc EXCEPT ![t] = phase]
           /\ trace' = [trace EXCEPT ![t] = Grow(trace[t], e)]
           /\ UNCHANGED <<inv, upto, outcome>>
  <2>1. LocalTypes'
    BY <1>3, <1>4, <1>7 DEF LocalTypes, PCs
  <2>2. CallsBack(t, Grow(trace[t], e), pos[t] + 1, upto[t]) /\ pc'[t] = phase /\ outcome'[t] = outcome[t]
    BY <1>7 DEF CallsBack, LocalTypes
  <2>3. Control(t)'
    BY <1>4, <1>7, <2>2 DEF CallsBack, Control, InLoop, GoodEnd
  <2>4. \A s \in Tasks \ {t} : StandsStill(s)
    BY <1>7 DEF LocalTypes, StandsStill
  <2>5. pos[t] # upto[t]
    BY <1>4, <1>7
  <2> QED BY <1>1, <2>1, <2>2, <2>3, <2>4, <2>5 DEF Moves
<1> QED BY <1>5, <1>6, <1>7

\* A step that changes only where dispatch t is.
OnlyPlace(t, p) ==
  /\ pc' = [pc EXCEPT ![t] = p]
  /\ UNCHANGED <<inv, pos, upto, outcome, trace, ran>>

LEMMA PlaceFacts ==
  ASSUME LocalTypes, NEW t \in Tasks, Control(t), NEW p \in PCs, OnlyPlace(t, p),
         \/ pc[t] = "before" /\ p = "count" /\ Kind[Hook(t)] = "budget"
         \/ pc[t] = "after" /\ p = "after_give" /\ Kind[Hook(t)] = "budget"
         \/ pc[t] = "cleanup" /\ p = "cleanup_give" /\ Kind[Hook(t)] = "budget"
         \/ pc[t] # "ok" /\ p \in {"err", "cancelled"}
  PROVE  Moves(t) /\ pc'[t] = p /\ UNCHANGED <<inv[t], pos[t], upto[t], trace[t]>>
<1>1. LocalTypes'
  BY DEF OnlyPlace, LocalTypes
<1>2. pc'[t] = p /\ UNCHANGED <<inv[t], pos[t], upto[t], outcome[t], trace[t], Hook(t)>>
  BY DEF OnlyPlace, LocalTypes, Hook
<1>3. Control(t)'
  BY <1>2 DEF Control, InLoop
<1>4. \A s \in Tasks \ {t} : StandsStill(s)
  BY DEF OnlyPlace, LocalTypes, StandsStill
<1> QED BY <1>1, <1>2, <1>3, <1>4 DEF Moves

\* The dispatches that stand still stay where they are.
LEMMA OthersControl ==
  ASSUME NEW s \in Tasks, StandsStill(s), Control(s)
  PROVE  Control(s)'
BY DEF StandsStill, Control, InLoop, Hook

----------------------------------------------------------------------------
(* The trace of a dispatch: its past invocations are over, the one at hand *)
(* is as far as the dispatch is.                                           *)

EventsUpTo(tr, i) == \A x \in DOMAIN tr : tr[x].inv <= i

Past(tr, i, n) == \A j \in 1 .. i - 1 : Over(tr, j, n)

Present(t, tr, i, n) ==
  /\ pc[t] = "ok" => EventsUpTo(tr, i - 1)
  /\ pc[t] \in {"before", "count"} => InFront(tr, i, n, pos[t])
  /\ pc[t] = "tool" => InFront(tr, i, n, n + 1)
  /\ InLoop(t) => InMiddle(tr, i, n, pos[t], upto[t])
  /\ pc[t] = "err" => Over(tr, i, n) \/ ("callback" \in MayFail /\ OutcomesOf(tr, i) = {})
  /\ pc[t] = "cancelled" => OutcomesOf(tr, i) = {}

Traced(t) ==
  /\ EventsUpTo(trace[t], inv[t])
  /\ Past(trace[t], inv[t], Len(HooksOf[t]))
  /\ Present(t, trace[t], inv[t], Len(HooksOf[t]))

LEMMA GrowEvents ==
  ASSUME NEW tr \in Seq(Events), NEW e \in Events, NEW i \in Nat, e.inv = i, EventsUpTo(tr, i)
  PROVE  EventsUpTo(Grow(tr, e), i)
<1>1. /\ DOMAIN tr = 1 .. Len(tr) /\ Len(tr) \in Nat
      /\ DOMAIN Grow(tr, e) = 1 .. Len(tr) + 1
      /\ \A x \in 1 .. Len(tr) : Grow(tr, e)[x] = tr[x]
      /\ Grow(tr, e)[Len(tr) + 1] = e
  BY DEF Grow
<1> SUFFICES ASSUME NEW x \in DOMAIN Grow(tr, e) PROVE Grow(tr, e)[x].inv <= i
  BY DEF EventsUpTo
<1>2. CASE x = Len(tr) + 1
  BY <1>1, <1>2
<1>3. CASE x \in 1 .. Len(tr)
  BY <1>1, <1>3 DEF EventsUpTo
<1> QED BY <1>1, <1>2, <1>3

LEMMA PastStays ==
  ASSUME NEW tr \in Seq(Events), NEW e \in Events, NEW i \in Nat, e.inv = i, NEW n \in Nat,
         Past(tr, i, n)
  PROVE  Past(Grow(tr, e), i, n)
<1>1. ASSUME NEW j \in 1 .. i - 1 PROVE Over(Grow(tr, e), j, n)
  <2>1. e.inv # j /\ Over(tr, j, n)
    BY DEF Past
  <2> QED BY <2>1, OtherInvocation
<1> QED BY <1>1 DEF Past

\* The events of an invocation not begun yet.
LEMMA Fresh ==
  ASSUME NEW tr \in Seq(Events), NEW i \in Nat, EventsUpTo(tr, i), NEW n \in Nat
  PROVE  InFront(tr, i + 1, n, 1)
<1>1. ASSUME NEW x \in DOMAIN tr PROVE tr[x].inv # i + 1
  <2>1. x \in 1 .. Len(tr)
    OBVIOUS
  <2>2. tr[x] \in Events
    BY <2>1, ElementOfSeq
  <2>3. tr[x].inv \in Nat /\ tr[x].inv <= i
    BY <2>2 DEF Events, EventsUpTo
  <2> QED BY <2>3
<1> QED BY <1>1, FrontOfFresh

LEMMA EndsTraced ==
  ASSUME LocalTypes, NEW t \in Tasks, NEW tr \in Seq(Events), NEW m \in 0 .. Len(HooksOf[t]),
         EventsUpTo(tr, inv[t]), Past(tr, inv[t], Len(HooksOf[t])),
         InMiddle(tr, inv[t], Len(HooksOf[t]), m + 1, m), Ends(t, tr)
  PROVE  Traced(t)'
<1> DEFINE n == Len(HooksOf[t])
           i == inv[t]
<1>1. n \in Nat /\ i \in Nat \ {0}
  BY LineUps DEF LocalTypes
<1>2. PICK e \in Events : /\ e.kind = "InvocationOutcome" /\ e.inv = i /\ e.hook = 0
                          /\ trace'[t] = Grow(tr, e)
  BY DEF Ends
<1> DEFINE now == Grow(tr, e)
<1>3. now \in Seq(Events)
  BY GrowType
<1>4. EventsUpTo(now, i)
  BY <1>1, <1>2, GrowEvents
<1>5. Past(now, i, n)
  BY <1>1, <1>2, PastStays
<1>6. Over(now, i, n)
  BY <1>1, <1>2, MiddleIsOver
<1>7. InFront(now, i + 1, n, 1)
  BY <1>1, <1>3, <1>4, Fresh
<1>8. trace'[t] = now
  BY <1>2
<1> HIDE DEF now
<1>9. CASE /\ inv'[t] = i + 1 /\ pos'[t] = 1
           /\ pc'[t] = "ok" \/ pc'[t] = "before" \/ (pc'[t] = "tool" /\ n = 0)
  <2>1. EventsUpTo(now, i + 1)
    <3>1. ASSUME NEW x \in DOMAIN now PROVE now[x].inv \in Nat
      <4>1. x \in 1 .. Len(now)
        BY <1>3
      <4>2. now[x] \in Events
        BY <1>3, <4>1, ElementOfSeq
      <4> QED BY <4>2 DEF Events
    <3> QED BY <1>1, <1>4, <3>1 DEF EventsUpTo
  <2>2. Past(now, i + 1, n)
    BY <1>1, <1>5, <1>6 DEF Past
  <2>3. inv'[t] - 1 = i /\ (pc'[t] = "tool" => pos'[t] = n + 1)
    BY <1>1, <1>9
  <2>4. EventsUpTo(trace'[t], inv'[t]) /\ Past(trace'[t], inv'[t], n)
    BY <1>8, <1>9, <2>1, <2>2
  <2>5. EventsUpTo(trace'[t], inv'[t] - 1)
    BY <1>4, <1>8, <2>3
  <2>6. InFront(trace'[t], inv'[t], n, pos'[t])
    BY <1>7, <1>8, <1>9
  <2> QED BY <1>9, <2>3, <2>4, <2>5, <2>6 DEF Traced, Present, InLoop
<1>10. CASE inv'[t] = i /\ pc'[t] = "err"
  <2>1. Present(t, now, i, n)'
    BY <1>6, <1>10 DEF Present, InLoop
  <2> QED BY <1>4, <1>5, <1>8, <1>10, <2>1 DEF Traced, Present, InLoop
<1> QED BY <1>9, <1>10 DEF Ends

LEMMA CallsBackTraced ==
  ASSUME LocalTypes, NEW t \in Tasks, NEW tr, NEW p, NEW m,
         EventsUpTo(tr, inv[t]), Past(tr, inv[t], Len(HooksOf[t])),
         InMiddle(tr, inv[t], Len(HooksOf[t]), p, m), CallsBack(t, tr, p, m)
  PROVE  Traced(t)'
<1>1. /\ pc'[t] \in {"after", "cleanup"} /\ pos'[t] = p /\ upto'[t] = m
      /\ inv'[t] = inv[t] /\ trace'[t] = tr
  BY DEF CallsBack
<1>2. EventsUpTo(trace'[t], inv'[t]) /\ Past(trace'[t], inv'[t], Len(HooksOf[t]))
  BY <1>1
<1>3. InMiddle(trace'[t], inv'[t], Len(HooksOf[t]), pos'[t], upto'[t])
  BY <1>1
<1> QED BY <1>1, <1>2, <1>3 DEF Traced, Present, InLoop

\* The callbacks begin, or there are none.
LEMMA EntersTraced ==
  ASSUME LocalTypes, NEW t \in Tasks, NEW tr \in Seq(Events), NEW m \in 0 .. Len(HooksOf[t]),
         EventsUpTo(tr, inv[t]), Past(tr, inv[t], Len(HooksOf[t])),
         InMiddle(tr, inv[t], Len(HooksOf[t]), 1, m), Enters(t, tr, m)
  PROVE  Traced(t)'
<1>1. CASE m = 0
  <2>1. m + 1 = 1 /\ Ends(t, tr)
    BY <1>1 DEF Enters
  <2> QED BY <2>1, EndsTraced
<1>2. CASE m # 0
  BY <1>2, CallsBackTraced DEF Enters
<1> QED BY <1>1, <1>2

\* A decision was recorded.
LEMMA DecideTraced ==
  ASSUME LocalTypes, NEW t \in Tasks, Control(t), Traced(t), pc[t] \in {"before", "count"},
         NEW d \in {"Continue", "Skip", "Terminate"}, Decide(t, d)
  PROVE  Traced(t)'
<1> DEFINE n == Len(HooksOf[t])
<1>1. n \in Nat /\ inv[t] \in Nat \ {0} /\ pos[t] \in 1 .. n /\ trace[t] \in Seq(Events)
  BY LineUps DEF LocalTypes, Control
<1>2. PICK e \in Events :
        /\ e.kind = "HookBefore" /\ e.inv = inv[t] /\ e.hook = pos[t]
        /\ \/ GoesOn(t, Grow(trace[t], e))
           \/ StartsTool(t, Grow(trace[t], e))
           \/ CallsBack(t, Grow(trace[t], e), 1, n)
  BY DecideFacts
<1> DEFINE now == Grow(trace[t], e)
<1>3. InFront(now, inv[t], n, pos[t] + 1)
  <2>1. InFront(trace[t], inv[t], n, pos[t])
    BY DEF Traced, Present
  <2> QED BY <1>1, <1>2, <2>1, FrontGoesOn
<1>4. EventsUpTo(now, inv[t]) /\ Past(now, inv[t], n)
  BY <1>1, <1>2, GrowEvents, PastStays DEF Traced
<1>5. CASE GoesOn(t, now)
  BY <1>3, <1>4, <1>5 DEF GoesOn, Traced, Present, InLoop
<1>6. CASE StartsTool(t, now)
  BY <1>3, <1>4, <1>6 DEF StartsTool, Traced, Present, InLoop
<1>7. CASE CallsBack(t, now, 1, n)
  <2>1. InMiddle(now, inv[t], n, 1, n)
    BY <1>1, <1>3, FrontIsDone
  <2> QED BY <1>4, <1>7, <2>1, CallsBackTraced
<1> QED BY <1>2, <1>5, <1>6, <1>7

\* A callback was made.
LEMMA CallbackTraced ==
  ASSUME LocalTypes, NEW t \in Tasks, Control(t), Traced(t), InLoop(t),
         NEW phase \in {"after", "cleanup"}, GoodEnd(phase, outcome[t]), CallbackDone(t, phase)
  PROVE  Traced(t)'
<1> DEFINE n == Len(HooksOf[t])
<1>1. /\ n \in Nat /\ inv[t] \in Nat \ {0} /\ trace[t] \in Seq(Events)
      /\ upto[t] \in 1 .. n /\ pos[t] \in 1 .. upto[t]
  BY LineUps DEF LocalTypes, Control
<1>2. PICK e \in Events :
        /\ e.kind \in {"HookAfter", "HookCleanup"} /\ e.inv = inv[t] /\ e.hook = pos[t]
        /\ IF pos[t] = upto[t] THEN Ends(t, Grow(trace[t], e))
           ELSE CallsBack(t, Grow(trace[t], e), pos[t] + 1, upto[t])
  BY CallbackFacts
<1> DEFINE now == Grow(trace[t], e)
<1>3. InMiddle(now, inv[t], n, pos[t] + 1, upto[t])
  <2>1. InMiddle(trace[t], inv[t], n, pos[t], upto[t])
    BY DEF Traced, Present
  <2> QED BY <1>1, <1>2, <2>1, MiddleGoesOn
<1>4. EventsUpTo(now, inv[t]) /\ Past(now, inv[t], n)
  BY <1>1, <1>2, GrowEvents, PastStays DEF Traced
<1>5. now \in Seq(Events)
  BY <1>1, GrowType
<1>6. CASE pos[t] = upto[t]
  <2>1. upto[t] \in 0 .. n /\ InMiddle(now, inv[t], n, upto[t] + 1, upto[t])
    BY <1>1, <1>3, <1>6
  <2> QED BY <1>2, <1>4, <1>5, <1>6, <2>1, EndsTraced
<1>7. CASE pos[t] # upto[t]
  BY <1>2, <1>3, <1>4, <1>7, CallsBackTraced
<1> QED BY <1>6, <1>7

LEMMA PlaceTraced ==
  ASSUME LocalTypes, NEW t \in Tasks, Control(t), Traced(t), UNCHANGED <<inv[t], pos[t], upto[t], trace[t]>>,
         \/ pc[t] = "before" /\ pc'[t] = "count"
         \/ pc[t] = "after" /\ pc'[t] = "after_give"
         \/ pc[t] = "cleanup" /\ pc'[t] = "cleanup_give"
         \/ InLoop(t) /\ pc'[t] = "err" /\ "callback" \in MayFail
         \/ pc[t] \in {"before", "tool", "after", "cleanup"} /\ pc'[t] = "cancelled"
  PROVE  Traced(t)'
BY DEF Traced, Present, InLoop, InFront, InMiddle

LEMMA OthersTraced ==
  ASSUME NEW s \in Tasks, StandsStill(s), Traced(s)
  PROVE  Traced(s)'
BY DEF StandsStill, Traced, Present, InLoop

----------------------------------------------------------------------------
(* The steps of a dispatch, by what they do to its place.                  *)

DecideStep(t) ==
  \E d \in {"Continue", "Skip", "Terminate"} : pc[t] \in {"before", "count"} /\ Decide(t, d)

CallbackStep(t) ==
  /\ InLoop(t)
  /\ \E phase \in {"after", "cleanup"} : GoodEnd(phase, outcome[t]) /\ CallbackDone(t, phase)

PlaceStep(t) ==
  \E p \in PCs :
    /\ OnlyPlace(t, p)
    /\ \/ pc[t] = "before" /\ p = "count" /\ Kind[Hook(t)] = "budget"
       \/ pc[t] = "after" /\ p = "after_give" /\ Kind[Hook(t)] = "budget"
       \/ pc[t] = "cleanup" /\ p = "cleanup_give" /\ Kind[Hook(t)] = "budget"
       \/ InLoop(t) /\ p = "err" /\ "callback" \in MayFail
       \/ pc[t] \in {"before", "tool", "after", "cleanup"} /\ p = "cancelled"

LEMMA DecideSteps ==
  ASSUME NEW t \in Tasks,
         \/ BudgetCount(t) \/ BudgetDeny(t) \/ StuckCount(t)
         \/ \E d \in Decisions : PolicyDecide(t, d)
  PROVE  DecideStep(t)
<1>1. CASE BudgetCount(t)
  BY <1>1 DEF BudgetCount, DecideStep
<1>2. CASE BudgetDeny(t)
  BY <1>2 DEF BudgetDeny, DecideStep
<1>3. CASE StuckCount(t)
  <2>1. StuckDecision(counts[Hook(t)][Call(t)] + 1) \in {"Continue", "Skip", "Terminate"}
    BY DEF StuckDecision
  <2> QED BY <1>3, <2>1 DEF StuckCount, DecideStep
<1>4. CASE \E d \in Decisions : PolicyDecide(t, d)
  BY <1>4, HostAssumption DEF PolicyDecide, DecideStep
<1> QED BY <1>1, <1>2, <1>3, <1>4

LEMMA CallbackSteps ==
  ASSUME NEW t \in Tasks, Control(t), ReleaseNone(t) \/ ReleaseGive(t) \/ PlainCallback(t)
  PROVE  CallbackStep(t)
<1>1. CASE ReleaseNone(t) \/ PlainCallback(t)
  <2>1. pc[t] \in {"after", "cleanup"} /\ CallbackDone(t, pc[t])
    BY <1>1 DEF ReleaseNone, PlainCallback, InCallbacks
  <2>2. InLoop(t) /\ GoodEnd(pc[t], outcome[t])
    BY <2>1 DEF Control, InLoop, GoodEnd
  <2> QED BY <2>1, <2>2 DEF CallbackStep
<1>2. CASE ReleaseGive(t)
  <2> DEFINE phase == IF pc[t] = "after_give" THEN "after" ELSE "cleanup"
  <2>1. pc[t] \in {"after_give", "cleanup_give"} /\ CallbackDone(t, phase)
    BY <1>2 DEF ReleaseGive
  <2>2. InLoop(t) /\ GoodEnd(phase, outcome[t]) /\ phase \in {"after", "cleanup"}
    BY <2>1 DEF Control, InLoop, GoodEnd
  <2> HIDE DEF phase
  <2> QED BY <2>1, <2>2 DEF CallbackStep
<1> QED BY <1>1, <1>2

LEMMA PlaceSteps ==
  ASSUME LocalTypes, NEW t \in Tasks,
         BudgetGrant(t) \/ ReleaseTake(t) \/ CallbackFail(t) \/ Cancel(t)
  PROVE  PlaceStep(t)
<1>1. CASE BudgetGrant(t)
  BY <1>1 DEF BudgetGrant, PlaceStep, OnlyPlace, PCs
<1>2. CASE ReleaseTake(t)
  <2>1. CASE pc[t] = "after"
    <3>1. OnlyPlace(t, "after_give") /\ Kind[Hook(t)] = "budget"
      BY <1>2, <2>1 DEF ReleaseTake, OnlyPlace, LocalTypes
    <3> QED BY <2>1, <3>1 DEF PlaceStep, PCs
  <2>2. CASE pc[t] = "cleanup"
    <3>1. OnlyPlace(t, "cleanup_give") /\ Kind[Hook(t)] = "budget"
      BY <1>2, <2>2 DEF ReleaseTake, OnlyPlace, LocalTypes
    <3> QED BY <2>2, <3>1 DEF PlaceStep, PCs
  <2> QED BY <1>2, <2>1, <2>2 DEF ReleaseTake, InCallbacks
<1>3. CASE CallbackFail(t)
  <2>1. OnlyPlace(t, "err") /\ InLoop(t) /\ "callback" \in MayFail
    BY <1>3 DEF CallbackFail, InCallbacks, InLoop, OnlyPlace
  <2> QED BY <2>1 DEF PlaceStep, PCs
<1>4. CASE Cancel(t)
  <2>1. OnlyPlace(t, "cancelled") /\ pc[t] \in {"before", "tool", "after", "cleanup"}
    BY <1>4 DEF Cancel, InCallbacks, OnlyPlace
  <2> QED BY <2>1 DEF PlaceStep, PCs
<1> QED BY <1>1, <1>2, <1>3, <1>4

\* The body has run: every hook is called back.
ToolStep(t) == pc[t] = "tool" /\ Enters(t, trace[t], Len(HooksOf[t])) /\ UNCHANGED ran

LEMMA ToolSteps ==
  ASSUME LocalTypes, NEW t \in Tasks, Control(t), ToolOk(t) \/ ToolFail(t)
  PROVE  Moves(t) /\ ToolStep(t)
<1> DEFINE n == Len(HooksOf[t])
<1>1. /\ pc[t] = "tool" /\ UNCHANGED ran
      /\ \/ StartCallbacks(t, "after", n, trace[t], "Completed", "tool_output")
         \/ StartCallbacks(t, "cleanup", n, trace[t], "Failed", "tool_error")
  BY DEF ToolOk, ToolFail
<1>2. trace[t] \in Seq(Events) /\ inv[t] <= Len(Calls[t]) /\ n \in 0 .. Len(HooksOf[t])
  BY <1>1, LineUps DEF LocalTypes, Control
<1>3. GoodEnd("after", "Completed") /\ GoodEnd("cleanup", "Failed")
  BY DEF GoodEnd
<1> QED BY <1>1, <1>2, <1>3, StartFacts DEF ToolStep

\* A before_invocation has failed: the hooks in front of it are called back.
FailStep(t) ==
  /\ pc[t] = "before" /\ UNCHANGED ran
  /\ \E e \in Events : /\ e.kind = "HookBeforeError" /\ e.inv = inv[t] /\ e.hook = pos[t]
                       /\ Enters(t, Grow(trace[t], e), pos[t] - 1)

LEMMA FailSteps ==
  ASSUME LocalTypes, NEW t \in Tasks, Control(t), BeforeFail(t)
  PROVE  Moves(t) /\ FailStep(t)
<1> DEFINE e == Event("HookBeforeError", inv[t], pos[t], "error")
<1>1. e \in Events /\ e.kind = "HookBeforeError" /\ e.inv = inv[t] /\ e.hook = pos[t]
  <2>1. /\ inv[t] \in Nat /\ pos[t] \in Nat /\ "error" \in Whats /\ "HookBeforeError" \in Kinds
    BY DEF LocalTypes, Whats, Kinds
  <2> QED BY <2>1, EventType
<1>2. /\ pc[t] = "before" /\ UNCHANGED ran
      /\ StartCallbacks(t, "cleanup", pos[t] - 1, Grow(trace[t], e), "Failed", "hook_error")
  BY DEF BeforeFail, Observed, Grow
<1> HIDE DEF e
<1>3. Grow(trace[t], e) \in Seq(Events)
  BY <1>1, GrowType DEF LocalTypes
<1>4. inv[t] <= Len(Calls[t]) /\ pos[t] - 1 \in 0 .. Len(HooksOf[t])
  BY <1>2, LineUps DEF LocalTypes, Control
<1>5. GoodEnd("cleanup", "Failed")
  BY DEF GoodEnd
<1>6. Moves(t) /\ Enters(t, Grow(trace[t], e), pos[t] - 1)
  BY <1>2, <1>3, <1>4, <1>5, StartFacts
<1> QED BY <1>1, <1>2, <1>6 DEF FailStep

LEMMA DecideStepMoves ==
  ASSUME LocalTypes, NEW t \in Tasks, Control(t), Traced(t), DecideStep(t)
  PROVE  Moves(t) /\ Traced(t)'
BY DecideFacts, DecideTraced DEF DecideStep

LEMMA CallbackStepMoves ==
  ASSUME LocalTypes, NEW t \in Tasks, Control(t), Traced(t), CallbackStep(t)
  PROVE  Moves(t) /\ Traced(t)'
BY CallbackFacts, CallbackTraced DEF CallbackStep

LEMMA PlaceStepMoves ==
  ASSUME LocalTypes, NEW t \in Tasks, Control(t), Traced(t), PlaceStep(t)
  PROVE  Moves(t) /\ Traced(t)'
<1>1. PICK p \in PCs :
        /\ OnlyPlace(t, p)
        /\ \/ pc[t] = "before" /\ p = "count" /\ Kind[Hook(t)] = "budget"
           \/ pc[t] = "after" /\ p = "after_give" /\ Kind[Hook(t)] = "budget"
           \/ pc[t] = "cleanup" /\ p = "cleanup_give" /\ Kind[Hook(t)] = "budget"
           \/ InLoop(t) /\ p = "err" /\ "callback" \in MayFail
           \/ pc[t] \in {"before", "tool", "after", "cleanup"} /\ p = "cancelled"
  BY DEF PlaceStep
<1>2. Moves(t) /\ pc'[t] = p /\ UNCHANGED <<inv[t], pos[t], upto[t], trace[t]>>
  BY <1>1, PlaceFacts DEF InLoop
<1> QED BY <1>1, <1>2, PlaceTraced

LEMMA ToolStepMoves ==
  ASSUME LocalTypes, NEW t \in Tasks, Control(t), Traced(t), Moves(t), ToolStep(t)
  PROVE  Traced(t)'
<1> DEFINE n == Len(HooksOf[t])
<1>1. n \in Nat /\ n \in 0 .. n /\ n + 1 \in Nat /\ trace[t] \in Seq(Events)
  BY LineUps DEF LocalTypes
<1>2. InFront(trace[t], inv[t], n, n + 1) /\ EventsUpTo(trace[t], inv[t]) /\ Past(trace[t], inv[t], n)
  BY DEF ToolStep, Traced, Present
<1>3. InMiddle(trace[t], inv[t], n, 1, n)
  BY <1>1, <1>2, FrontIsDone
<1> QED BY <1>1, <1>2, <1>3, EntersTraced DEF ToolStep

LEMMA FailStepMoves ==
  ASSUME LocalTypes, NEW t \in Tasks, Control(t), Traced(t), Moves(t), FailStep(t)
  PROVE  Traced(t)'
<1> DEFINE n == Len(HooksOf[t])
<1>1. /\ n \in Nat /\ trace[t] \in Seq(Events) /\ inv[t] \in Nat
      /\ pos[t] \in 1 .. n /\ pos[t] - 1 \in 0 .. n
  BY LineUps DEF LocalTypes, Control, FailStep
<1>2. PICK e \in Events : /\ e.kind = "HookBeforeError" /\ e.inv = inv[t] /\ e.hook = pos[t]
                          /\ Enters(t, Grow(trace[t], e), pos[t] - 1)
  BY DEF FailStep
<1>3. InMiddle(Grow(trace[t], e), inv[t], n, 1, pos[t] - 1)
  <2>1. InFront(trace[t], inv[t], n, pos[t])
    BY DEF FailStep, Traced, Present
  <2> QED BY <1>1, <1>2, <2>1, FrontHasFailed
<1>4. EventsUpTo(Grow(trace[t], e), inv[t]) /\ Past(Grow(trace[t], e), inv[t], n)
  BY <1>1, <1>2, GrowEvents, PastStays DEF Traced
<1>5. Grow(trace[t], e) \in Seq(Events)
  BY <1>1, GrowType
<1> QED BY <1>1, <1>2, <1>3, <1>4, <1>5, EntersTraced

ControlInv == LocalTypes /\ \A t \in Tasks : Control(t) /\ Traced(t)

LEMMA StepMoves ==
  ASSUME ControlInv, NEW t \in Tasks, Run(t) \/ Cancel(t)
  PROVE  /\ Moves(t) /\ Traced(t)'
         /\ \/ DecideStep(t) \/ CallbackStep(t) \/ PlaceStep(t) \/ ToolStep(t) \/ FailStep(t)
<1>1. LocalTypes /\ Control(t) /\ Traced(t)
  BY DEF ControlInv
<1>2. CASE \/ BudgetCount(t) \/ BudgetDeny(t) \/ StuckCount(t)
           \/ \E d \in Decisions : PolicyDecide(t, d)
  BY <1>1, <1>2, DecideSteps, DecideStepMoves
<1>3. CASE ReleaseNone(t) \/ ReleaseGive(t) \/ PlainCallback(t)
  BY <1>1, <1>3, CallbackSteps, CallbackStepMoves
<1>4. CASE BudgetGrant(t) \/ ReleaseTake(t) \/ CallbackFail(t) \/ Cancel(t)
  BY <1>1, <1>4, PlaceSteps, PlaceStepMoves
<1>5. CASE ToolOk(t) \/ ToolFail(t)
  BY <1>1, <1>5, ToolSteps, ToolStepMoves
<1>6. CASE BeforeFail(t)
  BY <1>1, <1>6, FailSteps, FailStepMoves
<1> QED BY <1>2, <1>3, <1>4, <1>5, <1>6 DEF Run

LEMMA InitControl == Init => ControlInv
<1> SUFFICES ASSUME Init PROVE ControlInv
  OBVIOUS
<1>1. \A t \in Tasks : EntryOf(t, 1) \in {"ok", "before", "tool"}
  BY EntryFacts
<1>2. LocalTypes
  <2>1. pc \in [Tasks -> PCs]
    BY <1>1 DEF Init, PCs
  <2>2. << >> \in Seq(Events)
    OBVIOUS
  <2> QED BY <2>1, <2>2 DEF Init, LocalTypes
<1>3. ASSUME NEW t \in Tasks PROVE Control(t) /\ Traced(t)
  <2> DEFINE n == Len(HooksOf[t])
  <2>1. /\ pc[t] = EntryOf(t, 1) /\ inv[t] = 1 /\ pos[t] = 1 /\ trace[t] = << >>
        /\ n \in Nat /\ Len(Calls[t]) \in Nat
    BY LineUps DEF Init
  <2>2. /\ pc[t] = "ok" <=> 1 > Len(Calls[t])
        /\ pc[t] \in {"ok", "before", "tool"}
        /\ pc[t] = "tool" => n = 0
        /\ pc[t] = "before" => n >= 1
    BY <2>1, EntryFacts
  <2>3. Control(t)
    BY <2>1, <2>2 DEF Control, InLoop
  <2>4. trace[t] \in Seq(Events) /\ EventsUpTo(trace[t], 0) /\ EventsUpTo(trace[t], 1)
    BY <2>1 DEF EventsUpTo
  <2>5. InFront(trace[t], 0 + 1, n, 1)
    BY <2>1, <2>4, Fresh
  <2>6. Past(trace[t], 1, n)
    BY DEF Past
  <2>7. Present(t, trace[t], 1, n)
    BY <2>1, <2>2, <2>4, <2>5 DEF Present, InLoop
  <2> QED BY <2>1, <2>3, <2>4, <2>6, <2>7 DEF Traced
<1> QED BY <1>2, <1>3 DEF ControlInv

LEMMA NextControl == ControlInv /\ [Next]_vars => ControlInv'
<1> SUFFICES ASSUME ControlInv, [Next]_vars PROVE ControlInv'
  OBVIOUS
<1>1. ASSUME NEW t \in Tasks, Run(t) \/ Cancel(t) PROVE ControlInv'
  <2>1. Moves(t) /\ Traced(t)'
    BY <1>1, StepMoves
  <2>2. ASSUME NEW s \in Tasks \ {t} PROVE Control(s)' /\ Traced(s)'
    <3>1. StandsStill(s) /\ Control(s) /\ Traced(s)
      BY <2>1 DEF Moves, ControlInv
    <3> QED BY <3>1, OthersControl, OthersTraced
  <2> QED BY <2>1, <2>2 DEF Moves, ControlInv
<1>2. CASE UNCHANGED vars
  <2>1. \A s \in Tasks : StandsStill(s)
    BY <1>2 DEF vars, StandsStill
  <2>2. \A s \in Tasks : Control(s)' /\ Traced(s)'
    BY <2>1, OthersControl, OthersTraced DEF ControlInv
  <2> QED BY <1>2, <2>2 DEF vars, ControlInv, LocalTypes
<1> QED BY <1>1, <1>2 DEF Next

LEMMA ControlInvariance == Spec => []ControlInv
BY InitControl, NextControl, PTL DEF Spec

----------------------------------------------------------------------------
(* What a trace says                                                       *)

LEMMA TraceIndices ==
  ASSUME NEW t, NEW kinds, NEW i, NEW k
  PROVE  Indices(t, kinds, i, k) = IndicesIn(trace[t], kinds, i, k)
BY DEF Indices, IndicesIn

LEMMA OutcomeMeansOver ==
  ASSUME ControlInv, NEW t \in Tasks, NEW i \in 1 .. Len(Calls[t]), HasOutcome(t, i)
  PROVE  Over(trace[t], i, Len(HooksOf[t]))
<1>1. OutcomesOf(trace[t], i) # {}
  BY TraceIndices DEF HasOutcome, OutcomesOf
<1>2. /\ inv[t] \in Nat /\ i \in Nat /\ Traced(t) /\ Control(t) /\ pc[t] \in PCs
      /\ Len(Calls[t]) \in Nat
  BY LineUps DEF ControlInv, LocalTypes
<1>3. i <= inv[t]
  <2>1. PICK x \in DOMAIN trace[t] : trace[t][x].inv = i
    BY <1>1 DEF OutcomesOf, IndicesIn
  <2> QED BY <1>2, <2>1 DEF Traced, EventsUpTo
<1>4. CASE i < inv[t]
  BY <1>2, <1>4 DEF Traced, Past
<1>5. CASE i = inv[t]
  BY <1>1, <1>2, <1>5 DEF Control, Traced, Present, PCs, InLoop, InFront, InMiddle
<1> QED BY <1>2, <1>3, <1>4, <1>5

\* Whatever hooks decide, tools return and the host cancels: an invocation with
\* an outcome has called back, once and afterwards, each hook that observed it;
\* after a failed before_invocation exactly those.
THEOREM EachObserverCalledBack == Spec => []CallbacksPaired
<1>1. ControlInv => CallbacksPaired
  <2> SUFFICES ASSUME ControlInv, NEW t \in Tasks, NEW i \in 1 .. Len(Calls[t]), HasOutcome(t, i),
                      NEW k \in DOMAIN HooksOf[t]
               PROVE  LET back == Indices(t, {"HookAfter", "HookCleanup"}, i, k)
                          observed == Indices(t, {"HookBefore"}, i, k)
                      IN  /\ observed # {} => Cardinality(back) = 1
                          /\ \A b \in observed, n \in back : b < n
                          /\ observed = {} /\ back # {} =>
                               \A j \in DOMAIN HooksOf[t] : Indices(t, {"HookBeforeError"}, i, j) = {}
    BY DEF CallbacksPaired
  <2> DEFINE back == Back(trace[t], i, k)
             observed == Seen(trace[t], i, k)
  <2>1. /\ Indices(t, {"HookAfter", "HookCleanup"}, i, k) = back
        /\ Indices(t, {"HookBefore"}, i, k) = observed
        /\ \A j : Indices(t, {"HookBeforeError"}, i, j) = Failure(trace[t], i, j)
    BY TraceIndices DEF Back, Seen, Failure
  <2>2. Over(trace[t], i, Len(HooksOf[t])) /\ DOMAIN HooksOf[t] = 1 .. Len(HooksOf[t])
    BY OutcomeMeansOver, LineUps
  <2>3. CASE observed # {}
    <3>1. CalledBack(trace[t], i, k)
      BY <2>2, <2>3 DEF Over
    <3>2. PICK x \in Nat : back = {x} /\ \A y \in observed : y < x
      BY <3>1 DEF CalledBack
    <3>3. Cardinality(back) = 1
      BY <3>2, FS_Singleton
    <3> QED BY <2>1, <2>3, <3>2, <3>3
  <2>4. CASE observed = {}
    <3>1. back # {} => NoFailure(trace[t], i, Len(HooksOf[t]))
      BY <2>2, <2>4 DEF Over
    <3> QED BY <2>1, <2>2, <2>4, <3>1 DEF NoFailure
  <2> QED BY <2>3, <2>4
<1> QED BY <1>1, ControlInvariance, PTL

\* What goes with an invocation: an output or an error.
Spoken == {"none", "tool_output", "hook_output", "hook_error", "tool_error", "terminated",
           "callback_error"}

ToldTypes ==
  /\ results \in [Tasks -> Seq([call : Fingerprints, output : Spoken])]
  /\ value \in [Tasks -> Spoken]

\* What the host gets: the outputs, and the error that came instead of the next.
Gotten(t) ==
  IF pc[t] = "err" THEN Append(results[t], [call |-> "none", output |-> value[t]]) ELSE results[t]

\* The outcome events of tr go with the entries of got.
Tells(tr, got) ==
  \A x \in DOMAIN tr : tr[x].kind = "InvocationOutcome" =>
    tr[x].inv \in 1 .. Len(got) /\ tr[x].what = OutcomeOf(got[tr[x].inv].output)

Told(t) ==
  /\ Len(results[t]) = inv[t] - 1
  /\ \A i \in 1 .. Len(results[t]) : results[t][i].call = Calls[t][i]
  /\ Tells(trace[t], Gotten(t))
  /\ InLoop(t) => outcome[t] = OutcomeOf(value[t])
  /\ pc[t] = "err" /\ value[t] # "callback_error" => OutcomesOf(trace[t], inv[t]) # {}

SameWord(s) == results'[s] = results[s] /\ value'[s] = value[s]

ToldMoves(t) == ToldTypes' /\ Told(t)' /\ \A s \in Tasks \ {t} : SameWord(s)

LEMMA TellsGrow ==
  ASSUME NEW tr \in Seq(Events), NEW e \in Events, NEW got, Tells(tr, got),
         e.kind = "InvocationOutcome" => /\ e.inv \in 1 .. Len(got)
                                         /\ e.what = OutcomeOf(got[e.inv].output)
  PROVE  Tells(Grow(tr, e), got)
<1>1. /\ DOMAIN tr = 1 .. Len(tr) /\ Len(tr) \in Nat
      /\ DOMAIN Grow(tr, e) = 1 .. Len(tr) + 1
      /\ \A x \in 1 .. Len(tr) : Grow(tr, e)[x] = tr[x]
      /\ Grow(tr, e)[Len(tr) + 1] = e
  BY DEF Grow
<1> SUFFICES ASSUME NEW x \in DOMAIN Grow(tr, e), Grow(tr, e)[x].kind = "InvocationOutcome"
             PROVE  /\ Grow(tr, e)[x].inv \in 1 .. Len(got)
                    /\ Grow(tr, e)[x].what = OutcomeOf(got[Grow(tr, e)[x].inv].output)
  BY DEF Tells
<1>2. CASE x = Len(tr) + 1
  BY <1>1, <1>2
<1>3. CASE x \in 1 .. Len(tr)
  BY <1>1, <1>3 DEF Tells
<1> QED BY <1>1, <1>2, <1>3

LEMMA TellsMore ==
  ASSUME NEW tr, NEW S, NEW got \in Seq(S), NEW a, Tells(tr, got)
  PROVE  Tells(tr, Append(got, a))
<1>1. /\ Len(Append(got, a)) = Len(got) + 1 /\ Len(got) \in Nat
      /\ \A i \in 1 .. Len(got) : Append(got, a)[i] = got[i]
  OBVIOUS
<1> QED BY <1>1 DEF Tells

\* The end of an invocation: with its outcome event comes what goes with it.
LEMMA FinishTold ==
  ASSUME LocalTypes, ToldTypes, NEW t \in Tasks, inv[t] \in 1 .. Len(Calls[t]),
         Len(results[t]) = inv[t] - 1,
         \A i \in 1 .. Len(results[t]) : results[t][i].call = Calls[t][i],
         NEW tr \in Seq(Events), Tells(tr, results[t]),
         NEW what \in Spoken, NEW how \in Outcomes, how = OutcomeOf(what),
         Finish(t, tr, how, what)
  PROVE  ToldMoves(t)
<1> DEFINE e == Event("InvocationOutcome", inv[t], 0, how)
           R == [call : Fingerprints, output : Spoken]
<1>1. /\ e \in Events /\ e.kind = "InvocationOutcome" /\ e.inv = inv[t] /\ e.hook = 0
      /\ e.what = how
  <2>1. inv[t] \in Nat /\ 0 \in Nat
    BY DEF LocalTypes
  <2>2. how \in Whats /\ "InvocationOutcome" \in Kinds
    BY DEF Outcomes, Whats, Kinds
  <2> QED BY <2>1, <2>2, EventType DEF Event
<1>2. trace'[t] = Grow(tr, e)
  BY DEF Finish, WithOutcome, Grow, LocalTypes
<1> HIDE DEF e
<1>3. /\ inv[t] \in Nat \ {0} /\ Len(Calls[t]) \in Nat /\ results[t] \in Seq(R)
      /\ Len(results[t]) + 1 = inv[t] /\ Call(t) = Calls[t][inv[t]] /\ Call(t) \in Fingerprints
  <2>1. inv[t] \in Nat \ {0} /\ Len(Calls[t]) \in Nat /\ Call(t) = Calls[t][inv[t]]
    BY LineUps DEF LocalTypes, Call
  <2>2. results[t] \in Seq(R) /\ Len(results[t]) \in Nat
    <3>1. results[t] \in Seq(R)
      BY DEF ToldTypes
    <3> HIDE DEF R
    <3> QED BY <3>1
  <2>3. Call(t) \in Fingerprints
    BY <2>1, LineUps
  <2> QED BY <2>1, <2>2, <2>3
<1>4. ASSUME NEW a, a.output = what PROVE Tells(Grow(tr, e), Append(results[t], a))
  <2>1. Tells(tr, Append(results[t], a))
    BY <1>3, TellsMore
  <2>2. /\ Len(Append(results[t], a)) = inv[t] /\ Append(results[t], a)[inv[t]] = a
        /\ inv[t] \in 1 .. inv[t]
    BY <1>3
  <2> QED BY <1>1, <1>4, <2>1, <2>2, TellsGrow
<1>5. OutcomesOf(Grow(tr, e), inv[t]) # {}
  <2>1. Fits(e, {"InvocationOutcome"}, inv[t], 0)
    BY <1>1 DEF Fits
  <2>2. IndicesIn(Grow(tr, e), {"InvocationOutcome"}, inv[t], 0)
          = IndicesIn(tr, {"InvocationOutcome"}, inv[t], 0) \cup {Len(tr) + 1}
    BY <1>1, <2>1, GrowIndices
  <2> QED BY <2>2 DEF OutcomesOf
<1>6. CASE /\ results' = [results EXCEPT ![t] = Append(@, [call |-> Call(t), output |-> what])]
           /\ value' = [value EXCEPT ![t] = "none"]
           /\ inv' = [inv EXCEPT ![t] = @ + 1]
           /\ pc' = [pc EXCEPT ![t] = EntryOf(t, inv[t] + 1)]
  <2> DEFINE a == [call |-> Call(t), output |-> what]
  <2>1. /\ results'[t] = Append(results[t], a) /\ inv'[t] = inv[t] + 1
        /\ pc'[t] \in {"ok", "before", "tool"}
    BY <1>3, <1>6, EntryFacts DEF LocalTypes, ToldTypes
  <2>2. a \in R /\ a.output = what /\ a.call = Call(t)
    BY <1>3
  <2> HIDE DEF a, R
  <2>3. /\ Append(results[t], a) \in Seq(R)
        /\ Len(Append(results[t], a)) = inv[t]
        /\ \A i \in 1 .. Len(results[t]) : Append(results[t], a)[i] = results[t][i]
        /\ Append(results[t], a)[inv[t]] = a
    BY <1>3, <2>2
  <2>4. ToldTypes'
    BY <1>6, <2>3 DEF ToldTypes, Spoken, R, a
  <2>5. Gotten(t)' = Append(results[t], a)
    BY <2>1 DEF Gotten
  <2>6. \A i \in 1 .. inv[t] : Append(results[t], a)[i].call = Calls[t][i]
    <3> TAKE i \in 1 .. inv[t]
    <3>1. CASE i = inv[t]
      BY <1>3, <2>2, <2>3, <3>1
    <3>2. CASE i # inv[t]
      <4>1. i \in 1 .. Len(results[t])
        BY <1>3, <3>2
      <4> QED BY <2>3, <4>1
    <3> QED BY <3>1, <3>2
  <2>7. Len(results'[t]) = inv'[t] - 1
    BY <1>3, <2>1, <2>3
  <2>8. \A i \in 1 .. Len(results'[t]) : results'[t][i].call = Calls[t][i]
    BY <2>1, <2>3, <2>6
  <2>9. Tells(trace'[t], Gotten(t)')
    BY <1>2, <1>4, <2>2, <2>5
  <2>10. Told(t)'
    BY <2>1, <2>7, <2>8, <2>9 DEF Told, InLoop
  <2> QED BY <1>6, <2>4, <2>10 DEF ToldMoves, SameWord, ToldTypes
<1>7. CASE /\ value' = [value EXCEPT ![t] = what]
           /\ pc' = [pc EXCEPT ![t] = "err"]
           /\ UNCHANGED <<results, inv>>
  <2> DEFINE a == [call |-> "none", output |-> what]
  <2>1. pc'[t] = "err" /\ inv'[t] = inv[t] /\ value'[t] = what /\ results'[t] = results[t]
    BY <1>7 DEF LocalTypes, ToldTypes
  <2>2. Gotten(t)' = Append(results[t], a) /\ a.output = what
    BY <2>1 DEF Gotten
  <2> HIDE DEF a
  <2>3. Tells(trace'[t], Gotten(t)')
    BY <1>2, <1>4, <2>2
  <2>4. OutcomesOf(trace'[t], inv'[t]) # {}
    BY <1>2, <1>5, <2>1
  <2>5. Told(t)'
    BY <2>1, <2>3, <2>4 DEF Told, InLoop
  <2> QED BY <1>7, <2>5 DEF ToldMoves, SameWord, ToldTypes
<1> QED BY <1>6, <1>7 DEF Finish

LEMMA StartTold ==
  ASSUME LocalTypes, ToldTypes, NEW t \in Tasks, inv[t] \in 1 .. Len(Calls[t]),
         Len(results[t]) = inv[t] - 1,
         \A i \in 1 .. Len(results[t]) : results[t][i].call = Calls[t][i],
         NEW tr \in Seq(Events), Tells(tr, results[t]), NEW phase \in {"after", "cleanup"},
         NEW n \in Nat, NEW what \in Spoken, NEW how \in Outcomes, how = OutcomeOf(what),
         StartCallbacks(t, phase, n, tr, how, what)
  PROVE  ToldMoves(t)
<1>1. CASE n = 0
  BY <1>1, FinishTold DEF StartCallbacks
<1>2. CASE n > 0
  <2>1. /\ trace' = [trace EXCEPT ![t] = tr] /\ pc' = [pc EXCEPT ![t] = phase]
        /\ outcome' = [outcome EXCEPT ![t] = how] /\ value' = [value EXCEPT ![t] = what]
        /\ UNCHANGED <<results, inv>>
    BY <1>2 DEF StartCallbacks
  <2>2. /\ trace'[t] = tr /\ pc'[t] = phase /\ outcome'[t] = how /\ value'[t] = what
        /\ results'[t] = results[t] /\ inv'[t] = inv[t]
    BY <2>1 DEF LocalTypes, ToldTypes
  <2>3. Gotten(t)' = results[t]
    BY <2>2 DEF Gotten
  <2>4. Told(t)'
    BY <2>2, <2>3 DEF Told
  <2> QED BY <2>1, <2>4 DEF ToldMoves, SameWord, ToldTypes
<1> QED BY <1>1, <1>2

\* A dispatch that has not ended has heard nothing but results.
LEMMA ToldSoFar ==
  ASSUME LocalTypes, ToldTypes, NEW t \in Tasks, Control(t), Told(t), pc[t] \notin {"ok", "err"}
  PROVE  /\ Tells(trace[t], results[t]) /\ inv[t] \in 1 .. Len(Calls[t])
         /\ Len(results[t]) = inv[t] - 1 /\ trace[t] \in Seq(Events)
         /\ \A i \in 1 .. Len(results[t]) : results[t][i].call = Calls[t][i]
         /\ \A e \in Events : e.kind # "InvocationOutcome" => Tells(Grow(trace[t], e), results[t])
<1>1. Tells(trace[t], results[t]) /\ trace[t] \in Seq(Events)
  BY DEF Told, Gotten, LocalTypes
<1>2. \A e \in Events : e.kind # "InvocationOutcome" => Tells(Grow(trace[t], e), results[t])
  BY <1>1, TellsGrow
<1> QED BY <1>1, <1>2, LineUps DEF LocalTypes, Told, Control

LEMMA OutcomesMatch ==
  /\ OutcomeOf("tool_output") = "Completed" /\ OutcomeOf("hook_output") = "Skipped"
  /\ OutcomeOf("terminated") = "Terminated"
  /\ OutcomeOf("hook_error") = "Failed" /\ OutcomeOf("tool_error") = "Failed"
BY DEF OutcomeOf

LEMMA DecideTold ==
  ASSUME LocalTypes, ToldTypes, NEW t \in Tasks, Control(t), Told(t),
         pc[t] \in {"before", "count"}, NEW d \in {"Continue", "Skip", "Terminate"}, Decide(t, d)
  PROVE  ToldMoves(t)
<1> DEFINE e == Event("HookBefore", inv[t], pos[t], d)
           n == Len(HooksOf[t])
<1>1. e \in Events /\ e.kind = "HookBefore"
  <2>1. inv[t] \in Nat /\ pos[t] \in Nat /\ d \in Whats /\ "HookBefore" \in Kinds
    BY DEF LocalTypes, Whats, Kinds
  <2> QED BY <2>1, EventType
<1>2. trace[t] \in Seq(Events) /\ Append(trace[t], e) = Grow(trace[t], e) /\ n \in Nat
  BY LineUps DEF LocalTypes, Grow
<1>3. Grow(trace[t], e) \in Seq(Events)
  BY <1>1, <1>2, GrowType
<1>4. \/ /\ pc' = [pc EXCEPT ![t] = "before"] \/ pc' = [pc EXCEPT ![t] = "tool"]
         /\ trace' = [trace EXCEPT ![t] = Grow(trace[t], e)]
         /\ UNCHANGED <<inv, value, results>>
      \/ StartCallbacks(t, "after", n, Grow(trace[t], e), "Skipped", "hook_output")
      \/ StartCallbacks(t, "cleanup", n, Grow(trace[t], e), "Terminated", "terminated")
  BY <1>2 DEF Decide, StartTool
<1> HIDE DEF e, n
<1>5. Tells(Grow(trace[t], e), results[t])
  BY <1>1, ToldSoFar
<1>6. CASE /\ pc' = [pc EXCEPT ![t] = "before"] \/ pc' = [pc EXCEPT ![t] = "tool"]
           /\ trace' = [trace EXCEPT ![t] = Grow(trace[t], e)]
           /\ UNCHANGED <<inv, value, results>>
  <2>1. /\ pc'[t] \in {"before", "tool"} /\ trace'[t] = Grow(trace[t], e)
        /\ inv'[t] = inv[t] /\ results'[t] = results[t] /\ Gotten(t)' = results[t]
    BY <1>6 DEF LocalTypes, Gotten
  <2>2. Told(t)'
    BY <1>5, <2>1 DEF Told, InLoop
  <2> QED BY <1>6, <2>2 DEF ToldMoves, SameWord, ToldTypes
<1>7. ASSUME NEW phase \in {"after", "cleanup"}, NEW how \in Outcomes, NEW what \in Spoken,
             how = OutcomeOf(what), StartCallbacks(t, phase, n, Grow(trace[t], e), how, what)
      PROVE  ToldMoves(t)
  BY <1>2, <1>3, <1>5, <1>7, ToldSoFar, StartTold
<1> QED BY <1>4, <1>6, <1>7, OutcomesMatch DEF Outcomes, Spoken

LEMMA CallbackTold ==
  ASSUME LocalTypes, ToldTypes, NEW t \in Tasks, Control(t), Told(t), InLoop(t),
         NEW phase \in {"after", "cleanup"}, GoodEnd(phase, outcome[t]), CallbackDone(t, phase)
  PROVE  ToldMoves(t)
<1> DEFINE kind == IF phase = "after" THEN "HookAfter" ELSE "HookCleanup"
           e == Event(kind, inv[t], pos[t], "done")
<1>1. e \in Events /\ e.kind \in {"HookAfter", "HookCleanup"}
  <2>1. /\ inv[t] \in Nat /\ pos[t] \in Nat /\ "done" \in Whats
        /\ kind \in Kinds /\ kind \in {"HookAfter", "HookCleanup"}
    BY DEF LocalTypes, Whats, Kinds
  <2> HIDE DEF kind
  <2> QED BY <2>1, EventType
<1>2. trace[t] \in Seq(Events) /\ Append(trace[t], e) = Grow(trace[t], e)
  BY DEF LocalTypes, Grow
<1>3. Grow(trace[t], e) \in Seq(Events)
  BY <1>1, <1>2, GrowType
<1>4. \/ Finish(t, Grow(trace[t], e), outcome[t], value[t])
      \/ /\ pc' = [pc EXCEPT ![t] = phase]
         /\ trace' = [trace EXCEPT ![t] = Grow(trace[t], e)]
         /\ UNCHANGED <<inv, outcome, value, results>>
  BY <1>2 DEF CallbackDone
<1> HIDE DEF e
<1>5. /\ pc[t] \notin {"ok", "err"} /\ outcome[t] \in Outcomes /\ value[t] \in Spoken
      /\ outcome[t] = OutcomeOf(value[t])
  BY DEF InLoop, GoodEnd, Outcomes, ToldTypes, Told
<1>6. Tells(Grow(trace[t], e), results[t])
  BY <1>1, <1>5, ToldSoFar
<1>7. CASE Finish(t, Grow(trace[t], e), outcome[t], value[t])
  BY <1>3, <1>5, <1>6, <1>7, ToldSoFar, FinishTold
<1>8. CASE /\ pc' = [pc EXCEPT ![t] = phase]
           /\ trace' = [trace EXCEPT ![t] = Grow(trace[t], e)]
           /\ UNCHANGED <<inv, outcome, value, results>>
  <2>1. /\ pc'[t] = phase /\ trace'[t] = Grow(trace[t], e) /\ outcome'[t] = outcome[t]
        /\ inv'[t] = inv[t] /\ results'[t] = results[t] /\ value'[t] = value[t]
        /\ Gotten(t)' = results[t]
    BY <1>8 DEF LocalTypes, Gotten
  <2>2. Told(t)'
    BY <1>5, <1>6, <2>1 DEF Told
  <2> QED BY <1>8, <2>2 DEF ToldMoves, SameWord, ToldTypes
<1> QED BY <1>4, <1>7, <1>8

\* The steps that begin the callbacks.
LEMMA EndingTold ==
  ASSUME LocalTypes, ToldTypes, NEW t \in Tasks, Control(t), Told(t),
         BeforeFail(t) \/ ToolOk(t) \/ ToolFail(t)
  PROVE  ToldMoves(t)
<1> DEFINE e == Event("HookBeforeError", inv[t], pos[t], "error")
           n == Len(HooksOf[t])
<1>1. e \in Events /\ e.kind = "HookBeforeError"
  <2>1. /\ inv[t] \in Nat /\ pos[t] \in Nat /\ "error" \in Whats /\ "HookBeforeError" \in Kinds
    BY DEF LocalTypes, Whats, Kinds
  <2> QED BY <2>1, EventType
<1>2. trace[t] \in Seq(Events) /\ Append(trace[t], e) = Grow(trace[t], e)
  BY DEF LocalTypes, Grow
<1>3. Grow(trace[t], e) \in Seq(Events)
  BY <1>1, <1>2, GrowType
<1>4. /\ pc[t] \in {"before", "tool"} /\ n \in Nat /\ pos[t] - 1 \in Nat
      /\ \/ StartCallbacks(t, "cleanup", pos[t] - 1, Grow(trace[t], e), "Failed", "hook_error")
         \/ StartCallbacks(t, "after", n, trace[t], "Completed", "tool_output")
         \/ StartCallbacks(t, "cleanup", n, trace[t], "Failed", "tool_error")
  <2>1. n \in Nat /\ pos[t] - 1 \in Nat
    BY LineUps DEF LocalTypes
  <2>2. CASE BeforeFail(t)
    BY <1>2, <2>1, <2>2 DEF BeforeFail, Observed
  <2>3. CASE ToolOk(t) \/ ToolFail(t)
    BY <2>1, <2>3 DEF ToolOk, ToolFail
  <2> QED BY <2>2, <2>3
<1> HIDE DEF e, n
<1>5. Tells(Grow(trace[t], e), results[t]) /\ Tells(trace[t], results[t])
  BY <1>1, <1>4, ToldSoFar
<1>6. ASSUME NEW phase \in {"after", "cleanup"}, NEW how \in Outcomes, NEW what \in Spoken,
             how = OutcomeOf(what), NEW m \in Nat, NEW tr \in Seq(Events), Tells(tr, results[t]),
             StartCallbacks(t, phase, m, tr, how, what)
      PROVE  ToldMoves(t)
  BY <1>4, <1>6, ToldSoFar, StartTold
<1> QED BY <1>2, <1>3, <1>4, <1>5, <1>6, OutcomesMatch DEF Outcomes, Spoken

\* The steps that push no event.
LEMMA PlaceTold ==
  ASSUME LocalTypes, ToldTypes, NEW t \in Tasks, Control(t), Traced(t), Told(t),
         BudgetGrant(t) \/ ReleaseTake(t) \/ CallbackFail(t) \/ Cancel(t)
  PROVE  ToldMoves(t)
<1>1. UNCHANGED <<inv, outcome, results, trace>> /\ pc[t] \in {"before", "tool", "after", "cleanup"}
  BY DEF BudgetGrant, ReleaseTake, CallbackFail, Cancel, InCallbacks
<1>2. Tells(trace[t], results[t]) /\ results[t] \in Seq([call : Fingerprints, output : Spoken])
  BY <1>1, ToldSoFar DEF ToldTypes
<1>3. CASE BudgetGrant(t) \/ ReleaseTake(t) \/ Cancel(t)
  <2>1. /\ UNCHANGED value /\ pc'[t] # "err"
        /\ InLoop(t)' => InLoop(t)
        /\ \A s \in Tasks \ {t} : pc'[s] = pc[s]
    BY <1>1, <1>3 DEF BudgetGrant, ReleaseTake, Cancel, InCallbacks, InLoop, LocalTypes
  <2>2. Gotten(t)' = results[t]
    BY <1>1, <2>1 DEF Gotten
  <2>3. Told(t)'
    BY <1>1, <1>2, <2>1, <2>2 DEF Told
  <2> QED BY <1>1, <2>1, <2>3 DEF ToldMoves, SameWord, ToldTypes
<1>4. CASE CallbackFail(t)
  <2> DEFINE a == [call |-> "none", output |-> "callback_error"]
  <2>1. /\ value' = [value EXCEPT ![t] = "callback_error"] /\ pc' = [pc EXCEPT ![t] = "err"]
    BY <1>4 DEF CallbackFail
  <2>2. value'[t] = "callback_error" /\ pc'[t] = "err"
    BY <2>1 DEF LocalTypes, ToldTypes
  <2>3. Gotten(t)' = Append(results[t], a)
    BY <1>1, <2>2 DEF Gotten
  <2> HIDE DEF a
  <2>4. Tells(trace[t], Append(results[t], a))
    BY <1>2, TellsMore
  <2>5. Told(t)'
    BY <1>1, <2>2, <2>3, <2>4 DEF Told, InLoop
  <2> QED BY <1>1, <2>1, <2>5 DEF ToldMoves, SameWord, ToldTypes, Spoken
<1> QED BY <1>3, <1>4

ToldInv == ToldTypes /\ \A t \in Tasks : Told(t)

LEMMA OthersTold ==
  ASSUME NEW s \in Tasks, StandsStill(s), SameWord(s), Told(s)
  PROVE  Told(s)'
BY DEF StandsStill, SameWord, Told, Gotten, InLoop

LEMMA NextTold == ControlInv /\ ToldInv /\ [Next]_vars => ToldInv'
<1> SUFFICES ASSUME ControlInv, ToldInv, [Next]_vars PROVE ToldInv'
  OBVIOUS
<1>1. ASSUME NEW t \in Tasks, Run(t) \/ Cancel(t) PROVE ToldInv'
  <2>1. LocalTypes /\ Control(t) /\ Traced(t) /\ ToldTypes /\ Told(t)
    BY DEF ControlInv, ToldInv
  <2>2. ToldMoves(t)
    <3>1. CASE \/ BudgetCount(t) \/ BudgetDeny(t) \/ StuckCount(t)
               \/ \E d \in Decisions : PolicyDecide(t, d)
      BY <2>1, <3>1, DecideSteps, DecideTold DEF DecideStep
    <3>2. CASE ReleaseNone(t) \/ ReleaseGive(t) \/ PlainCallback(t)
      BY <2>1, <3>2, CallbackSteps, CallbackTold DEF CallbackStep
    <3>3. CASE BudgetGrant(t) \/ ReleaseTake(t) \/ CallbackFail(t) \/ Cancel(t)
      BY <2>1, <3>3, PlaceTold
    <3>4. CASE BeforeFail(t) \/ ToolOk(t) \/ ToolFail(t)
      BY <2>1, <3>4, EndingTold
    <3> QED BY <1>1, <3>1, <3>2, <3>3, <3>4 DEF Run
  <2>3. ASSUME NEW s \in Tasks \ {t} PROVE Told(s)'
    <3>1. StandsStill(s) /\ SameWord(s) /\ Told(s)
      BY <1>1, <2>2, StepMoves DEF Moves, ToldMoves, ToldInv
    <3> QED BY <3>1, OthersTold
  <2> QED BY <2>2, <2>3 DEF ToldMoves, ToldInv
<1>2. CASE UNCHANGED vars
  <2>1. \A s \in Tasks : StandsStill(s) /\ SameWord(s)
    BY <1>2 DEF vars, StandsStill, SameWord
  <2>2. \A s \in Tasks : Told(s)'
    BY <2>1, OthersTold DEF ToldInv
  <2> QED BY <1>2, <2>2 DEF vars, ToldInv, ToldTypes
<1> QED BY <1>1, <1>2 DEF Next

LEMMA InitTold == Init => ToldInv
<1> SUFFICES ASSUME Init PROVE ToldInv
  OBVIOUS
<1>1. ToldTypes
  <2>1. << >> \in Seq([call : Fingerprints, output : Spoken])
    OBVIOUS
  <2> QED BY <2>1 DEF Init, ToldTypes, Spoken
<1>2. ASSUME NEW t \in Tasks PROVE Told(t)
  <2>1. /\ pc[t] \in {"ok", "before", "tool"} /\ inv[t] = 1 /\ trace[t] = << >> /\ results[t] = << >>
    BY EntryFacts DEF Init
  <2>2. Gotten(t) = << >> /\ Len(<< >>) = 0
    BY <2>1 DEF Gotten
  <2> QED BY <2>1, <2>2 DEF Told, Tells, InLoop
<1> QED BY <1>1, <1>2 DEF ToldInv

LEMMA ToldInvariance == Spec => [](ControlInv /\ ToldInv)
<1>1. ControlInv /\ ToldInv /\ [Next]_vars => ControlInv' /\ ToldInv'
  BY NextControl, NextTold
<1> QED BY <1>1, InitControl, InitTold, PTL DEF Spec

\* An invocation that is over is told of by one event, and by the right one.
LEMMA OverIsTraced ==
  ASSUME NEW t \in Tasks, NEW i, NEW n, Over(trace[t], i, n), NEW got, Tells(trace[t], got)
  PROVE  TracedAs(t, i, got[i].output)
<1>1. PICK x \in Nat : OutcomesOf(trace[t], i) = {x}
  BY DEF Over
<1>2. Indices(t, {"InvocationOutcome"}, i, 0) = {x}
  BY <1>1, TraceIndices DEF OutcomesOf
<1>3. x \in DOMAIN trace[t] /\ trace[t][x].kind = "InvocationOutcome" /\ trace[t][x].inv = i
  BY <1>2 DEF Indices
<1>4. trace[t][x].what = OutcomeOf(got[i].output)
  BY <1>3 DEF Tells
<1> QED BY <1>2, <1>3, <1>4 DEF TracedAs

\* For any dispatches, hooks and host code: each result has one outcome event that
\* goes with its output, and a dispatch that failed one that goes with its error.
THEOREM EveryOutcomeTraced == Spec => []OutcomeTraced
<1>1. ControlInv /\ ToldInv => OutcomeTraced
  <2> SUFFICES ASSUME ControlInv, ToldInv, NEW t \in Tasks
               PROVE  /\ \A i \in DOMAIN results[t] :
                           results[t][i].call = Calls[t][i] /\ TracedAs(t, i, results[t][i].output)
                      /\ pc[t] = "ok" => Len(results[t]) = Len(Calls[t])
                      /\ pc[t] = "err" /\ value[t] # "callback_error" =>
                           TracedAs(t, Len(results[t]) + 1, value[t])
    BY DEF OutcomeTraced
  <2> DEFINE n == Len(HooksOf[t])
  <2>1. /\ inv[t] \in Nat \ {0} /\ Traced(t) /\ Control(t) /\ Told(t) /\ Len(Calls[t]) \in Nat
        /\ results[t] \in Seq([call : Fingerprints, output : Spoken])
    BY LineUps DEF ControlInv, LocalTypes, ToldInv, ToldTypes
  <2>2. /\ DOMAIN results[t] = 1 .. inv[t] - 1 /\ Len(results[t]) + 1 = inv[t]
        /\ Tells(trace[t], Gotten(t)) /\ Len(results[t]) \in Nat
    BY <2>1 DEF Told
  <2>3. ASSUME NEW i \in DOMAIN results[t]
        PROVE  results[t][i].call = Calls[t][i] /\ TracedAs(t, i, results[t][i].output)
    <3>1. Over(trace[t], i, n)
      BY <2>1, <2>2 DEF Traced, Past
    <3>2. Gotten(t)[i] = results[t][i]
      BY <2>1, <2>2 DEF Gotten
    <3> QED BY <2>1, <2>2, <3>1, <3>2, OverIsTraced DEF Told
  <2>4. ASSUME pc[t] = "err", value[t] # "callback_error"
        PROVE  TracedAs(t, Len(results[t]) + 1, value[t])
    <3>1. Over(trace[t], inv[t], n)
      BY <2>1, <2>4 DEF Told, Traced, Present
    <3>2. Gotten(t)[inv[t]].output = value[t]
      BY <2>1, <2>2, <2>4 DEF Gotten
    <3> QED BY <2>2, <3>1, <3>2, OverIsTraced
  <2>5. pc[t] = "ok" => Len(results[t]) = Len(Calls[t])
    BY <2>1, <2>2 DEF Control
  <2> QED BY <2>3, <2>4, <2>5
<1> QED BY <1>1, ToldInvariance, PTL

----------------------------------------------------------------------------
(* The guard                                                               *)

Hands == {"count", "after_give", "cleanup_give"}

InHand == {t \in Tasks : pc[t] \in Hands}

GuardInv ==
  /\ available \in Nat
  /\ reserved \in [Hooks -> Nat]
  /\ GuardBalanced

\* When sets differ in one element at most, so do their sizes.
LEMMA SetStep ==
  ASSUME NEW S, IsFiniteSet(S), NEW A \in SUBSET S, NEW B \in SUBSET S, NEW x,
         A \ {x} = B \ {x}
  PROVE  /\ Cardinality(A) \in Nat /\ Cardinality(B) \in Nat
         /\ Cardinality(B) + (IF x \in A THEN 1 ELSE 0)
              = Cardinality(A) + (IF x \in B THEN 1 ELSE 0)
<1>1. IsFiniteSet(A) /\ IsFiniteSet(B)
  BY FS_Subset
<1>2. Cardinality(A) \in Nat /\ Cardinality(B) \in Nat
  BY <1>1, FS_CardinalityType
<1>3. /\ Cardinality(A \ {x}) = IF x \in A THEN Cardinality(A) - 1 ELSE Cardinality(A)
      /\ Cardinality(B \ {x}) = IF x \in B THEN Cardinality(B) - 1 ELSE Cardinality(B)
  BY <1>1, FS_RemoveElement
<1> QED BY <1>2, <1>3

LEMMA UnitsAre ==
  ASSUME GuardInv
  PROVE  /\ SumFunction(reserved) \in Nat /\ Cardinality(InHand) \in Nat
         /\ UnitsOut = SumFunction(reserved) + Cardinality(InHand) /\ UnitsOut \in Nat
<1>1. SumFunction(reserved) \in Nat
  BY FiniteAssumption, SumBounds DEF GuardInv
<1>2. Cardinality(InHand) \in Nat
  <2>1. IsFiniteSet(InHand)
    BY FiniteAssumption, FS_Subset DEF InHand
  <2> QED BY <2>1, FS_CardinalityType
<1> QED BY <1>1, <1>2 DEF UnitsOut, InHand, Hands

\* How a step of dispatch t changes the units out.
LEMMA UnitsChange ==
  ASSUME GuardInv, NEW t \in Tasks, Moves(t), NEW a \in {-1, 0, 1}, reserved' \in [Hooks -> Nat],
         \/ a = 0 /\ reserved' = reserved
         \/ \E h \in Hooks : /\ reserved'[h] = reserved[h] + a
                             /\ \A g \in Hooks \ {h} : reserved'[g] = reserved[g]
  PROVE  /\ UnitsOut' \in Nat
         /\ UnitsOut' + (IF pc[t] \in Hands THEN 1 ELSE 0)
              = UnitsOut + a + (IF pc'[t] \in Hands THEN 1 ELSE 0)
<1>1. /\ SumFunction(reserved') = SumFunction(reserved) + a
      /\ SumFunction(reserved) \in Nat /\ SumFunction(reserved') \in Nat
  <2>1. SumFunction(reserved) \in Nat /\ SumFunction(reserved') \in Nat
    BY UnitsAre, SumBounds, FiniteAssumption
  <2>2. CASE a = 0 /\ reserved' = reserved
    BY <2>1, <2>2
  <2>3. CASE \E h \in Hooks : /\ reserved'[h] = reserved[h] + a
                              /\ \A g \in Hooks \ {h} : reserved'[g] = reserved[g]
    <3>1. PICK h \in Hooks : /\ reserved'[h] = reserved[h] + a
                             /\ \A g \in Hooks \ {h} : reserved'[g] = reserved[g]
      BY <2>3
    <3>2. \A f, g \in [Hooks -> Int] :
            (\A x \in Hooks \ {h} : g[x] = f[x]) =>
              SumFunction(g) = SumFunction(f) + g[h] - f[h]
      BY SumChange, FiniteAssumption
    <3>3. reserved \in [Hooks -> Int] /\ reserved' \in [Hooks -> Int] /\ reserved[h] \in Int
      BY DEF GuardInv
    <3>4. SumFunction(reserved') = SumFunction(reserved) + reserved'[h] - reserved[h]
      BY <3>1, <3>2, <3>3
    <3> QED BY <2>1, <3>1, <3>3, <3>4
  <2> QED BY <2>1, <2>2, <2>3
<1>2. InHand \ {t} = InHand' \ {t} /\ InHand \in SUBSET Tasks /\ InHand' \in SUBSET Tasks
  BY DEF InHand, Moves, StandsStill
<1>3. /\ Cardinality(InHand) \in Nat /\ Cardinality(InHand') \in Nat
      /\ Cardinality(InHand') + (IF t \in InHand THEN 1 ELSE 0)
           = Cardinality(InHand) + (IF t \in InHand' THEN 1 ELSE 0)
  BY <1>2, SetStep, FiniteAssumption
<1>4. t \in InHand <=> pc[t] \in Hands
  BY DEF InHand
<1>5. t \in InHand' <=> pc'[t] \in Hands
  BY DEF InHand
<1>6. UnitsOut = SumFunction(reserved) + Cardinality(InHand)
      /\ UnitsOut' = SumFunction(reserved') + Cardinality(InHand')
  BY DEF UnitsOut, InHand, Hands
<1> QED BY <1>1, <1>3, <1>4, <1>5, <1>6

LEMMA NotInHand ==
  ASSUME ControlInv, NEW t \in Tasks,
         DecideStep(t) \/ CallbackStep(t) \/ ToolStep(t) \/ FailStep(t)
  PROVE  pc'[t] \notin Hands
<1>1. LocalTypes /\ Control(t)
  BY DEF ControlInv
<1>2. CASE DecideStep(t)
  BY <1>1, <1>2, DecideFacts DEF DecideStep, GoesOn, StartsTool, CallsBack, Hands
<1>3. CASE CallbackStep(t)
  BY <1>1, <1>3, CallbackFacts DEF CallbackStep, Ends, CallsBack, Hands
<1>4. CASE ToolStep(t) \/ FailStep(t)
  BY <1>4 DEF ToolStep, FailStep, Enters, Ends, CallsBack, Hands
<1> QED BY <1>2, <1>3, <1>4

LEMMA CostTimes ==
  ASSUME NEW a \in Nat, NEW b \in Nat
  PROVE  /\ Cost * (a + b) = Cost * a + Cost * b
         /\ Cost * a \in Nat /\ Cost * b \in Nat /\ Cost * 1 = Cost
BY BudgetAssumption

LEMMA CostMonotone ==
  ASSUME NEW a \in Nat, NEW b \in Nat, a <= b
  PROVE  Cost * a <= Cost * b
<1>1. b - a \in Nat /\ a + (b - a) = b
  OBVIOUS
<1>2. Cost * b = Cost * a + Cost * (b - a)
  BY <1>1, CostTimes
<1>3. Cost * a \in Nat /\ Cost * (b - a) \in Nat
  BY <1>1, CostTimes
<1> QED BY <1>2, <1>3

LEMMA Sameness ==
  \A m, n \in Nat : /\ m + 0 = n + 0 + 0 => m = n
                    /\ m + 1 = n + 1 + 0 => m = n
                    /\ m + 0 = n + (-1) + 1 => m = n
                    /\ m + 1 = n + 0 + 0 => n = m + 1
OBVIOUS

\* A step that leaves the guard alone.
LEMMA GuardStill ==
  ASSUME GuardInv, NEW t \in Tasks, Moves(t), UNCHANGED <<available, reserved>>,
         pc[t] \notin Hands, pc'[t] \notin Hands
  PROVE  GuardInv'
<1>0. UnitsOut \in Nat /\ reserved' \in [Hooks -> Nat]
  BY UnitsAre DEF GuardInv
<1>a. UnitsOut' + 0 = UnitsOut + 0 + 0 /\ UnitsOut' \in Nat
  BY <1>0, UnitsChange
<1>1. UnitsOut' = UnitsOut
  BY <1>0, <1>a, Sameness
<1> QED BY <1>1 DEF GuardInv, GuardBalanced

LEMMA NextGuardInv ==
  ASSUME ControlInv, GuardInv, NEW t \in Tasks, Run(t) \/ Cancel(t)
  PROVE  GuardInv'
<1>0. /\ Moves(t) /\ UnitsOut \in Nat /\ LocalTypes /\ Control(t)
      /\ available \in Nat /\ reserved \in [Hooks -> Nat] /\ Cost \in Nat /\ Capacity \in Nat
      /\ available + Cost * UnitsOut = Capacity
  BY StepMoves, UnitsAre, BudgetAssumption DEF GuardInv, GuardBalanced, ControlInv
<1>b. UnitsOut \in Nat
  BY UnitsAre
<1>a. ASSUME pc[t] = "count" \/ InLoop(t) PROVE Hook(t) \in Hooks
  BY <1>0, <1>a, LineUps DEF Control, InLoop, Hook, LocalTypes
<1>1. CASE BudgetGrant(t)
  <2>1. /\ available >= Cost /\ available' = available - Cost /\ reserved' = reserved
        /\ pc[t] = "before" /\ pc'[t] = "count"
    BY <1>0, <1>1 DEF BudgetGrant, LocalTypes
  <2>2. UnitsOut' = UnitsOut + 1
    <3>1. pc[t] \notin Hands /\ pc'[t] \in Hands
      BY <2>1 DEF Hands
    <3> QED BY <1>0, <2>1, <3>1, UnitsChange
  <2>3. Cost * (UnitsOut + 1) = Cost * UnitsOut + Cost /\ Cost * UnitsOut \in Nat
    BY <1>0, CostTimes
  <2>4. available' + Cost * UnitsOut' = Capacity
    BY <1>0, <2>1, <2>2, <2>3
  <2>5. available' \in Nat
    BY <1>0, <2>1
  <2> QED BY <1>0, <2>1, <2>4, <2>5 DEF GuardInv, GuardBalanced
<1>2. CASE BudgetCount(t)
  <2>1. /\ reserved' = [reserved EXCEPT ![Hook(t)] = @ + 1] /\ available' = available
        /\ pc[t] = "count"
    BY <1>2 DEF BudgetCount
  <2>2. pc'[t] \notin Hands
    BY <1>2, DecideSteps, NotInHand
  <2>3. Hook(t) \in Hooks /\ pc[t] \in Hands
    BY <1>a, <2>1 DEF Hands
  <2>4. /\ reserved' \in [Hooks -> Nat] /\ reserved'[Hook(t)] = reserved[Hook(t)] + 1
        /\ \A g \in Hooks \ {Hook(t)} : reserved'[g] = reserved[g]
    BY <1>0, <2>1, <2>3
  <2>5. UnitsOut' + 1 = UnitsOut + 1 + 0 /\ UnitsOut' \in Nat
    BY <1>0, <2>2, <2>3, <2>4, UnitsChange
  <2>6. UnitsOut' = UnitsOut
    BY <1>b, <2>5, Sameness
  <2> QED BY <1>0, <2>1, <2>4, <2>6 DEF GuardInv, GuardBalanced
<1>3. CASE BudgetDeny(t) \/ StuckCount(t) \/ \E d \in Decisions : PolicyDecide(t, d)
  <2>1. pc[t] = "before" /\ UNCHANGED <<available, reserved>>
    BY <1>3 DEF BudgetDeny, StuckCount, PolicyDecide, SharedUnchanged
  <2>2. pc'[t] \notin Hands
    BY <1>3, DecideSteps, NotInHand
  <2> QED BY <1>0, <2>1, <2>2, GuardStill DEF Hands
<1>4. CASE BeforeFail(t) \/ ToolOk(t) \/ ToolFail(t)
  <2>1. pc[t] \in {"before", "tool"} /\ UNCHANGED <<available, reserved>>
    BY <1>4 DEF BeforeFail, ToolOk, ToolFail, SharedUnchanged
  <2>2. pc'[t] \notin Hands
    BY <1>0, <1>4, FailSteps, ToolSteps, NotInHand
  <2> QED BY <1>0, <2>1, <2>2, GuardStill DEF Hands
<1>5. CASE ReleaseNone(t) \/ PlainCallback(t)
  <2>1. pc[t] \in {"after", "cleanup"} /\ UNCHANGED <<available, reserved>>
    BY <1>5 DEF ReleaseNone, PlainCallback, InCallbacks, SharedUnchanged
  <2>2. pc'[t] \notin Hands
    BY <1>0, <1>5, CallbackSteps, NotInHand
  <2> QED BY <1>0, <2>1, <2>2, GuardStill DEF Hands
<1>6. CASE ReleaseTake(t)
  <2>1. /\ reserved[Hook(t)] > 0 /\ reserved' = [reserved EXCEPT ![Hook(t)] = @ - 1]
        /\ pc[t] \in {"after", "cleanup"} /\ available' = available
        /\ pc' = [pc EXCEPT ![t] = IF @ = "after" THEN "after_give" ELSE "cleanup_give"]
    BY <1>6 DEF ReleaseTake, InCallbacks
  <2>2. Hook(t) \in Hooks /\ reserved[Hook(t)] \in Nat
    BY <1>0, <1>a, <2>1 DEF InLoop
  <2>3. /\ reserved' \in [Hooks -> Nat] /\ reserved'[Hook(t)] = reserved[Hook(t)] + (-1)
        /\ \A g \in Hooks \ {Hook(t)} : reserved'[g] = reserved[g]
    BY <1>0, <2>1, <2>2
  <2>4. pc'[t] \in Hands /\ pc[t] \notin Hands
    BY <1>0, <2>1 DEF Hands, LocalTypes
  <2>5. UnitsOut' + 0 = UnitsOut + (-1) + 1 /\ UnitsOut' \in Nat
    BY <1>0, <2>2, <2>3, <2>4, UnitsChange
  <2>6. UnitsOut' = UnitsOut
    BY <1>b, <2>5, Sameness
  <2> QED BY <1>0, <2>1, <2>3, <2>6 DEF GuardInv, GuardBalanced
<1>7. CASE ReleaseGive(t)
  <2>1. /\ available' = IF available + Cost < Capacity THEN available + Cost ELSE Capacity
        /\ pc[t] \in Hands /\ reserved' = reserved
    BY <1>7 DEF ReleaseGive, Hands
  <2>2. pc'[t] \notin Hands
    BY <1>0, <1>7, CallbackSteps, NotInHand
  <2>3. UnitsOut' + 1 = UnitsOut + 0 + 0 /\ UnitsOut' \in Nat
    BY <1>0, <2>1, <2>2, UnitsChange
  <2>4. UnitsOut = UnitsOut' + 1
    BY <1>b, <2>3, Sameness
  <2>5. Cost * UnitsOut = Cost * UnitsOut' + Cost /\ Cost * UnitsOut' \in Nat
    BY <2>3, <2>4, CostTimes
  <2>6. available + Cost <= Capacity
    BY <1>0, <2>5
  <2>7. available' = available + Cost
    BY <1>0, <2>1, <2>6
  <2> QED BY <1>0, <2>1, <2>5, <2>7 DEF GuardInv, GuardBalanced
<1>8. CASE CallbackFail(t) \/ Cancel(t)
  <2>1. /\ pc[t] \in {"before", "tool", "after", "cleanup"} /\ UNCHANGED <<available, reserved>>
        /\ pc'[t] \in {"err", "cancelled"}
    BY <1>0, <1>8 DEF CallbackFail, Cancel, InCallbacks, LocalTypes
  <2> QED BY <1>0, <2>1, GuardStill DEF Hands
<1> QED BY <1>1, <1>2, <1>3, <1>4, <1>5, <1>6, <1>7, <1>8 DEF Run

LEMMA GuardInvariance == Spec => [](ControlInv /\ GuardInv)
<1>1. Init => GuardInv
  <2> SUFFICES ASSUME Init PROVE GuardInv
    OBVIOUS
  <2>1. reserved \in [Hooks -> Nat] /\ \A h \in Hooks : reserved[h] = 0
    BY DEF Init
  <2>2. SumFunction(reserved) = 0
    BY <2>1, SumOfNothing, FiniteAssumption
  <2>3. InHand = {}
    BY EntryFacts DEF Init, InHand, Hands
  <2>4. UnitsOut = 0
    BY <2>2, <2>3, FS_EmptySet DEF UnitsOut, InHand, Hands
  <2> QED BY <2>1, <2>4, BudgetAssumption DEF Init, GuardInv, GuardBalanced
<1>2. ControlInv /\ GuardInv /\ [Next]_vars => GuardInv'
  <2>1. ASSUME GuardInv, UNCHANGED vars PROVE GuardInv'
    BY <2>1 DEF vars, GuardInv, GuardBalanced, UnitsOut
  <2> QED BY <2>1, NextGuardInv DEF Next
<1> QED BY <1>1, <1>2, InitControl, NextControl, PTL DEF Spec

\* However dispatches interleave over their hooks, the units out and those left
\* in the guard are its capacity: a hook never releases what nobody holds, and
\* the cap of release never swallows a unit.
THEOREM GuardAlwaysBalanced == Spec => []GuardBalanced
<1>1. GuardInv => GuardBalanced
  BY DEF GuardInv
<1> QED BY <1>1, GuardInvariance, PTL

----------------------------------------------------------------------------
(* What dispatches hold                                                    *)

IsBudgetAt(t, k) == k \in DOMAIN HooksOf[t] /\ Kind[HooksOf[t][k]] = "budget"

\* No budget hook is in two line-ups.
PrivateBudgets ==
  \A t, s \in Tasks : \A k \in DOMAIN HooksOf[t], l \in DOMAIN HooksOf[s] :
    HooksOf[t][k] = HooksOf[s][l] /\ IsBudgetAt(t, k) => t = s

\* No line-up has two budget hooks.
OneBudgetEach ==
  \A t \in Tasks : \A k, l \in DOMAIN HooksOf[t] : IsBudgetAt(t, k) /\ IsBudgetAt(t, l) => k = l

\* Dispatch t has passed its hook k, and its callbacks have not begun.
Admitted(t, k) == pc[t] = "tool" \/ (pc[t] \in {"before", "count"} /\ k < pos[t])

\* Where a grant is counted for a dispatch that has passed a budget hook.
AdmittedHold ==
  \A t \in Tasks : \A k \in DOMAIN HooksOf[t] :
    IsBudgetAt(t, k) /\ Admitted(t, k) => reserved[HooksOf[t][k]] > 0

\* A grant that dispatch t got at its hook k may still be out.
MayHold(t, k) ==
  \/ Admitted(t, k)
  \/ pc[t] \in {"after", "cleanup"} /\ pos[t] <= k /\ k <= upto[t]
  \/ pc[t] \in {"after_give", "cleanup_give"} /\ pos[t] < k /\ k <= upto[t]
  \/ CutShort(t)

HoldsOf(t, h) == \E k \in DOMAIN HooksOf[t] : HooksOf[t][k] = h /\ IsBudgetAt(t, k) /\ MayHold(t, k)

Holders(h) == {t \in Tasks : HoldsOf(t, h)}

\* A hook counts no more grants than there are dispatches that may hold one.
HoldersCover == \A h \in Hooks : reserved[h] <= Cardinality(Holders(h))

\* The only steps after which a grant is no longer held.
GivesBack(t) == ReleaseNone(t) \/ ReleaseTake(t)

LEMMA OutcomeAt ==
  ASSUME NEW t, NEW i
  PROVE  HasOutcome(t, i) <=> OutcomesOf(trace[t], i) # {}
BY TraceIndices DEF HasOutcome, OutcomesOf

LEMMA StillHold ==
  ASSUME NEW s \in Tasks, StandsStill(s)
  PROVE  \A k : MayHold(s, k)' <=> MayHold(s, k)
BY DEF StandsStill, MayHold, Admitted, CutShort, HasOutcome, Indices

\* Once an invocation ends, or all its callbacks are made, nothing is dropped
\* from what is held but at the budget hook called back.
LEMMA HoldKeeps ==
  ASSUME ControlInv, NEW t \in Tasks, Run(t) \/ Cancel(t),
         NEW k \in DOMAIN HooksOf[t], IsBudgetAt(t, k), MayHold(t, k),
         ~(GivesBack(t) /\ k = pos[t])
  PROVE  MayHold(t, k)'
<1> DEFINE n == Len(HooksOf[t])
<1>1. /\ n \in Nat /\ k \in 1 .. n /\ LocalTypes /\ Control(t) /\ Traced(t) /\ Moves(t)
      /\ pos[t] \in Nat \ {0} /\ upto[t] \in Nat /\ pc[t] \in PCs
  BY LineUps, StepMoves DEF ControlInv, LocalTypes
<1>2. CASE DecideStep(t)
  <2>1. PICK e \in Events : \/ GoesOn(t, Grow(trace[t], e))
                            \/ StartsTool(t, Grow(trace[t], e))
                            \/ CallsBack(t, Grow(trace[t], e), 1, n)
    BY <1>1, <1>2, DecideFacts DEF DecideStep
  <2>2. pc[t] \in {"before", "count"} /\ k < pos[t]
    BY <1>2 DEF DecideStep, MayHold, Admitted, CutShort
  <2> QED BY <1>1, <2>1, <2>2 DEF GoesOn, StartsTool, CallsBack, MayHold, Admitted
<1>3. CASE ToolStep(t)
  BY <1>1, <1>3 DEF ToolStep, Enters, CallsBack, MayHold
<1>4. CASE FailStep(t)
  <2>1. k < pos[t]
    BY <1>4 DEF FailStep, MayHold, Admitted, CutShort
  <2>2. CallsBack(t, trace'[t], 1, pos[t] - 1)
    BY <1>1, <1>4, <2>1 DEF FailStep, Enters, CallsBack
  <2> QED BY <1>1, <2>1, <2>2 DEF CallsBack, MayHold
<1>5. CASE ReleaseNone(t) \/ ReleaseGive(t) \/ PlainCallback(t)
  <2>1. CallbackStep(t)
    BY <1>1, <1>5, CallbackSteps
  <2>2. PICK e \in Events : IF pos[t] = upto[t] THEN Ends(t, Grow(trace[t], e))
                            ELSE CallsBack(t, Grow(trace[t], e), pos[t] + 1, upto[t])
    BY <1>1, <2>1, CallbackFacts DEF CallbackStep
  <2>3. pos[t] <= k /\ k <= upto[t]
    BY <1>1, <2>1 DEF CallbackStep, InLoop, MayHold, Admitted, CutShort
  <2>4. k # pos[t]
    <3>1. CASE ReleaseNone(t)
      BY <3>1 DEF GivesBack
    <3>2. CASE ReleaseGive(t)
      BY <1>1, <3>2 DEF ReleaseGive, MayHold, Admitted, CutShort
    <3>3. CASE PlainCallback(t)
      BY <3>3 DEF PlainCallback, IsBudgetAt, Hook
    <3> QED BY <1>5, <3>1, <3>2, <3>3
  <2>5. CallsBack(t, Grow(trace[t], e), pos[t] + 1, upto[t])
    BY <1>1, <2>2, <2>3, <2>4
  <2> QED BY <1>1, <2>3, <2>4, <2>5 DEF CallsBack, MayHold
<1>6. CASE BudgetGrant(t) \/ ReleaseTake(t)
  <2>1. /\ UNCHANGED <<pos[t], upto[t]>>
        /\ \/ pc[t] = "before" /\ pc'[t] = "count"
           \/ ReleaseTake(t) /\ pc[t] \in {"after", "cleanup"} /\ pc'[t] \in {"after_give", "cleanup_give"}
    BY <1>1, <1>6 DEF BudgetGrant, ReleaseTake, InCallbacks, LocalTypes
  <2>2. CASE pc[t] = "before"
    BY <2>1, <2>2 DEF MayHold, Admitted, CutShort
  <2>3. CASE ReleaseTake(t) /\ pc[t] \in {"after", "cleanup"}
    <3>1. pos[t] <= k /\ k <= upto[t] /\ k # pos[t]
      BY <2>3 DEF MayHold, Admitted, CutShort, GivesBack
    <3> QED BY <1>1, <2>1, <2>3, <3>1 DEF MayHold
  <2> QED BY <2>1, <2>2, <2>3
<1>7. CASE CallbackFail(t) \/ Cancel(t)
  <2>1. /\ pc'[t] \in {"err", "cancelled"} /\ UNCHANGED <<inv[t], trace[t]>>
        /\ pc'[t] = "err" => InLoop(t)
    BY <1>1, <1>7 DEF CallbackFail, Cancel, InCallbacks, InLoop, LocalTypes
  <2>2. InLoop(t) => OutcomesOf(trace[t], inv[t]) = {}
    BY <1>1 DEF Traced, Present, InMiddle
  <2>3. pc'[t] = "err" => OutcomesOf(trace'[t], inv'[t]) = {}
    BY <2>1, <2>2
  <2>4. pc'[t] = "err" => ~HasOutcome(t, inv[t])'
    BY <2>3 DEF HasOutcome, Indices, OutcomesOf, IndicesIn
  <2> QED BY <2>1, <2>4 DEF MayHold, CutShort
<1>8. \/ DecideStep(t) \/ ToolStep(t) \/ FailStep(t)
      \/ ReleaseNone(t) \/ ReleaseGive(t) \/ PlainCallback(t)
      \/ BudgetGrant(t) \/ ReleaseTake(t) \/ CallbackFail(t) \/ Cancel(t)
  BY <1>1, DecideSteps, ToolSteps, FailSteps DEF Run
<1> QED BY <1>2, <1>3, <1>4, <1>5, <1>6, <1>7, <1>8

\* The steps that change what hooks count.
LEMMA ReservedSteps ==
  ASSUME NEW t \in Tasks, Run(t) \/ Cancel(t)
  PROVE  BudgetCount(t) \/ ReleaseTake(t) \/ reserved' = reserved
BY DEF Run, BudgetGrant, BudgetDeny, StuckCount, PolicyDecide, BeforeFail, ToolOk, ToolFail,
       ReleaseNone, ReleaseGive, PlainCallback, CallbackFail, Cancel, SharedUnchanged

LEMMA HookTypes ==
  ASSUME ControlInv, NEW t \in Tasks, pc[t] = "count" \/ InLoop(t)
  PROVE  pos[t] \in DOMAIN HooksOf[t] /\ Hook(t) \in Hooks /\ HooksOf[t][pos[t]] = Hook(t)
BY LineUps DEF ControlInv, Control, InLoop, Hook, LocalTypes

LEMMA HoldersFinite ==
  ASSUME NEW h
  PROVE  /\ Holders(h) \in SUBSET Tasks /\ Cardinality(Holders(h)) \in Nat
         /\ Holders(h)' \in SUBSET Tasks /\ Cardinality(Holders(h)') \in Nat
BY FiniteAssumption, FS_Subset, FS_CardinalityType DEF Holders

LEMMA HoldersStep ==
  ASSUME ControlInv, GuardInv, GuardInv', OneBudgetEach, HoldersCover,
         NEW t \in Tasks, Run(t) \/ Cancel(t)
  PROVE  HoldersCover'
<1> SUFFICES ASSUME NEW h \in Hooks
             PROVE  reserved'[h] <= Cardinality(Holders(h)')
  BY DEF HoldersCover
<1>1. Moves(t)
  BY StepMoves
<1>2. Holders(h) \ {t} = Holders(h)' \ {t}
  BY <1>1, StillHold DEF Moves, Holders, HoldsOf, IsBudgetAt
<1>3. /\ Cardinality(Holders(h)) \in Nat /\ Cardinality(Holders(h)') \in Nat
      /\ Cardinality(Holders(h)') + (IF t \in Holders(h) THEN 1 ELSE 0)
           = Cardinality(Holders(h)) + (IF t \in Holders(h)' THEN 1 ELSE 0)
  BY <1>2, HoldersFinite, SetStep, FiniteAssumption
<1>4. /\ reserved \in [Hooks -> Nat] /\ reserved' \in [Hooks -> Nat]
      /\ reserved[h] \in Nat /\ reserved'[h] \in Nat /\ reserved[h] <= Cardinality(Holders(h))
  BY DEF GuardInv, HoldersCover
<1>5. ASSUME ~(GivesBack(t) /\ h = Hook(t)), t \in Holders(h)
      PROVE  t \in Holders(h)'
  <2>1. PICK k \in DOMAIN HooksOf[t] : HooksOf[t][k] = h /\ IsBudgetAt(t, k) /\ MayHold(t, k)
    BY <1>5 DEF Holders, HoldsOf
  <2>2. ~(GivesBack(t) /\ k = pos[t])
    BY <1>5, <2>1 DEF Hook
  <2>3. MayHold(t, k)'
    BY <2>1, <2>2, HoldKeeps
  <2> QED BY <2>1, <2>3 DEF Holders, HoldsOf, IsBudgetAt
<1>6. CASE BudgetCount(t) /\ h = Hook(t)
  <2>1. /\ pc[t] = "count" /\ pos[t] \in DOMAIN HooksOf[t] /\ IsBudgetAt(t, pos[t])
        /\ HooksOf[t][pos[t]] = h /\ pos[t] \in Nat
    BY <1>6, HookTypes DEF BudgetCount, ControlInv, Control, IsBudgetAt, LocalTypes
  <2>2. t \notin Holders(h)
    <3> SUFFICES ASSUME t \in Holders(h) PROVE FALSE
      OBVIOUS
    <3>1. PICK k \in DOMAIN HooksOf[t] : IsBudgetAt(t, k) /\ MayHold(t, k)
      BY DEF Holders, HoldsOf
    <3>2. k = pos[t]
      BY <2>1, <3>1 DEF OneBudgetEach
    <3> QED BY <2>1, <3>1, <3>2 DEF MayHold, Admitted, CutShort
  <2>3. t \in Holders(h)'
    <3>1. PICK e \in Events : GoesOn(t, Grow(trace[t], e)) \/ StartsTool(t, Grow(trace[t], e))
      BY <1>6, <2>1, DecideFacts DEF BudgetCount, ControlInv
    <3>2. pc'[t] = "tool" \/ (pc'[t] = "before" /\ pos[t] < pos'[t])
      BY <2>1, <3>1 DEF GoesOn, StartsTool
    <3> QED BY <2>1, <3>2 DEF Holders, HoldsOf, IsBudgetAt, MayHold, Admitted
  <2>4. reserved'[h] = reserved[h] + 1
    BY <1>4, <1>6 DEF BudgetCount
  <2> QED BY <1>3, <1>4, <2>2, <2>3, <2>4
<1>7. CASE ReleaseTake(t) /\ h = Hook(t)
  <2>1. reserved'[h] = reserved[h] - 1
    BY <1>4, <1>7 DEF ReleaseTake
  <2> QED BY <1>3, <1>4, <2>1
<1>8. CASE ReleaseNone(t) /\ h = Hook(t)
  <2>1. reserved'[h] = 0
    BY <1>8 DEF ReleaseNone, SharedUnchanged
  <2> QED BY <1>3, <2>1
<1>9. CASE ~(BudgetCount(t) /\ h = Hook(t)) /\ ~(GivesBack(t) /\ h = Hook(t))
  <2>1. reserved'[h] = reserved[h]
    BY <1>4, <1>9, ReservedSteps DEF GivesBack, BudgetCount, ReleaseTake
  <2>2. t \in Holders(h) => t \in Holders(h)'
    BY <1>5, <1>9
  <2> QED BY <1>3, <1>4, <2>1, <2>2
<1> QED BY <1>6, <1>7, <1>8, <1>9 DEF GivesBack

LEMMA HoldersInvariance == OneBudgetEach => (Spec => []HoldersCover)
<1> SUFFICES ASSUME OneBudgetEach PROVE Spec => []HoldersCover
  OBVIOUS
<1>1. Init => HoldersCover
  BY HoldersFinite DEF Init, HoldersCover
<1>2. ControlInv /\ GuardInv /\ HoldersCover /\ [Next]_vars /\ GuardInv' => HoldersCover'
  <2>1. ASSUME HoldersCover, UNCHANGED vars PROVE HoldersCover'
    <3>1. \A s \in Tasks : StandsStill(s)
      BY <2>1 DEF vars, StandsStill
    <3>2. \A s \in Tasks, h \in Hooks : HoldsOf(s, h)' <=> HoldsOf(s, h)
      BY <3>1, StillHold DEF HoldsOf, IsBudgetAt
    <3>3. \A h \in Hooks : Holders(h)' = Holders(h) /\ reserved'[h] = reserved[h]
      BY <2>1, <3>2 DEF Holders, vars
    <3> QED BY <2>1, <3>3 DEF HoldersCover
  <2> QED BY <2>1, HoldersStep DEF Next
<1> QED BY <1>1, <1>2, GuardInvariance, PTL DEF Spec

\* When every dispatch has returned, only those cut short leave a unit behind,
\* and each at most its own: also when dispatches share their budget hooks, as
\* long as no line-up has two.
THEOREM LeaksAreBounded == OneBudgetEach => (Spec => []LeakBound)
<1> SUFFICES ASSUME OneBudgetEach PROVE Spec => []LeakBound
  OBVIOUS
<1>1. ControlInv /\ GuardInv /\ HoldersCover => LeakBound
  <2> SUFFICES ASSUME ControlInv, GuardInv, HoldersCover, \A t \in Tasks : Ended(t)
               PROVE  Capacity - available <= Cost * Cardinality({t \in Tasks : CutShort(t)})
    BY DEF LeakBound
  <2> DEFINE T == {t \in Tasks : CutShort(t)}
             P == [h \in Hooks |-> Holders(h)]
  <2>1. IsFiniteSet(T) /\ Cardinality(T) \in Nat
    BY FiniteAssumption, FS_Subset, FS_CardinalityType
  <2>2. P \in [Hooks -> SUBSET T]
    <3>1. ASSUME NEW h \in Hooks, NEW t \in Holders(h) PROVE t \in T
      BY <3>1 DEF Holders, HoldsOf, MayHold, Admitted, Ended
    <3> QED BY <3>1
  <2>3. \A g, h \in Hooks : g # h => P[g] \cap P[h] = {}
    <3>1. ASSUME NEW g \in Hooks, NEW h \in Hooks, NEW t \in Holders(g) \cap Holders(h)
          PROVE  g = h
      <4>1. PICK k \in DOMAIN HooksOf[t] : HooksOf[t][k] = g /\ IsBudgetAt(t, k)
        BY DEF Holders, HoldsOf
      <4>2. PICK l \in DOMAIN HooksOf[t] : HooksOf[t][l] = h /\ IsBudgetAt(t, l)
        BY DEF Holders, HoldsOf
      <4>3. t \in Tasks
        BY DEF Holders
      <4> QED BY <4>1, <4>2, <4>3 DEF OneBudgetEach
    <3> QED BY <3>1
  <2>4. reserved \in [Hooks -> Nat] /\ \A h \in Hooks : reserved[h] <= Cardinality(P[h])
    BY DEF GuardInv, HoldersCover
  <2> HIDE DEF T, P
  <2>5. SumFunction(reserved) <= Cardinality(T)
    BY <2>1, <2>2, <2>3, <2>4, SumOfParts, FiniteAssumption
  <2>6. InHand = {}
    BY DEF InHand, Hands, Ended
  <2>7. UnitsOut = SumFunction(reserved) /\ SumFunction(reserved) \in Nat
    BY <2>6, UnitsAre, FS_EmptySet
  <2>8. available + Cost * SumFunction(reserved) = Capacity /\ available \in Nat
    BY <2>7 DEF GuardInv, GuardBalanced
  <2>9. Cost * SumFunction(reserved) <= Cost * Cardinality(T)
    BY <2>1, <2>5, <2>7, CostMonotone
  <2>10. Cost * SumFunction(reserved) \in Nat /\ Cost * Cardinality(T) \in Nat
    BY <2>1, <2>7, CostTimes
  <2>11. Capacity - available <= Cost * Cardinality(T)
    BY <2>8, <2>9, <2>10
  <2> QED BY <2>11 DEF T
<1> QED BY <1>1, GuardInvariance, HoldersInvariance, PTL

----------------------------------------------------------------------------
(* Admission                                                               *)

LEMMA AdmittedStep ==
  ASSUME ControlInv, GuardInv, GuardInv', PrivateBudgets, AdmittedHold,
         NEW t \in Tasks, Run(t) \/ Cancel(t)
  PROVE  AdmittedHold'
<1> SUFFICES ASSUME NEW s \in Tasks, NEW k \in DOMAIN HooksOf[s], IsBudgetAt(s, k), Admitted(s, k)'
             PROVE  reserved'[HooksOf[s][k]] > 0
  BY DEF AdmittedHold, IsBudgetAt
<1> DEFINE h == HooksOf[s][k]
<1>1. /\ Moves(t) /\ LocalTypes /\ Control(t) /\ h \in Hooks /\ reserved[h] \in Nat
      /\ reserved \in [Hooks -> Nat] /\ k \in 1 .. Len(HooksOf[s]) /\ Len(HooksOf[s]) \in Nat
      /\ pos[t] \in Nat
  BY StepMoves, LineUps DEF ControlInv, GuardInv, LocalTypes
<1>2. CASE ReleaseTake(t)
  <2>1. pc[t] \in {"after", "cleanup"} /\ pc'[t] \in {"after_give", "cleanup_give"}
    BY <1>1, <1>2 DEF ReleaseTake, InCallbacks, LocalTypes
  <2>2. s # t
    BY <2>1 DEF Admitted
  <2>3. Admitted(s, k)
    BY <1>1, <2>2 DEF Moves, StandsStill, Admitted
  <2>4. pos[t] \in DOMAIN HooksOf[t] /\ Hook(t) = HooksOf[t][pos[t]]
    BY <2>1, HookTypes DEF InLoop
  <2>5. h # Hook(t)
    BY <2>2, <2>4 DEF PrivateBudgets
  <2>6. reserved'[h] = reserved[h]
    BY <1>1, <1>2, <2>5 DEF ReleaseTake
  <2> QED BY <2>3, <2>6 DEF AdmittedHold
<1>3. CASE ~ReleaseTake(t)
  <2>1. reserved'[h] >= reserved[h]
    BY <1>1, <1>3, ReservedSteps DEF BudgetCount
  <2>2. CASE Admitted(s, k)
    BY <1>1, <2>1, <2>2 DEF AdmittedHold, GuardInv
  <2>3. CASE ~Admitted(s, k)
    <3>1. s = t
      BY <1>1, <2>3 DEF Moves, StandsStill, Admitted
    <3>2. DecideStep(t)
      <4>1. CASE CallbackStep(t)
        BY <1>1, <3>1, <4>1, CallbackFacts DEF CallbackStep, Ends, CallsBack, Admitted
      <4>2. CASE ToolStep(t) \/ FailStep(t)
        BY <1>1, <3>1, <4>2 DEF ToolStep, FailStep, Enters, Ends, CallsBack, Admitted
      <4>3. CASE PlaceStep(t)
        BY <1>1, <2>3, <3>1, <4>3 DEF PlaceStep, OnlyPlace, LocalTypes, Admitted, InLoop
      <4> QED BY <4>1, <4>2, <4>3, StepMoves
    <3>3. PICK d \in {"Continue", "Skip", "Terminate"} : pc[t] \in {"before", "count"} /\ Decide(t, d)
      BY <3>2 DEF DecideStep
    <3>4. PICK e \in Events : \/ GoesOn(t, Grow(trace[t], e))
                              \/ StartsTool(t, Grow(trace[t], e))
                              \/ CallsBack(t, Grow(trace[t], e), 1, Len(HooksOf[t]))
      BY <1>1, <3>3, DecideFacts
    <3>5. k = pos[t] /\ pc'[t] \notin {"after", "cleanup"}
      BY <1>1, <2>3, <3>1, <3>3, <3>4 DEF GoesOn, StartsTool, CallsBack, Admitted
    <3>6. Kind[Hook(t)] = "budget" /\ Hook(t) = h
      BY <3>1, <3>5 DEF IsBudgetAt, Hook
    <3>7. BudgetCount(t)
      <4>1. ~StuckCount(t) /\ ~(\E c \in Decisions : PolicyDecide(t, c))
            /\ ~PlainCallback(t) /\ ~CallbackFail(t)
        BY <3>6 DEF StuckCount, PolicyDecide, PlainCallback, CallbackFail
      <4>2. ~BudgetDeny(t)
        <5> SUFFICES ASSUME BudgetDeny(t) PROVE FALSE
          OBVIOUS
        <5>1. Decide(t, "Terminate") /\ pc[t] = "before"
          BY DEF BudgetDeny
        <5>2. \E f \in Events : CallsBack(t, Grow(trace[t], f), 1, Len(HooksOf[t]))
          BY <1>1, <5>1, DecideFacts
        <5> QED BY <3>5, <5>2 DEF CallsBack
      <4>3. ~BudgetGrant(t) /\ ~Cancel(t)
        BY <1>1, <2>3, <3>1 DEF BudgetGrant, Cancel, Admitted, LocalTypes
      <4>5. ~BeforeFail(t)
        <5> SUFFICES ASSUME BeforeFail(t) PROVE FALSE
          OBVIOUS
        <5>1. pc'[t] \in {"cleanup", "err"}
          BY <1>1 DEF BeforeFail, StartCallbacks, Finish, LocalTypes
        <5> QED BY <3>4, <3>5, <5>1 DEF GoesOn, StartsTool, CallsBack
      <4>4. ~ToolOk(t) /\ ~ToolFail(t) /\ ~ReleaseNone(t) /\ ~ReleaseGive(t)
        BY <3>3 DEF ToolOk, ToolFail, ReleaseNone, ReleaseGive, InCallbacks
      <4> QED BY <1>3, <4>1, <4>2, <4>3, <4>4, <4>5 DEF Run
    <3>8. reserved'[h] = reserved[h] + 1
      BY <1>1, <3>6, <3>7 DEF BudgetCount
    <3> QED BY <1>1, <3>8
  <2> QED BY <2>2, <2>3
<1> QED BY <1>2, <1>3

LEMMA AdmittedInvariance == PrivateBudgets => (Spec => []AdmittedHold)
<1> SUFFICES ASSUME PrivateBudgets PROVE Spec => []AdmittedHold
  OBVIOUS
<1>1. Init => AdmittedHold
  <2> SUFFICES ASSUME Init, NEW t \in Tasks, NEW k \in DOMAIN HooksOf[t] PROVE ~Admitted(t, k)
    BY DEF AdmittedHold
  <2>1. /\ pc[t] = EntryOf(t, 1) /\ pos[t] = 1 /\ k \in 1 .. Len(HooksOf[t])
        /\ Len(HooksOf[t]) \in Nat
    BY LineUps DEF Init
  <2>2. pc[t] # "tool"
    BY <2>1, EntryFacts
  <2> QED BY <2>1, <2>2 DEF Admitted
<1>2. ControlInv /\ GuardInv /\ AdmittedHold /\ [Next]_vars /\ GuardInv' => AdmittedHold'
  <2>1. ASSUME AdmittedHold, UNCHANGED vars PROVE AdmittedHold'
    BY <2>1 DEF vars, AdmittedHold, IsBudgetAt, Admitted
  <2> QED BY <2>1, AdmittedStep DEF Next
<1> QED BY <1>1, <1>2, GuardInvariance, PTL DEF Spec

\* With budget hooks of their own, dispatches never run more tool bodies behind
\* them at once than the guard has room for.
THEOREM AdmissionIsBounded == PrivateBudgets => (Spec => []AdmissionBound)
<1> SUFFICES ASSUME PrivateBudgets PROVE Spec => []AdmissionBound
  OBVIOUS
<1>1. GuardInv /\ AdmittedHold => AdmissionBound
  <2> SUFFICES ASSUME GuardInv, AdmittedHold PROVE AdmissionBound
    OBVIOUS
  <2> DEFINE A == {t \in Tasks : pc[t] = "tool" /\ HasBudgetHook(t)}
             B == {h \in Hooks : reserved[h] > 0}
             at(t) == CHOOSE k \in DOMAIN HooksOf[t] : Kind[HooksOf[t][k]] = "budget"
             f == [t \in A |-> HooksOf[t][at(t)]]
  <2>1. ASSUME NEW t \in A
        PROVE  /\ at(t) \in DOMAIN HooksOf[t] /\ IsBudgetAt(t, at(t))
               /\ f[t] = HooksOf[t][at(t)] /\ f[t] \in B
    <3>1. \E k \in DOMAIN HooksOf[t] : Kind[HooksOf[t][k]] = "budget"
      BY DEF HasBudgetHook
    <3>2. at(t) \in DOMAIN HooksOf[t] /\ Kind[HooksOf[t][at(t)]] = "budget"
      BY <3>1
    <3> HIDE DEF at
    <3>3. f[t] = HooksOf[t][at(t)] /\ f[t] \in Hooks
      BY <3>2, LineUps
    <3>4. IsBudgetAt(t, at(t)) /\ Admitted(t, at(t))
      BY <3>2 DEF IsBudgetAt, Admitted
    <3> QED BY <3>2, <3>3, <3>4 DEF AdmittedHold
  <2> HIDE DEF at
  <2>2. f \in Injection(A, B)
    <3>1. f \in [A -> B]
      BY <2>1
    <3>2. ASSUME NEW t \in A, NEW s \in A, f[t] = f[s] PROVE t = s
      BY <2>1, <3>2 DEF PrivateBudgets
    <3> QED BY <3>1, <3>2 DEF Injection, IsInjective
  <2>3. IsFiniteSet(B) /\ Cardinality(B) \in Nat
    BY FiniteAssumption, FS_Subset, FS_CardinalityType
  <2> HIDE DEF A, f
  <2>4. Cardinality(A) <= Cardinality(B) /\ Cardinality(A) \in Nat
    BY <2>2, <2>3, FS_Injection, FS_CardinalityType
  <2>5. Cardinality(B) <= SumFunction(reserved)
    BY FiniteAssumption, SumBounds DEF GuardInv
  <2>6. Cardinality(A) <= UnitsOut /\ UnitsOut \in Nat
    BY <2>3, <2>4, <2>5, UnitsAre
  <2>7. Cost * Cardinality(A) <= Cost * UnitsOut
    BY <2>4, <2>6, CostMonotone
  <2>8. Cost * UnitsOut <= Capacity
    BY <2>6, CostTimes, BudgetAssumption DEF GuardInv, GuardBalanced
  <2>9. Cost * Cardinality(A) \in Nat /\ Cost * UnitsOut \in Nat /\ Capacity \in Nat
    BY <2>4, <2>6, CostTimes, BudgetAssumption
  <2>10. Cost * Cardinality(A) <= Capacity
    BY <2>7, <2>8, <2>9
  <2> QED BY <2>10 DEF AdmissionBound, A
<1> QED BY <1>1, GuardInvariance, AdmittedInvariance, PTL

----------------------------------------------------------------------------
(* Identical calls                                                         *)

StuckTypes == counts \in [Hooks -> [Fingerprints -> Nat]] /\ ran \in [Fingerprints -> Nat]

\* Stuck-loop hook h is in every line-up.
Everywhere(h) ==
  Kind[h] = "stuck" /\ \A t \in Tasks : \E k \in DOMAIN HooksOf[t] : HooksOf[t][k] = h

\* Dispatch t is on its way to the tool with fingerprint f, and h has let it pass.
HasPassed(t, h, f) ==
  /\ pc[t] \in {"before", "count"} /\ Call(t) = f
  /\ \E k \in DOMAIN HooksOf[t] : HooksOf[t][k] = h /\ k < pos[t]

Passed(h, f) == {t \in Tasks : HasPassed(t, h, f)}

\* Bodies run, and those h has let pass, have been counted by h and are within
\* the limit.
StuckInv ==
  /\ StuckTypes
  /\ \A h \in Hooks, f \in Fingerprints : Everywhere(h) =>
       /\ ran[f] + Cardinality(Passed(h, f)) <= counts[h][f]
       /\ ran[f] + Cardinality(Passed(h, f)) <= MaxIdentical

One(b) == IF b THEN 1 ELSE 0

LEMMA StillPassed ==
  ASSUME NEW s \in Tasks, StandsStill(s)
  PROVE  \A h, f : HasPassed(s, h, f)' <=> HasPassed(s, h, f)
BY DEF StandsStill, HasPassed, Call

LEMMA PassedFinite ==
  ASSUME NEW h, NEW f
  PROVE  /\ Passed(h, f) \in SUBSET Tasks /\ Cardinality(Passed(h, f)) \in Nat
         /\ Passed(h, f)' \in SUBSET Tasks /\ Cardinality(Passed(h, f)') \in Nat
BY FiniteAssumption, FS_Subset, FS_CardinalityType DEF Passed

\* Bodies start, and calls are let pass, only where a hook decides.
LEMMA OnlyDecidersPass ==
  ASSUME ControlInv, NEW t \in Tasks, Run(t) \/ Cancel(t), ~DecideStep(t)
  PROVE  /\ counts' = counts /\ ran' = ran
         /\ \A h, f : HasPassed(t, h, f)' => HasPassed(t, h, f)
<1>1. counts' = counts /\ ran' = ran
  <2>1. ~ (\/ BudgetCount(t) \/ BudgetDeny(t) \/ StuckCount(t)
           \/ \E d \in Decisions : PolicyDecide(t, d))
    BY DecideSteps
  <2> QED BY <2>1 DEF Run, BudgetGrant, BeforeFail, ToolOk, ToolFail, ReleaseNone, ReleaseTake,
                      ReleaseGive, PlainCallback, CallbackFail, Cancel, SharedUnchanged
<1>2. /\ LocalTypes /\ Control(t) /\ pos[t] \in Nat
      /\ CallbackStep(t) \/ PlaceStep(t) \/ ToolStep(t) \/ FailStep(t)
  BY StepMoves DEF ControlInv, LocalTypes
<1>3. CASE \E tr : Ends(t, tr)
  <2>1. pc'[t] \in {"ok", "before", "tool", "err"} /\ pos'[t] = 1
    BY <1>3 DEF Ends
  <2> QED BY <1>1, <2>1, LineUps DEF HasPassed
<1>4. CASE \E tr, p, m : CallsBack(t, tr, p, m)
  BY <1>1, <1>4 DEF CallsBack, HasPassed
<1>5. CASE CallbackStep(t)
  BY <1>2, <1>3, <1>4, <1>5, CallbackFacts DEF CallbackStep
<1>6. CASE PlaceStep(t)
  BY <1>1, <1>2, <1>6 DEF PlaceStep, OnlyPlace, LocalTypes, HasPassed, Call
<1>7. CASE ToolStep(t) \/ FailStep(t)
  BY <1>3, <1>4, <1>7 DEF ToolStep, FailStep, Enters
<1> QED BY <1>2, <1>5, <1>6, <1>7

\* Where hook h does not count this call, what h has let pass only moves on.
LEMMA OthersDecide ==
  ASSUME ControlInv, StuckTypes, NEW t \in Tasks, DecideStep(t),
         NEW h \in Hooks, NEW f \in Fingerprints, Everywhere(h), Hook(t) # h \/ Call(t) # f
  PROVE  ran'[f] + One(HasPassed(t, h, f)') <= ran[f] + One(HasPassed(t, h, f))
<1> DEFINE n == Len(HooksOf[t])
<1>1. PICK e \in Events : \/ GoesOn(t, Grow(trace[t], e))
                          \/ StartsTool(t, Grow(trace[t], e))
                          \/ CallsBack(t, Grow(trace[t], e), 1, n) /\ UNCHANGED ran
  BY DecideFacts DEF DecideStep, ControlInv
<1>2. /\ pos[t] \in 1 .. n /\ n \in Nat /\ DOMAIN HooksOf[t] = 1 .. n
      /\ pc[t] \in {"before", "count"} /\ ran[f] \in Nat /\ ran \in [Fingerprints -> Nat]
  BY LineUps DEF ControlInv, LocalTypes, Control, DecideStep, StuckTypes
<1>3. CASE GoesOn(t, Grow(trace[t], e))
  <2>1. HasPassed(t, h, f)' => HasPassed(t, h, f)
    BY <1>2, <1>3 DEF GoesOn, HasPassed, Call, Hook
  <2> QED BY <1>2, <1>3, <2>1 DEF GoesOn, One
<1>4. CASE StartsTool(t, Grow(trace[t], e))
  <2>1. ~HasPassed(t, h, f)'
    BY <1>4 DEF StartsTool, HasPassed
  <2>2. CASE Call(t) = f
    <3>1. PICK k \in 1 .. n : HooksOf[t][k] = h
      BY <1>2 DEF Everywhere
    <3>2. HasPassed(t, h, f)
      BY <1>2, <1>4, <2>2, <3>1 DEF StartsTool, HasPassed, Hook
    <3>3. ran'[f] = ran[f] + 1
      BY <1>2, <1>4, <2>2 DEF StartsTool
    <3> QED BY <1>2, <2>1, <3>2, <3>3 DEF One
  <2>3. CASE Call(t) # f
    <3>1. ran'[f] = ran[f]
      BY <1>2, <1>4, <2>3 DEF StartsTool
    <3> QED BY <1>2, <2>1, <3>1 DEF One
  <2> QED BY <2>2, <2>3
<1>5. CASE CallsBack(t, Grow(trace[t], e), 1, n) /\ UNCHANGED ran
  <2>1. ~HasPassed(t, h, f)'
    BY <1>5 DEF CallsBack, HasPassed
  <2> QED BY <1>2, <1>5, <2>1 DEF One
<1> QED BY <1>1, <1>3, <1>4, <1>5

\* Where h counts the call: past the limit nothing passes, otherwise one more.
LEMMA CountedDecide ==
  ASSUME ControlInv, StuckTypes, NEW t \in Tasks, StuckCount(t),
         NEW h, NEW f, h = Hook(t), f = Call(t)
  PROVE  /\ counts'[h][f] = counts[h][f] + 1
         /\ \/ ran'[f] + One(HasPassed(t, h, f)') <= ran[f] + One(HasPassed(t, h, f))
            \/ /\ counts'[h][f] <= MaxIdentical
               /\ ran'[f] + One(HasPassed(t, h, f)') <= ran[f] + One(HasPassed(t, h, f)) + 1
<1> DEFINE n == Len(HooksOf[t])
           c == counts[h][f] + 1
           d == StuckDecision(c)
<1>1. /\ LocalTypes /\ Control(t) /\ pc[t] = "before" /\ Decide(t, d)
      /\ counts' = [counts EXCEPT ![h][f] = @ + 1]
  BY DEF ControlInv, StuckCount
<1>2. h \in Hooks /\ f \in Fingerprints
  <2>1. pos[t] \in 1 .. n /\ inv[t] \in 1 .. Len(Calls[t])
    BY <1>1, LineUps DEF LocalTypes, Control
  <2> QED BY <2>1, LineUps DEF Hook, Call
<1>3. /\ ran[f] \in Nat /\ ran \in [Fingerprints -> Nat] /\ counts[h][f] \in Nat
      /\ counts'[h][f] = counts[h][f] + 1
  BY <1>1, <1>2 DEF StuckTypes
<1>4. d \in {"Continue", "Skip", "Terminate"}
  BY DEF StuckDecision
<1> HIDE DEF d
<1>5. PICK e \in Events :
        IF d = "Continue" THEN GoesOn(t, Grow(trace[t], e)) \/ StartsTool(t, Grow(trace[t], e))
        ELSE CallsBack(t, Grow(trace[t], e), 1, n) /\ UNCHANGED ran
  BY <1>1, <1>4, DecideFacts
<1>6. CASE d = "Continue"
  <2>1. counts'[h][f] <= MaxIdentical
    BY <1>3, <1>6, StuckAssumption DEF d, StuckDecision
  <2>2. CASE GoesOn(t, Grow(trace[t], e))
    <3>1. ran'[f] = ran[f]
      BY <2>2 DEF GoesOn
    <3>2. One(HasPassed(t, h, f)') \in 0 .. 1 /\ One(HasPassed(t, h, f)) \in 0 .. 1
      BY DEF One
    <3> QED BY <1>3, <2>1, <3>1, <3>2
  <2>3. CASE StartsTool(t, Grow(trace[t], e))
    <3>1. ran'[f] = ran[f] + 1 /\ ~HasPassed(t, h, f)'
      BY <1>2, <1>3, <2>3 DEF StartsTool, HasPassed
    <3> QED BY <1>2, <1>3, <2>1, <3>1 DEF One
  <2> QED BY <1>5, <1>6, <2>2, <2>3
<1>7. CASE d # "Continue"
  <2>1. ~HasPassed(t, h, f)' /\ ran'[f] = ran[f]
    BY <1>5, <1>7 DEF CallsBack, HasPassed
  <2> QED BY <1>2, <1>3, <2>1 DEF One
<1> QED BY <1>6, <1>7

LEMMA CountsSteps ==
  ASSUME NEW t \in Tasks, Run(t) \/ Cancel(t)
  PROVE  StuckCount(t) \/ counts' = counts
BY DEF Run, BudgetGrant, BudgetCount, BudgetDeny, PolicyDecide, BeforeFail, ToolOk, ToolFail,
       ReleaseNone, ReleaseTake, ReleaseGive, PlainCallback, CallbackFail, Cancel, SharedUnchanged

\* At a stuck-loop hook nothing but its count decides.
LEMMA OnlyStuckDecides ==
  ASSUME ControlInv, NEW t \in Tasks, Run(t) \/ Cancel(t),
         pc[t] \in {"before", "count"}, Kind[Hook(t)] = "stuck"
  PROVE  StuckCount(t)
<1>1. pc[t] = "before"
  BY DEF ControlInv, Control
<1> QED BY <1>1 DEF Run, BudgetGrant, BudgetCount, BudgetDeny, PolicyDecide, BeforeFail, ToolOk,
                    ToolFail, ReleaseNone, ReleaseTake, ReleaseGive, PlainCallback, CallbackFail,
                    Cancel, InCallbacks

LEMMA StuckStep ==
  ASSUME ControlInv, StuckInv, NEW t \in Tasks, Run(t) \/ Cancel(t)
  PROVE  StuckInv'
<1>1. Moves(t) /\ StuckTypes
  BY StepMoves DEF StuckInv
<1>2. StuckTypes'
  <2>1. CASE ~DecideStep(t)
    BY <1>1, <2>1, OnlyDecidersPass DEF StuckTypes
  <2>2. CASE DecideStep(t)
    <3>1. ran' \in [Fingerprints -> Nat]
      <4>1. PICK e \in Events : \/ GoesOn(t, Grow(trace[t], e))
                                \/ StartsTool(t, Grow(trace[t], e))
                                \/ UNCHANGED ran
        BY <2>2, DecideFacts DEF DecideStep, ControlInv
      <4> QED BY <1>1, <4>1 DEF GoesOn, StartsTool, StuckTypes
    <3>2. counts' \in [Hooks -> [Fingerprints -> Nat]]
      BY <1>1, CountsSteps DEF StuckTypes, StuckCount
    <3> QED BY <3>1, <3>2 DEF StuckTypes
  <2> QED BY <2>1, <2>2
<1> SUFFICES ASSUME NEW h \in Hooks, NEW f \in Fingerprints, Everywhere(h)
             PROVE  /\ ran'[f] + Cardinality(Passed(h, f)') <= counts'[h][f]
                    /\ ran'[f] + Cardinality(Passed(h, f)') <= MaxIdentical
  BY <1>2 DEF StuckInv, Everywhere
<1>3. Passed(h, f) \ {t} = Passed(h, f)' \ {t}
  BY <1>1, StillPassed DEF Moves, Passed
<1>4. /\ t \in Passed(h, f) <=> HasPassed(t, h, f)
      /\ t \in Passed(h, f)' <=> HasPassed(t, h, f)'
  BY DEF Passed
<1>5. /\ Cardinality(Passed(h, f)) \in Nat /\ Cardinality(Passed(h, f)') \in Nat
      /\ Cardinality(Passed(h, f)') + One(HasPassed(t, h, f))
           = Cardinality(Passed(h, f)) + One(HasPassed(t, h, f)')
  BY <1>3, <1>4, PassedFinite, SetStep, FiniteAssumption DEF One
<1>6. /\ ran[f] \in Nat /\ ran'[f] \in Nat /\ counts[h][f] \in Nat /\ counts'[h][f] \in Nat
      /\ MaxIdentical \in Nat
      /\ ran[f] + Cardinality(Passed(h, f)) <= counts[h][f]
      /\ ran[f] + Cardinality(Passed(h, f)) <= MaxIdentical
  BY <1>1, <1>2, StuckAssumption DEF StuckInv, StuckTypes
<1>7. One(HasPassed(t, h, f)') \in Nat /\ One(HasPassed(t, h, f)) \in Nat
  BY DEF One
<1>8. \/ /\ counts'[h][f] >= counts[h][f]
         /\ ran'[f] + One(HasPassed(t, h, f)') <= ran[f] + One(HasPassed(t, h, f))
      \/ /\ counts'[h][f] = counts[h][f] + 1 /\ counts'[h][f] <= MaxIdentical
         /\ ran'[f] + One(HasPassed(t, h, f)') <= ran[f] + One(HasPassed(t, h, f)) + 1
  <2>1. CASE ~DecideStep(t)
    <3>1. counts' = counts /\ ran' = ran /\ (HasPassed(t, h, f)' => HasPassed(t, h, f))
      BY <2>1, OnlyDecidersPass
    <3> QED BY <1>6, <3>1 DEF One
  <2>2. CASE StuckCount(t) /\ Hook(t) = h /\ Call(t) = f
    BY <1>1, <1>6, <2>2, CountedDecide
  <2>3. CASE DecideStep(t) /\ (Hook(t) # h \/ Call(t) # f)
    <3>1. counts'[h][f] = counts[h][f]
      BY <1>1, <2>3, CountsSteps DEF StuckTypes, StuckCount
    <3> QED BY <1>1, <1>6, <2>3, <3>1, OthersDecide
  <2>4. DecideStep(t) => StuckCount(t) \/ Hook(t) # h
    BY OnlyStuckDecides DEF DecideStep, Everywhere
  <2> QED BY <2>1, <2>2, <2>3, <2>4
<1> QED BY <1>5, <1>6, <1>7, <1>8

LEMMA StuckInvariance == Spec => []StuckInv
<1>1. Init => StuckInv
  <2> SUFFICES ASSUME Init PROVE StuckInv
    OBVIOUS
  <2>1. StuckTypes
    BY DEF Init, StuckTypes
  <2>2. ASSUME NEW h, NEW f PROVE Passed(h, f) = {}
    <3> SUFFICES ASSUME NEW t \in Tasks PROVE ~HasPassed(t, h, f)
      BY DEF Passed
    <3> QED BY LineUps DEF Init, HasPassed
  <2>3. \A h \in Hooks, f \in Fingerprints : ran[f] = 0 /\ counts[h][f] = 0
    BY DEF Init
  <2>4. Cardinality({}) = 0 /\ 0 <= MaxIdentical
    BY StuckAssumption, FS_EmptySet
  <2> QED BY <2>1, <2>2, <2>3, <2>4 DEF StuckInv
<1>2. ControlInv /\ StuckInv /\ [Next]_vars => StuckInv'
  <2>1. ASSUME StuckInv, UNCHANGED vars PROVE StuckInv'
    BY <2>1, ZenonT(30) DEF vars, StuckInv, StuckTypes, Everywhere, Passed, HasPassed, Call
  <2> QED BY <2>1, StuckStep DEF Next
<1> QED BY <1>1, <1>2, ControlInvariance, PTL DEF Spec

\* A stuck-loop hook that is in every line-up never lets a fingerprint's body
\* run more than max_identical_calls times, over all dispatches together.
THEOREM IdenticalCallsAreBounded == Spec => []IdenticalCallsBounded
<1>1. StuckInv => IdenticalCallsBounded
  <2> SUFFICES ASSUME StuckInv, NEW h \in Hooks, Everywhere(h), NEW f \in Fingerprints
               PROVE  ran[f] <= MaxIdentical
    BY DEF IdenticalCallsBounded, Everywhere
  <2>1. /\ ran[f] \in Nat /\ MaxIdentical \in Nat /\ Cardinality(Passed(h, f)) \in Nat
        /\ ran[f] + Cardinality(Passed(h, f)) <= MaxIdentical
    BY StuckAssumption, PassedFinite DEF StuckInv, StuckTypes
  <2> QED BY <2>1
<1> QED BY <1>1, StuckInvariance, PTL
=============================================================================
