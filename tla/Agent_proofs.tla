---------------------------- MODULE Agent_proofs ----------------------------
(***************************************************************************)
(* What holds of an investigation for any agents, skills, rules, hooks and  *)
(* whitelists, and any depth of delegation.                                 *)
(***************************************************************************)
EXTENDS Agent, TLAPS, SequenceTheorems, WellFoundedInduction

Skills == DOMAIN Needs

Context ==
  [signals : SUBSET Signals, confidence : Int, pending : {"none", "hint", "conclude"}]

Kinds == {"none", "before_step", "before_skill(true)", "before_skill(false)", "after_skill",
          "after_step", "step_error"}

Events == [kind : Kinds, skill : Skills \cup {"none"}]

Resting == {"route", "consider", "execute", "done", "failed"}

Frames ==
  [agent : Agents, ctx : Context, pc : Resting \cup {"notify"}, then : Resting, event : Events,
   hook : Nat, log : [1 .. Hooks -> Seq(Events)], pos : Nat, called : BOOLEAN,
   run : Seq(Skills), skipped : Seq(Skills), refused : SUBSET Nat, concluded : BOOLEAN]

\* Where the step of a frame is, or will be when its hooks have been told.
Place(f) == IF f.pc = "notify" THEN f.then ELSE f.pc

\* What ties the locals of a step together.
Control(f) ==
  /\ f.pos >= 1
  /\ f.pc = "route" => ~ Generic(f)
  /\ f.pc = "notify" => f.hook \in 1 .. Hooks /\ f.then # "route"
  /\ Place(f) \in {"consider", "execute"} => Generic(f)
  /\ Place(f) = "execute" => f.pos \in 1 .. Len(Chain[f.agent])

\* The part of ConclusionIsLast that a step keeps: a skill announced to the
\* hooks is as good as started.
Concluded(f) ==
  Generic(f) /\ f.concluded /\ Short[f.agent] =>
    f.ctx.pending = "conclude" /\ Place(f) # "execute"

Agree(f) ==
  \A h \in 1 .. Hooks :
    f.log[h] = IF f.pc = "notify" /\ h < f.hook THEN Append(f.log[Hooks], f.event)
                                                ELSE f.log[Hooks]

\* What the hooks have been told, or will have been when the one told last has.
Story(f) == IF f.pc = "notify" THEN Append(f.log[Hooks], f.event) ELSE f.log[Hooks]

\* What may stand where in a story that leads to this place.
Ordered(log, p, place, chain, pos) ==
  /\ log[p].kind = "before_step" <=> p = 1
  /\ log[p].kind = "after_step" <=> p = Len(log) /\ place = "done"
  /\ log[p].kind = "step_error" <=> p = Len(log) /\ place = "failed"
  /\ log[p].kind = "before_skill(true)" <=>
       \/ p < Len(log) /\ log[p + 1].kind \in {"after_skill", "step_error"}
       \/ p = Len(log) /\ place = "execute"
  /\ log[p].kind = "after_skill" => log[p].skill = log[p - 1].skill
  /\ p = Len(log) /\ place = "execute" => log[p].skill = chain[pos]

\* A story that leads to this place and this position of the chain.
Account(log, place, chain, pos, ran) ==
  /\ Len(log) >= 1 /\ \A p \in 1 .. Len(log) : Ordered(log, p, place, chain, pos)
  /\ Lists(Names(log), Where(log, Considerings), chain,
           IF place \in {"execute", "failed"} THEN pos ELSE pos - 1)
  /\ Lists(Names(log), Where(log, {"after_skill"}), ran, Len(ran))

Accounted(f) ==
  Generic(f) => Account(Story(f), Place(f), Chain[f.agent], f.pos, f.run)

\* The skills before the one considered are dealt with; a step is only done when
\* that is all of them.
DealtWith(f) ==
  Generic(f) =>
    /\ f.pos <= Len(Chain[f.agent]) + 1
    /\ Place(f) = "done" => f.pos = Len(Chain[f.agent]) + 1
    /\ f.refused \subseteq 1 .. f.pos - 1
    /\ Reported(Chain[f.agent], f.pos - 1, f.run, f.skipped, f.refused)

FrameInv(f) ==
  f \in Frames /\ Control(f) /\ Concluded(f) /\ Agree(f) /\ Accounted(f) /\ DealtWith(f)

IInv ==
  /\ stack \in Seq(Frames)
  /\ Len(stack) >= 1
  /\ \A k \in 1 .. Len(stack) : FrameInv(stack[k])
  /\ wired \subseteq Delegates

\* An action that leaves the steps that wait as they are.
LeavesWaiting ==
  \A k \in 1 .. Len(stack) - 1 : k \in DOMAIN stack' => stack'[k].ctx = stack[k].ctx

USE HooksAssumption

----------------------------------------------------------------------------
(* Lists                                                                    *)

LEMMA ListStays ==
  ASSUME NEW seq, NEW seq2, NEW P, NEW list, NEW n \in Nat, Lists(seq, P, list, n),
         \A p \in P : seq2[p] = seq[p]
  PROVE  Lists(seq2, P, list, n)
<1>1. PICK at \in [1 .. n -> P] :
        /\ Increasing(at)
        /\ P = {at[i] : i \in 1 .. n}
        /\ \A i \in 1 .. n : list[i] = seq[at[i]]
  BY Zenon DEF Lists
<1>2. \A i \in 1 .. n : list[i] = seq2[at[i]]
  BY <1>1
<1> QED BY <1>1, <1>2, Zenon DEF Lists

LEMMA ListGrows ==
  ASSUME NEW seq, NEW seq2, NEW P \in SUBSET Nat, NEW q \in Nat,
         \A p \in P : p < q /\ seq2[p] = seq[p],
         NEW list, NEW list2, NEW n \in Nat, Lists(seq, P, list, n),
         \A i \in 1 .. n : list2[i] = list[i], list2[n + 1] = seq2[q]
  PROVE  Lists(seq2, P \cup {q}, list2, n + 1)
<1> DEFINE m == n + 1
<1>1. PICK at \in [1 .. n -> P] :
        /\ Increasing(at)
        /\ P = {at[i] : i \in 1 .. n}
        /\ \A i \in 1 .. n : list[i] = seq[at[i]]
  BY Zenon DEF Lists
<1> DEFINE at2 == [i \in 1 .. m |-> IF i = m THEN q ELSE at[i]]
<1>2. \A i \in 1 .. m : i \in 1 .. n \/ i = m
  OBVIOUS
<1>3. /\ \A i \in 1 .. n : i \in 1 .. m /\ i # m
      /\ m \in 1 .. m
  OBVIOUS
<1>4. at2[m] = q /\ \A i \in 1 .. n : at2[i] = at[i] /\ at[i] \in P
  BY <1>3
<1>5. at2 \in [1 .. m -> P \cup {q}] /\ DOMAIN at2 = 1 .. m
  BY <1>2
<1>a. DOMAIN at = 1 .. n
  OBVIOUS
<1> HIDE DEF at2
<1>6. Increasing(at2)
  <2> SUFFICES ASSUME NEW i \in 1 .. m, NEW j \in 1 .. m, i < j
               PROVE  at2[i] < at2[j]
    BY <1>5 DEF Increasing
  <2>1. i \in 1 .. n
    OBVIOUS
  <2>2. CASE j = m
    BY <1>4, <2>1, <2>2
  <2>3. CASE j \in 1 .. n
    <3>1. at[i] < at[j]
      BY <1>1, <1>a, <2>1, <2>3 DEF Increasing
    <3> QED BY <1>4, <2>1, <2>3, <3>1
  <2> QED BY <1>2, <2>2, <2>3
<1>7. P \cup {q} = {at2[i] : i \in 1 .. m}
  <2>1. ASSUME NEW p \in P PROVE \E i \in 1 .. m : p = at2[i]
    <3>1. PICK i \in 1 .. n : p = at[i]
      BY <1>1
    <3> QED BY <1>3, <1>4, <3>1
  <2>2. \E i \in 1 .. m : q = at2[i]
    BY <1>3, <1>4
  <2>3. \A i \in 1 .. m : at2[i] \in P \cup {q}
    BY <1>5
  <2> HIDE DEF m
  <2> QED BY <2>1, <2>2, <2>3
<1>8. \A i \in 1 .. m : list2[i] = seq2[at2[i]]
  <2> SUFFICES ASSUME NEW i \in 1 .. m PROVE list2[i] = seq2[at2[i]]
    OBVIOUS
  <2>1. CASE i = m
    BY <1>4, <2>1
  <2>2. CASE i \in 1 .. n
    <3>1. list2[i] = list[i] /\ list[i] = seq[at[i]] /\ at2[i] = at[i] /\ at[i] \in P
      BY <1>1, <1>4, <2>2
    <3> QED BY <3>1
  <2> QED BY <1>2, <2>1, <2>2
<1>9. Lists(seq2, P \cup {q}, list2, m)
  BY <1>5, <1>6, <1>7, <1>8, Zenon DEF Lists
<1> QED BY <1>9 DEF m

LEMMA ListsNothing ==
  ASSUME NEW seq, NEW list
  PROVE  Lists(seq, {}, list, 0)
<1> DEFINE none == [i \in 1 .. 0 |-> 0]
<1>1. 1 .. 0 = {}
  OBVIOUS
<1>2. none \in [1 .. 0 -> {}] /\ DOMAIN none = {}
  BY <1>1
<1> HIDE DEF none
<1>3. Increasing(none)
  BY <1>2 DEF Increasing
<1>4. {} = {none[i] : i \in 1 .. 0} /\ \A i \in 1 .. 0 : list[i] = seq[none[i]]
  BY <1>1
<1> QED BY <1>2, <1>3, <1>4, Zenon DEF Lists

----------------------------------------------------------------------------
(* Stories                                                                  *)

Begun == [kind |-> "before_step", skill |-> "none"]

LEMMA StoryBegins ==
  ASSUME NEW chain
  PROVE  Account(<<Begun>>, "consider", chain, 1, << >>)
<1> DEFINE log == <<Begun>>
           nobody == << >>
<1>1. Len(log) = 1 /\ log[1].kind = "before_step" /\ DOMAIN log = {1} /\ Len(nobody) = 0
  BY DEF Begun
<1> HIDE DEF log, nobody
<1>2. \A p \in 1 .. Len(log) : Ordered(log, p, "consider", chain, 1)
  BY <1>1 DEF Ordered
<1>3. Where(log, Considerings) = {} /\ Where(log, {"after_skill"}) = {}
  BY <1>1 DEF Where, Considerings
<1>4. Lists(Names(log), {}, chain, 0) /\ Lists(Names(log), {}, nobody, 0)
  BY ListsNothing
<1>5. Account(log, "consider", chain, 1, nobody)
  <2> DEFINE n == IF "consider" \in {"execute", "failed"} THEN 1 ELSE 1 - 1
  <2>1. n = 0
    OBVIOUS
  <2> HIDE DEF n
  <2>2. Lists(Names(log), Where(log, Considerings), chain, n)
    BY <1>3, <1>4, <2>1
  <2>3. Lists(Names(log), Where(log, {"after_skill"}), nobody, Len(nobody))
    BY <1>1, <1>3, <1>4
  <2>4. Len(log) >= 1
    BY <1>1
  <2> QED BY <1>2, <2>2, <2>3, <2>4, Zenon DEF Account, n
<1> QED BY <1>5 DEF log, nobody

\* What a step may announce where it is, and where it goes on from there.
Announces(e, place, place2, chain, pos, pos2, ran, ran2) ==
  \/ /\ e = [kind |-> "before_skill(false)", skill |-> chain[pos]]
     /\ place = "consider" /\ place2 = "consider" /\ pos2 = pos + 1 /\ ran2 = ran
  \/ /\ e = [kind |-> "before_skill(true)", skill |-> chain[pos]]
     /\ place = "consider" /\ place2 = "execute" /\ pos2 = pos /\ ran2 = ran
  \/ /\ e = [kind |-> "after_skill", skill |-> chain[pos]]
     /\ place = "execute" /\ place2 = "consider" /\ pos2 = pos + 1 /\ ran2 = Append(ran, chain[pos])
  \/ /\ e = [kind |-> "step_error", skill |-> "none"]
     /\ place = "execute" /\ place2 = "failed" /\ pos2 = pos /\ ran2 = ran
  \/ /\ e = [kind |-> "after_step", skill |-> "none"]
     /\ place = "consider" /\ place2 = "done" /\ pos2 = pos /\ ran2 = ran

\* A list of some kinds of events grows with one of them, and only with one.
LEMMA StoryLists ==
  ASSUME NEW log \in Seq(Events), NEW e \in Events, NEW kinds,
         NEW list, NEW n \in Nat, Lists(Names(log), Where(log, kinds), list, n)
  PROVE  LET new == Append(log, e)
         IN  /\ e.kind \notin kinds => Lists(Names(new), Where(new, kinds), list, n)
             /\ \A list2 : /\ e.kind \in kinds
                           /\ \A i \in 1 .. n : list2[i] = list[i]
                           /\ list2[n + 1] = e.skill
                           => Lists(Names(new), Where(new, kinds), list2, n + 1)
<1> DEFINE new == Append(log, e)
           q == Len(log) + 1
           P == Where(log, kinds)
<1>1. Len(log) \in Nat /\ q \in Nat /\ DOMAIN log = 1 .. Len(log) /\ DOMAIN new = 1 .. q
  OBVIOUS
<1>2. new[q] = e /\ \A p \in 1 .. Len(log) : new[p] = log[p]
  OBVIOUS
<1>3. /\ \A p \in 1 .. Len(log) : p < q /\ p \in 1 .. q
      /\ \A p \in 1 .. q : p \in 1 .. Len(log) \/ p = q
      /\ q \in 1 .. q
  BY <1>1
<1> HIDE DEF new, q
<1>4. /\ P \in SUBSET Nat /\ P \subseteq 1 .. Len(log)
      /\ Names(new)[q] = e.skill /\ \A p \in P : p < q /\ Names(new)[p] = Names(log)[p]
  BY <1>1, <1>2, <1>3 DEF Where, Names
<1>5. Where(new, kinds) = IF e.kind \in kinds THEN P \cup {q} ELSE P
  BY <1>1, <1>2, <1>3 DEF Where
<1> HIDE DEF P
<1>6. Lists(Names(log), P, list, n)
  BY DEF P
<1>7. e.kind \notin kinds => Lists(Names(new), Where(new, kinds), list, n)
  BY <1>4, <1>5, <1>6, ListStays
<1>8. ASSUME NEW list2, e.kind \in kinds, \A i \in 1 .. n : list2[i] = list[i],
             list2[n + 1] = e.skill
      PROVE  Lists(Names(new), Where(new, kinds), list2, n + 1)
  <2>1. Lists(Names(new), P \cup {q}, list2, n + 1)
    BY <1>1, <1>4, <1>6, <1>8, ListGrows
  <2> QED BY <1>5, <1>8, <2>1
<1> QED BY <1>7, <1>8 DEF new

LEMMA StoryGoesOn ==
  ASSUME NEW log \in Seq(Events), NEW e \in Events, NEW place, NEW place2, NEW chain,
         NEW pos \in Nat, pos >= 1, NEW pos2, NEW ran \in Seq(Skills), NEW ran2,
         Account(log, place, chain, pos, ran),
         Announces(e, place, place2, chain, pos, pos2, ran, ran2)
  PROVE  Account(Append(log, e), place2, chain, pos2, ran2)
<1> DEFINE new == Append(log, e)
           q == Len(log) + 1
           n == IF place \in {"execute", "failed"} THEN pos ELSE pos - 1
           n2 == IF place2 \in {"execute", "failed"} THEN pos2 ELSE pos2 - 1
<1>1. Len(log) \in Nat /\ Len(log) >= 1 /\ Len(new) = q
  BY DEF Account
<1>2. new[q] = e /\ \A p \in 1 .. Len(log) : new[p] = log[p]
  OBVIOUS
<1>3. /\ \A p \in 1 .. Len(log) : p < q
      /\ \A p \in 1 .. q : p \in 1 .. Len(log) \/ p = q
      /\ \A p \in 1 .. Len(log) : p < Len(log) => p + 1 \in 1 .. Len(log)
      /\ q - 1 = Len(log) /\ Len(log) \in 1 .. Len(log)
  BY <1>1
<1>4. \A p \in 1 .. Len(log) : Ordered(log, p, place, chain, pos)
  BY DEF Account
<1>5. ASSUME NEW p \in 1 .. Len(new)
      PROVE  Ordered(new, p, place2, chain, pos2)
  <2> HIDE DEF new, q
  <2>1. CASE p = q
    <3>1. Ordered(log, Len(log), place, chain, pos) /\ new[q - 1] = log[Len(log)] /\ q # 1
      BY <1>1, <1>2, <1>3, <1>4 DEF q
    <3>2. ~ (q < Len(new)) /\ q = Len(new)
      BY <1>1, <1>3 DEF q
    <3>3. new[q] = e
      BY <1>2
    <3> QED BY <2>1, <3>1, <3>2, <3>3, <1>1, <1>3 DEF Ordered, Announces
  <2>2. CASE p \in 1 .. Len(log)
    <3>1. Ordered(log, p, place, chain, pos) /\ new[p] = log[p]
      BY <1>2, <1>4, <2>2
    <3>2. p < Len(new) /\ p # Len(new)
      BY <1>1, <1>3, <2>2 DEF q
    <3>3. CASE p = Len(log)
      <4>1. new[p + 1] = e
        BY <1>2, <3>3 DEF q
      <4> QED BY <3>1, <3>2, <3>3, <4>1, <1>1, <1>2, <1>3, <1>4 DEF Ordered, Announces
    <3>4. CASE p # Len(log)
      <4>1. p < Len(log) /\ new[p + 1] = log[p + 1]
        BY <1>1, <1>2, <1>3, <2>2, <3>4
      <4> QED BY <3>1, <3>2, <3>4, <4>1, <1>1, <1>2, <1>3, <2>2 DEF Ordered, Announces
    <3> QED BY <3>3, <3>4
  <2> QED BY <1>1, <1>3, <2>1, <2>2
<1>6. Lists(Names(new), Where(new, Considerings), chain, n2)
  <2>1. Lists(Names(log), Where(log, Considerings), chain, n) /\ n \in Nat
    BY DEF Account
  <2>2. \/ e.kind \notin Considerings /\ n2 = n
        \/ e.kind \in Considerings /\ n2 = n + 1 /\ chain[n + 1] = e.skill
    BY DEF Announces, Considerings
  <2> HIDE DEF n, n2, new
  <2>3. CASE e.kind \notin Considerings
    BY <2>1, <2>2, <2>3, StoryLists DEF new
  <2>4. CASE e.kind \in Considerings
    <3>1. \A i \in 1 .. n : chain[i] = chain[i]
      OBVIOUS
    <3>2. Lists(Names(new), Where(new, Considerings), chain, n + 1)
      BY <2>1, <2>2, <2>4, <3>1, StoryLists DEF new
    <3> QED BY <2>2, <2>4, <3>2
  <2> QED BY <2>3, <2>4
<1>7. Lists(Names(new), Where(new, {"after_skill"}), ran2, Len(ran2))
  <2>1. Lists(Names(log), Where(log, {"after_skill"}), ran, Len(ran)) /\ Len(ran) \in Nat
    BY DEF Account
  <2>2. CASE e.kind # "after_skill"
    <3>1. ran2 = ran
      BY <2>2 DEF Announces
    <3> HIDE DEF new
    <3> QED BY <2>1, <2>2, <3>1, StoryLists DEF new
  <2>3. CASE e.kind = "after_skill"
    <3>1. ran2 = Append(ran, chain[pos]) /\ e.skill = chain[pos] /\ chain[pos] \in Skills \cup {"none"}
      BY <2>3 DEF Announces, Events
    <3>2. Len(ran2) = Len(ran) + 1 /\ ran2[Len(ran) + 1] = chain[pos]
          /\ \A i \in 1 .. Len(ran) : ran2[i] = ran[i]
      BY <3>1
    <3> HIDE DEF new
    <3>3. Lists(Names(new), Where(new, {"after_skill"}), ran2, Len(ran) + 1)
      BY <2>1, <2>3, <3>1, <3>2, StoryLists DEF new
    <3> QED BY <3>2, <3>3
  <2> QED BY <2>2, <2>3
<1>8. Len(new) >= 1
  BY <1>1
<1> HIDE DEF new
<1>9. Account(new, place2, chain, pos2, ran2)
  BY <1>5, <1>6, <1>7, <1>8 DEF Account
<1> QED BY <1>9 DEF new

\* A frame at rest that announces an event goes on with its story.
LEMMA StoryAnnounced ==
  ASSUME NEW f, FrameInv(f), f.pc # "notify", Generic(f), f.pos \in Nat, f.pos >= 1,
         NEW g \in Frames, g.pc = "notify", g.log = f.log, g.agent = f.agent,
         Announces(g.event, f.pc, g.then, Chain[f.agent], f.pos, g.pos, f.run, g.run)
  PROVE  Accounted(g)
<1>1. /\ f.log[Hooks] \in Seq(Events) /\ g.event \in Events /\ f.run \in Seq(Skills)
      /\ Account(f.log[Hooks], f.pc, Chain[f.agent], f.pos, f.run)
  BY DEF FrameInv, Frames, Accounted, Story, Place
<1>2. Account(Append(f.log[Hooks], g.event), g.then, Chain[f.agent], g.pos, g.run)
  BY <1>1, StoryGoesOn
<1> QED BY <1>2 DEF Accounted, Story, Place

----------------------------------------------------------------------------
(* Reports                                                                  *)

LEMMA NothingReported ==
  ASSUME NEW chain
  PROVE  Reported(chain, 0, << >>, << >>, {})
<1> DEFINE nobody == << >>
<1>1. Len(nobody) = 0 /\ 1 .. 0 = {}
  OBVIOUS
<1> HIDE DEF nobody
<1>2. Lists(chain, {}, nobody, 0)
  BY ListsNothing
<1>3. \E R, S \in SUBSET (1 .. 0) :
        /\ Lists(chain, R, nobody, Len(nobody)) /\ Lists(chain, S, nobody, Len(nobody))
        /\ R \cap S = {} /\ R \cap {} = {}
        /\ 1 .. 0 \subseteq R \cup S \cup {}
  <2> WITNESS {} \in SUBSET (1 .. 0), {} \in SUBSET (1 .. 0)
  <2> QED BY <1>1, <1>2
<1>4. Reported(chain, 0, nobody, nobody, {})
  BY <1>3 DEF Reported
<1> QED BY <1>4 DEF nobody

\* A list of skills at positions up to n grows by the skill behind them.
LEMMA ReportGrows ==
  ASSUME NEW chain, NEW n \in Nat, NEW R \in SUBSET (1 .. n), NEW ran \in Seq(Skills),
         Lists(chain, R, ran, Len(ran)), chain[n + 1] \in Skills
  PROVE  Lists(chain, R \cup {n + 1}, Append(ran, chain[n + 1]), Len(Append(ran, chain[n + 1])))
<1> DEFINE new == Append(ran, chain[n + 1])
<1>1. /\ Len(ran) \in Nat /\ Len(new) = Len(ran) + 1 /\ new[Len(ran) + 1] = chain[n + 1]
      /\ \A i \in 1 .. Len(ran) : new[i] = ran[i]
  OBVIOUS
<1>2. R \in SUBSET Nat /\ n + 1 \in Nat /\ \A p \in R : p < n + 1 /\ chain[p] = chain[p]
  OBVIOUS
<1> HIDE DEF new
<1>3. Lists(chain, R \cup {n + 1}, new, Len(ran) + 1)
  BY <1>1, <1>2, ListGrows
<1> QED BY <1>1, <1>3 DEF new

\* The next skill of the chain ran.
LEMMA NextRan ==
  ASSUME NEW chain, NEW n \in Nat, NEW ran \in Seq(Skills), NEW skipped \in Seq(Skills),
         NEW refused \in SUBSET (1 .. n), Reported(chain, n, ran, skipped, refused),
         chain[n + 1] \in Skills
  PROVE  Reported(chain, n + 1, Append(ran, chain[n + 1]), skipped, refused)
<1> DEFINE new == Append(ran, chain[n + 1])
<1>1. PICK R \in SUBSET (1 .. n), S \in SUBSET (1 .. n) :
        /\ Lists(chain, R, ran, Len(ran)) /\ Lists(chain, S, skipped, Len(skipped))
        /\ R \cap S = {} /\ R \cap refused = {}
        /\ 1 .. n \subseteq R \cup S \cup refused
  BY Zenon DEF Reported
<1> DEFINE R2 == R \cup {n + 1}
<1>2. Lists(chain, R2, new, Len(new))
  BY <1>1, ReportGrows
<1>3. /\ 1 .. n + 1 = (1 .. n) \cup {n + 1} /\ n + 1 \notin 1 .. n
  OBVIOUS
<1>4. R2 \in SUBSET (1 .. n + 1) /\ S \in SUBSET (1 .. n + 1)
  BY <1>3
<1>5. R2 \cap S = {} /\ R2 \cap refused = {} /\ 1 .. n + 1 \subseteq R2 \cup S \cup refused
  BY <1>1, <1>3
<1> HIDE DEF R2, new
<1>6. Reported(chain, n + 1, new, skipped, refused)
  BY <1>1, <1>2, <1>4, <1>5, Zenon DEF Reported
<1> QED BY <1>6 DEF new

\* The next skill of the chain was skipped, having refused or not.
LEMMA NextSkipped ==
  ASSUME NEW chain, NEW n \in Nat, NEW ran \in Seq(Skills), NEW skipped \in Seq(Skills),
         NEW refused \in SUBSET (1 .. n), Reported(chain, n, ran, skipped, refused),
         chain[n + 1] \in Skills, NEW refused2, refused2 = refused \/ refused2 = refused \cup {n + 1}
  PROVE  Reported(chain, n + 1, ran, Append(skipped, chain[n + 1]), refused2)
<1> DEFINE new == Append(skipped, chain[n + 1])
<1>1. PICK R \in SUBSET (1 .. n), S \in SUBSET (1 .. n) :
        /\ Lists(chain, R, ran, Len(ran)) /\ Lists(chain, S, skipped, Len(skipped))
        /\ R \cap S = {} /\ R \cap refused = {}
        /\ 1 .. n \subseteq R \cup S \cup refused
  BY Zenon DEF Reported
<1> DEFINE S2 == S \cup {n + 1}
<1>2. Lists(chain, S2, new, Len(new))
  BY <1>1, ReportGrows
<1>3. /\ 1 .. n + 1 = (1 .. n) \cup {n + 1} /\ n + 1 \notin 1 .. n
  OBVIOUS
<1>4. S2 \in SUBSET (1 .. n + 1) /\ R \in SUBSET (1 .. n + 1)
  BY <1>3
<1>5. R \cap S2 = {} /\ R \cap refused2 = {} /\ 1 .. n + 1 \subseteq R \cup S2 \cup refused2
  BY <1>1, <1>3
<1> HIDE DEF S2, new
<1>6. Lists(chain, R, ran, Len(ran))
  BY <1>1
<1>7. Reported(chain, n + 1, ran, new, refused2)
  BY <1>2, <1>4, <1>5, <1>6, Zenon DEF Reported
<1> QED BY <1>7 DEF new

----------------------------------------------------------------------------
(* Frames                                                                   *)

\* The frame a step begins with.
LEMMA FrameBegins ==
  ASSUME NEW agent \in Agents, NEW ctx \in Context
  PROVE  FrameInv(Frame(agent, ctx))
<1> DEFINE f == Frame(agent, ctx)
<1>1. f \in Frames
  <2>1. [h \in 1 .. Hooks |-> <<>>] \in [1 .. Hooks -> Seq(Events)]
    OBVIOUS
  <2>2. CASE agent \in DOMAIN Chain
    <3>1. f = [agent |-> agent, ctx |-> ctx, pc |-> "notify", then |-> "consider",
               event |-> Begun, hook |-> 1, log |-> [h \in 1 .. Hooks |-> <<>>],
               pos |-> 1, called |-> FALSE, run |-> <<>>, skipped |-> <<>>,
               refused |-> {}, concluded |-> FALSE]
      BY <2>2 DEF Frame, Notify, SkillEvents, Begun
    <3> QED BY <2>1, <3>1 DEF Frames, Resting, Events, Kinds, Begun
  <2>3. CASE agent \notin DOMAIN Chain
    BY <2>1, <2>3 DEF Frame, Frames, Resting, Events, Kinds
  <2> QED BY <2>2, <2>3
<1>2. Control(f)
  BY DEF Frame, Notify, Control, Place, Generic
<1>3. Concluded(f)
  BY DEF Frame, Notify, Concluded
<1>4. Agree(f)
  BY DEF Frame, Notify, Agree
<1>5. Accounted(f)
  <2> SUFFICES ASSUME Generic(f) PROVE Account(Story(f), Place(f), Chain[f.agent], f.pos, f.run)
    BY DEF Accounted
  <2>1. agent \in DOMAIN Chain
    BY DEF Generic, Frame, Notify
  <2>2. /\ f.pc = "notify" /\ f.then = "consider" /\ f.event = Begun /\ f.log[Hooks] = <<>>
        /\ f.run = <<>> /\ f.pos = 1
    BY <2>1 DEF Frame, Notify, SkillEvents, Begun
  <2>3. Story(f) = <<Begun>> /\ Place(f) = "consider"
    BY <2>2 DEF Story, Place
  <2> HIDE DEF f
  <2> QED BY <2>2, <2>3, StoryBegins
<1>6. DealtWith(f)
  <2> SUFFICES ASSUME Generic(f)
               PROVE  /\ f.pos <= Len(Chain[f.agent]) + 1
                      /\ Place(f) = "done" => f.pos = Len(Chain[f.agent]) + 1
                      /\ f.refused \subseteq 1 .. f.pos - 1
                      /\ Reported(Chain[f.agent], f.pos - 1, f.run, f.skipped, f.refused)
    BY DEF DealtWith
  <2>1. f.agent \in DOMAIN Chain /\ Len(Chain[f.agent]) \in Nat
    BY ChainAssumption DEF Generic
  <2>2. /\ Place(f) = "consider" /\ f.run = << >> /\ f.skipped = << >>
        /\ f.refused = {} /\ f.pos = 1
    BY <2>1 DEF Frame, Notify, Place
  <2> HIDE DEF f
  <2> QED BY <2>1, <2>2, NothingReported
<1> QED BY <1>1, <1>2, <1>3, <1>4, <1>5, <1>6 DEF FrameInv

\* The least of a set of positions.
LEMMA Least ==
  ASSUME NEW S \in SUBSET Nat, S # {}
  PROVE  \E i \in S : \A j \in S : i <= j
<1> DEFINE R == {ss \in Nat \X Nat : ss[1] < ss[2]}
<1>1. IsWellFoundedOn(R, Nat)
  BY NatLessThanWellFounded DEF OpToRel
<1> HIDE DEF R
<1>2. PICK i \in S : \A j \in S : ~ (<<j, i>> \in R)
  BY <1>1, WFMin
<1>3. ASSUME NEW j \in S
      PROVE  i <= j
  <2>1. <<j, i>> \in R <=> j < i
    BY DEF R
  <2> QED BY <1>2, <2>1
<1> QED BY <1>3

\* A coordinator hands over to an agent it knows or to none.
LEMMA RouteKnows ==
  ASSUME NEW c \in DOMAIN Rules, NEW ctx, Route(c, ctx) # NoAgent
  PROVE  Route(c, ctx) \in Agents
<1> DEFINE usable == {i \in DOMAIN Rules[c] :
                        Matches(Rules[c][i], ctx) /\ Rules[c][i].agent \in Specialists[c]}
<1>1. CASE usable # {}
  <2>1. usable \in SUBSET Nat
    BY RulesAssumption
  <2>2. \E i \in usable : \A j \in usable : i <= j
    BY <1>1, <2>1, Least
  <2>3. (CHOOSE i \in usable : \A j \in usable : i <= j) \in usable
    BY <2>2
  <2> QED BY <1>1, <2>3, RulesAssumption DEF Route
<1>2. CASE usable = {}
  BY <1>2, RulesAssumption DEF Route
<1> QED BY <1>1, <1>2

----------------------------------------------------------------------------
(* What each operation makes of the frame it works on                       *)

\* Only what drives the notification changes when one begins.
LEMMA NotifyFrame ==
  ASSUME NEW f \in Frames, NEW kind \in Kinds, NEW then \in Resting, NEW skill,
         \/ kind \in SkillEvents /\ skill = Chain[f.agent][f.pos] /\ skill \in Skills
         \/ kind \notin SkillEvents /\ skill = "none",
         NEW g, g = Notify(f, kind, then)
  PROVE  /\ g \in Frames
         /\ g.agent = f.agent /\ g.ctx = f.ctx /\ g.concluded = f.concluded
         /\ g.pc = "notify" /\ g.then = then /\ g.hook = 1 /\ g.log = f.log
         /\ g.event = [kind |-> kind, skill |-> skill]
         /\ g.pos = f.pos /\ g.called = f.called /\ g.run = f.run /\ g.skipped = f.skipped
         /\ g.refused = f.refused
<1> DEFINE event == [kind |-> kind, skill |-> skill]
<1>1. event \in Events
  BY DEF Events
<1>2. g = [f EXCEPT !.pc = "notify", !.event = event, !.hook = 1, !.then = then]
  <2>1. (IF kind \in SkillEvents THEN Chain[f.agent][f.pos] ELSE "none") = skill
    OBVIOUS
  <2> QED BY <2>1 DEF Notify
<1> HIDE DEF event
<1>3. g \in Frames
  <2>1. "notify" \in Resting \cup {"notify"} /\ 1 \in Nat
    OBVIOUS
  <2> HIDE DEF Resting
  <2> QED BY <1>1, <1>2, <2>1 DEF Frames
<1> QED BY <1>2, <1>3 DEF Frames, event

\* A frame at rest whose hooks are about to be told: all of them know the same.
LEMMA Announcing ==
  ASSUME NEW f, FrameInv(f), f.pc # "notify",
         NEW g, g.pc = "notify", g.hook = 1, g.log = f.log
  PROVE  Agree(g)
<1>1. \A h \in 1 .. Hooks : f.log[h] = f.log[Hooks]
  BY DEF FrameInv, Agree
<1>2. \A h \in 1 .. Hooks : ~ (h < g.hook)
  OBVIOUS
<1> QED BY <1>1, <1>2 DEF Agree

LEMMA Telling ==
  ASSUME NEW f, FrameInv(f), f.pc = "notify"
  PROVE  FrameInv([Told(f) EXCEPT !.hook = @ + 1,
                                  !.pc = IF f.hook < Hooks THEN "notify" ELSE f.then])
<1> DEFINE g == [Told(f) EXCEPT !.hook = @ + 1,
                                !.pc = IF f.hook < Hooks THEN "notify" ELSE f.then]
<1>1. f \in Frames /\ Control(f) /\ f.hook \in 1 .. Hooks
  BY DEF FrameInv, Control
<1>2. g = [f EXCEPT !.log = [f.log EXCEPT ![f.hook] = Append(@, f.event)],
                    !.hook = f.hook + 1,
                    !.pc = IF f.hook < Hooks THEN "notify" ELSE f.then]
  BY <1>1 DEF Told, Frames
<1>3. g \in Frames
  <2>1. [f.log EXCEPT ![f.hook] = Append(@, f.event)] \in [1 .. Hooks -> Seq(Events)]
    BY <1>1 DEF Frames
  <2>2. f.hook + 1 \in Nat
    BY <1>1
  <2>3. (IF f.hook < Hooks THEN "notify" ELSE f.then) \in Resting \cup {"notify"}
    BY <1>1 DEF Frames
  <2> HIDE DEF g
  <2> QED BY <1>1, <1>2, <2>1, <2>2, <2>3 DEF Frames
<1>4. /\ g.agent = f.agent /\ g.ctx = f.ctx /\ g.concluded = f.concluded
      /\ g.pc = (IF f.hook < Hooks THEN "notify" ELSE f.then)
      /\ g.then = f.then /\ f.then \in Resting /\ f.then # "route"
      /\ g.hook = f.hook + 1 /\ g.pos = f.pos /\ g.event = f.event
      /\ g.run = f.run /\ g.skipped = f.skipped /\ g.refused = f.refused
      /\ g.log = [f.log EXCEPT ![f.hook] = Append(@, f.event)]
      /\ f.log \in [1 .. Hooks -> Seq(Events)]
  BY <1>1, <1>2 DEF Frames, Control
<1> HIDE DEF g
<1>5. Control(g)
  BY <1>1, <1>4 DEF Control, Place, Generic, Resting
<1>6. Concluded(g)
  BY <1>4 DEF FrameInv, Concluded, Place, Generic, Resting
<1>7. Agree(g)
  <2>1. \A h \in 1 .. Hooks :
          f.log[h] = IF h < f.hook THEN Append(f.log[Hooks], f.event) ELSE f.log[Hooks]
    BY DEF FrameInv, Agree
  <2>2. ASSUME NEW h \in 1 .. Hooks
        PROVE  g.log[h] = IF h <= f.hook THEN Append(f.log[Hooks], f.event) ELSE f.log[Hooks]
    BY <1>1, <1>4, <2>1
  <2>3. CASE f.hook < Hooks
    <3>1. g.log[Hooks] = f.log[Hooks] /\ g.pc = "notify"
      BY <1>1, <1>4, <2>2, <2>3
    <3>2. \A h \in 1 .. Hooks : h < g.hook <=> h <= f.hook
      BY <1>1, <1>4
    <3> QED BY <1>4, <2>2, <3>1, <3>2 DEF Agree
  <2>4. CASE ~ (f.hook < Hooks)
    <3>1. f.hook = Hooks /\ g.pc # "notify"
      BY <1>1, <1>4, <2>4 DEF Resting
    <3>2. \A h \in 1 .. Hooks : g.log[h] = Append(f.log[Hooks], f.event)
      BY <2>2, <3>1
    <3>3. Hooks \in 1 .. Hooks
      OBVIOUS
    <3>4. \A h \in 1 .. Hooks : g.log[h] = g.log[Hooks]
      BY <3>2, <3>3
    <3> QED BY <3>1, <3>4 DEF Agree
  <2> QED BY <2>3, <2>4
<1>8. Accounted(g)
  <2>1. Story(f) = Append(f.log[Hooks], f.event) /\ Place(f) = f.then
    BY DEF Story, Place
  <2>2. CASE f.hook < Hooks
    <3>1. g.log[Hooks] = f.log[Hooks] /\ g.pc = "notify"
      BY <1>1, <1>4, <2>2
    <3> QED BY <1>4, <2>1, <3>1 DEF FrameInv, Accounted, Generic, Story, Place
  <2>3. CASE ~ (f.hook < Hooks)
    <3>1. g.log[Hooks] = Append(f.log[Hooks], f.event) /\ g.pc = f.then /\ g.pc # "notify"
      BY <1>1, <1>4, <2>3 DEF Resting
    <3> QED BY <1>4, <2>1, <3>1 DEF FrameInv, Accounted, Generic, Story, Place
  <2> QED BY <2>2, <2>3
<1>9. DealtWith(g)
  <2>1. Place(g) = Place(f)
    BY <1>4 DEF Place, Resting
  <2> QED BY <1>4, <2>1 DEF FrameInv, DealtWith, Generic
<1> QED BY <1>3, <1>5, <1>6, <1>7, <1>8, <1>9 DEF FrameInv, g

\* A skill of the chain, named by its position.
LEMMA SkillOfChain ==
  ASSUME NEW f \in Frames, Generic(f), f.pos \in 1 .. Len(Chain[f.agent])
  PROVE  Chain[f.agent][f.pos] \in Skills
BY ChainAssumption DEF Generic, Skills

LEMMA Skipping ==
  ASSUME NEW f, FrameInv(f), f.pc = "consider", f.pos <= Len(Chain[f.agent]),
         NEW refused, refused = f.refused \/ refused = f.refused \cup {f.pos}
  PROVE  FrameInv([Notify([f EXCEPT !.refused = refused], "before_skill(false)", "consider") EXCEPT
                     !.pos = @ + 1, !.skipped = Append(@, Chain[f.agent][f.pos])])
<1> DEFINE s == Chain[f.agent][f.pos]
           h == [f EXCEPT !.refused = refused]
           n == Notify(h, "before_skill(false)", "consider")
           g == [n EXCEPT !.pos = @ + 1, !.skipped = Append(@, s)]
<1>1. f \in Frames /\ Control(f) /\ Generic(f) /\ f.pos >= 1 /\ f.pos \in Nat
  BY DEF FrameInv, Control, Place, Frames
<1>2. s \in Skills
  <2>1. f.pos \in Nat /\ Len(Chain[f.agent]) \in Nat
    BY <1>1, ChainAssumption DEF Frames, Generic
  <2>2. f.pos \in 1 .. Len(Chain[f.agent])
    BY <1>1, <2>1
  <2> QED BY <1>1, <2>2, SkillOfChain
<1>b. /\ h \in Frames /\ h.refused = refused /\ h.agent = f.agent /\ h.ctx = f.ctx
      /\ h.concluded = f.concluded /\ h.log = f.log /\ h.pos = f.pos /\ h.run = f.run
      /\ h.skipped = f.skipped
  <2>1. refused \in SUBSET Nat
    BY <1>1 DEF Frames
  <2> QED BY <1>1, <2>1 DEF Frames
<1> HIDE DEF h, s
<1>3. /\ n \in Frames
      /\ n.agent = f.agent /\ n.ctx = f.ctx /\ n.concluded = f.concluded
      /\ n.pc = "notify" /\ n.then = "consider" /\ n.hook = 1 /\ n.log = f.log
      /\ n.pos = f.pos /\ n.event = [kind |-> "before_skill(false)", skill |-> s]
      /\ n.run = f.run /\ n.skipped = f.skipped /\ n.refused = refused
  <2>1. "before_skill(false)" \in Kinds /\ "consider" \in Resting
    BY DEF Kinds, Resting
  <2>2. "before_skill(false)" \in SkillEvents
    BY DEF SkillEvents
  <2> QED BY <1>b, <1>2, <2>1, <2>2, NotifyFrame DEF s, n
<1> HIDE DEF n
<1>4. g \in Frames
  <2>1. n.pos + 1 \in Nat /\ n.skipped \in Seq(Skills)
    BY <1>3 DEF Frames
  <2>2. Append(n.skipped, s) \in Seq(Skills)
    BY <1>2, <2>1
  <2> QED BY <1>3, <2>1, <2>2 DEF Frames
<1>5. /\ g.agent = f.agent /\ g.ctx = f.ctx /\ g.concluded = f.concluded
      /\ g.pc = "notify" /\ g.then = "consider" /\ g.hook = 1 /\ g.log = f.log
      /\ g.pos = f.pos + 1 /\ g.refused = refused
      /\ g.event = [kind |-> "before_skill(false)", skill |-> s]
      /\ g.run = f.run /\ g.skipped = Append(f.skipped, s)
  BY <1>1, <1>3 DEF Frames
<1> HIDE DEF g
<1>6. Control(g)
  BY <1>1, <1>5 DEF Control, Place, Generic
<1>7. Concluded(g)
  BY <1>5 DEF FrameInv, Concluded, Place, Generic
<1>8. Agree(g)
  BY <1>5, Announcing
<1>9. Accounted(g)
  BY <1>1, <1>4, <1>5, StoryAnnounced DEF Announces, s
<1>10. DealtWith(g)
  <2>1. /\ Reported(Chain[f.agent], f.pos - 1, f.run, f.skipped, f.refused)
        /\ f.refused \in SUBSET (1 .. f.pos - 1)
        /\ f.pos - 1 \in Nat /\ (f.pos - 1) + 1 = f.pos /\ g.pos - 1 = f.pos
        /\ f.run \in Seq(Skills) /\ f.skipped \in Seq(Skills)
    <3>1. DealtWith(f) /\ f.run \in Seq(Skills) /\ f.skipped \in Seq(Skills)
      BY <1>1 DEF FrameInv, Frames
    <3>2. Reported(Chain[f.agent], f.pos - 1, f.run, f.skipped, f.refused)
          /\ f.refused \in SUBSET (1 .. f.pos - 1)
      BY <1>1, <3>1 DEF DealtWith
    <3> QED BY <1>1, <1>5, <3>1, <3>2
  <2>2. Reported(Chain[f.agent], f.pos, f.run, Append(f.skipped, s), refused)
    <3> DEFINE m == f.pos - 1
    <3>1. m \in Nat /\ m + 1 = f.pos /\ f.refused \in SUBSET (1 .. m)
      BY <2>1
    <3>2. Reported(Chain[f.agent], m, f.run, f.skipped, f.refused)
      BY <2>1
    <3>3. Chain[f.agent][m + 1] = s /\ (refused = f.refused \/ refused = f.refused \cup {m + 1})
      BY <3>1 DEF s
    <3> HIDE DEF m
    <3>4. Reported(Chain[f.agent], m + 1, f.run, Append(f.skipped, Chain[f.agent][m + 1]), refused)
      BY <1>2, <2>1, <3>1, <3>2, <3>3, NextSkipped
    <3> QED BY <3>1, <3>3, <3>4
  <2>3. Len(Chain[f.agent]) \in Nat
    BY <1>1, ChainAssumption DEF Generic
  <2>4. refused \subseteq 1 .. f.pos
    BY <1>1, <2>1
  <2> QED BY <1>5, <2>1, <2>2, <2>3, <2>4 DEF DealtWith, Place
<1> QED BY <1>4, <1>6, <1>7, <1>8, <1>9, <1>10 DEF FrameInv, g, n, s, h

LEMMA Starting ==
  ASSUME NEW f, FrameInv(f), f.pc = "consider", f.pos <= Len(Chain[f.agent]),
         ~ (f.concluded /\ Short[f.agent])
  PROVE  FrameInv([Notify(f, "before_skill(true)", "execute") EXCEPT !.called = FALSE])
<1> DEFINE n == Notify(f, "before_skill(true)", "execute")
           g == [n EXCEPT !.called = FALSE]
<1>1. f \in Frames /\ Control(f) /\ Generic(f) /\ f.pos >= 1 /\ f.pos \in Nat
  BY DEF FrameInv, Control, Place, Frames
<1>a. f.pos \in 1 .. Len(Chain[f.agent]) /\ Chain[f.agent][f.pos] \in Skills
  <2>1. Len(Chain[f.agent]) \in Nat
    BY <1>1, ChainAssumption DEF Generic
  <2>2. f.pos \in 1 .. Len(Chain[f.agent])
    BY <1>1, <2>1
  <2> QED BY <1>1, <2>2, SkillOfChain
<1>2. /\ n \in Frames
      /\ n.agent = f.agent /\ n.ctx = f.ctx /\ n.concluded = f.concluded
      /\ n.pc = "notify" /\ n.then = "execute" /\ n.hook = 1 /\ n.log = f.log
      /\ n.pos = f.pos /\ n.event = [kind |-> "before_skill(true)", skill |-> Chain[f.agent][f.pos]]
      /\ n.run = f.run /\ n.skipped = f.skipped /\ n.refused = f.refused
  <2>1. "before_skill(true)" \in Kinds /\ "execute" \in Resting
    BY DEF Kinds, Resting
  <2>2. "before_skill(true)" \in SkillEvents
    BY DEF SkillEvents
  <2> QED BY <1>1, <1>a, <2>1, <2>2, NotifyFrame DEF n
<1> HIDE DEF n
<1>3. /\ g \in Frames
      /\ g.agent = f.agent /\ g.ctx = f.ctx /\ g.concluded = f.concluded
      /\ g.pc = "notify" /\ g.then = "execute" /\ g.hook = 1 /\ g.log = f.log
      /\ g.pos = f.pos /\ g.event = [kind |-> "before_skill(true)", skill |-> Chain[f.agent][f.pos]]
      /\ g.run = f.run /\ g.skipped = f.skipped /\ g.refused = f.refused
  BY <1>2 DEF Frames
<1> HIDE DEF g
<1>5. Control(g)
  BY <1>1, <1>3, <1>a DEF Control, Place, Generic
<1>6. Concluded(g)
  BY <1>3 DEF Concluded
<1>7. Agree(g)
  BY <1>3, Announcing
<1>8. Accounted(g)
  BY <1>1, <1>3, StoryAnnounced DEF Announces
<1>9. DealtWith(g)
  BY <1>3 DEF FrameInv, DealtWith, Generic, Place
<1> QED BY <1>3, <1>5, <1>6, <1>7, <1>8, <1>9 DEF FrameInv, g, n

\* The conclusion is in the context the moment the skill has returned it.
LEMMA Succeeding ==
  ASSUME NEW f, FrameInv(f), f.pc = "execute",
         NEW lifted \in SUBSET Signals, NEW delta \in Deltas,
         NEW action \in {"none", "hint", "conclude"}
  PROVE  LET ctx == [signals |-> f.ctx.signals \cup lifted,
                     confidence |-> Clamp(f.ctx.confidence + delta),
                     pending |-> action]
         IN  FrameInv([Notify(f, "after_skill", "consider") EXCEPT
                         !.ctx = ctx, !.pos = @ + 1,
                         !.run = Append(@, Chain[f.agent][f.pos]),
                         !.concluded = @ \/ action = "conclude"])
<1> DEFINE s == Chain[f.agent][f.pos]
           ctx == [signals |-> f.ctx.signals \cup lifted,
                   confidence |-> Clamp(f.ctx.confidence + delta),
                   pending |-> action]
           n == Notify(f, "after_skill", "consider")
           g == [n EXCEPT !.ctx = ctx, !.pos = @ + 1, !.run = Append(@, s),
                          !.concluded = @ \/ action = "conclude"]
<1>1. /\ f \in Frames /\ Control(f) /\ Generic(f) /\ f.pos \in 1 .. Len(Chain[f.agent])
      /\ f.pos >= 1 /\ f.pos \in Nat
  BY DEF FrameInv, Control, Place, Frames
<1>2. s \in Skills
  BY <1>1, SkillOfChain
<1>3. ctx \in Context /\ ctx.pending = action
  <2>1. f.ctx.signals \cup lifted \in SUBSET Signals /\ f.ctx.confidence + delta \in Int
    BY <1>1, ConfidenceAssumption DEF Frames, Context
  <2>2. Clamp(f.ctx.confidence + delta) \in Int
    BY <2>1, ConfidenceAssumption DEF Clamp
  <2> QED BY <2>1, <2>2 DEF Context
<1>4. /\ n \in Frames
      /\ n.agent = f.agent /\ n.concluded = f.concluded
      /\ n.pc = "notify" /\ n.then = "consider" /\ n.hook = 1 /\ n.log = f.log
      /\ n.pos = f.pos /\ n.event = [kind |-> "after_skill", skill |-> s]
      /\ n.run = f.run /\ n.skipped = f.skipped /\ n.refused = f.refused
  <2>1. "after_skill" \in Kinds /\ "consider" \in Resting
    BY DEF Kinds, Resting
  <2>2. "after_skill" \in SkillEvents
    BY DEF SkillEvents
  <2> QED BY <1>1, <1>2, <2>1, <2>2, NotifyFrame DEF s, n
<1> HIDE DEF s, ctx, n
<1>5. g \in Frames
  <2>1. n.pos + 1 \in Nat /\ n.run \in Seq(Skills)
    BY <1>4 DEF Frames
  <2>2. Append(n.run, s) \in Seq(Skills) /\ (n.concluded \/ action = "conclude") \in BOOLEAN
    BY <1>2, <2>1
  <2> QED BY <1>3, <1>4, <2>1, <2>2 DEF Frames
<1>6. /\ g.agent = f.agent /\ g.ctx = ctx
      /\ g.pc = "notify" /\ g.then = "consider" /\ g.hook = 1 /\ g.log = f.log
      /\ g.pos = f.pos + 1
      /\ g.event = [kind |-> "after_skill", skill |-> s] /\ g.run = Append(f.run, s)
      /\ g.skipped = f.skipped /\ g.refused = f.refused
  BY <1>4 DEF Frames
<1>7. g.concluded = (f.concluded \/ action = "conclude")
  BY <1>4 DEF Frames
<1> HIDE DEF g
<1>8. Control(g)
  BY <1>1, <1>6 DEF Control, Place, Generic
<1>9. Concluded(g)
  <2>1. ~ (f.concluded /\ Short[f.agent])
    BY <1>1 DEF FrameInv, Concluded, Place
  <2>2. Short[f.agent] /\ g.concluded => action = "conclude"
    BY <1>7, <2>1
  <2> QED BY <1>3, <1>6, <2>2 DEF Concluded, Place
<1>10. Agree(g)
  BY <1>6, Announcing
<1>11. Accounted(g)
  BY <1>1, <1>5, <1>6, StoryAnnounced DEF Announces, s
<1>12. DealtWith(g)
  <2>1. /\ Reported(Chain[f.agent], f.pos - 1, f.run, f.skipped, f.refused)
        /\ f.refused \in SUBSET (1 .. f.pos - 1)
        /\ f.pos - 1 \in Nat /\ (f.pos - 1) + 1 = f.pos /\ g.pos - 1 = f.pos
        /\ f.run \in Seq(Skills) /\ f.skipped \in Seq(Skills)
    <3>1. DealtWith(f) /\ f.run \in Seq(Skills) /\ f.skipped \in Seq(Skills)
      BY <1>1 DEF FrameInv, Frames
    <3>2. Reported(Chain[f.agent], f.pos - 1, f.run, f.skipped, f.refused)
          /\ f.refused \in SUBSET (1 .. f.pos - 1)
      BY <1>1, <3>1 DEF DealtWith
    <3> QED BY <1>1, <1>6, <3>1, <3>2
  <2>2. Reported(Chain[f.agent], f.pos, Append(f.run, s), f.skipped, f.refused)
    BY <1>2, <2>1, NextRan DEF s
  <2>3. Len(Chain[f.agent]) \in Nat
    BY <1>1, ChainAssumption DEF Generic
  <2>4. f.refused \subseteq 1 .. f.pos
    BY <1>1, <2>1
  <2> QED BY <1>1, <1>6, <2>1, <2>2, <2>3, <2>4 DEF DealtWith, Place
<1> QED BY <1>5, <1>8, <1>9, <1>10, <1>11, <1>12 DEF FrameInv, g, n, ctx, s

LEMMA Failing ==
  ASSUME NEW f, FrameInv(f), f.pc = "execute", NEW lifted \in SUBSET Signals
  PROVE  FrameInv([Notify(f, "step_error", "failed") EXCEPT !.ctx.signals = @ \cup lifted])
<1> DEFINE n == Notify(f, "step_error", "failed")
           g == [n EXCEPT !.ctx.signals = @ \cup lifted]
           ctx == [f.ctx EXCEPT !.signals = @ \cup lifted]
<1>1. f \in Frames /\ Control(f) /\ Generic(f) /\ f.pos >= 1 /\ f.pos \in Nat
  BY DEF FrameInv, Control, Place, Frames
<1>2. ctx \in Context /\ ctx.pending = f.ctx.pending
  BY <1>1 DEF Frames, Context
<1>3. /\ n \in Frames
      /\ n.agent = f.agent /\ n.ctx = f.ctx /\ n.concluded = f.concluded
      /\ n.pc = "notify" /\ n.then = "failed" /\ n.hook = 1 /\ n.log = f.log
      /\ n.pos = f.pos /\ n.event = [kind |-> "step_error", skill |-> "none"]
      /\ n.run = f.run /\ n.skipped = f.skipped /\ n.refused = f.refused
  <2>1. "step_error" \in Kinds /\ "failed" \in Resting
    BY DEF Kinds, Resting
  <2>2. "step_error" \notin SkillEvents
    BY DEF SkillEvents
  <2> QED BY <1>1, <2>1, <2>2, NotifyFrame DEF n
<1>4. g = [n EXCEPT !.ctx = ctx]
  BY <1>3
<1> HIDE DEF n, g, ctx
<1>5. /\ g \in Frames
      /\ g.agent = f.agent /\ g.ctx = ctx /\ g.concluded = f.concluded
      /\ g.pc = "notify" /\ g.then = "failed" /\ g.hook = 1 /\ g.log = f.log
      /\ g.pos = f.pos /\ g.event = [kind |-> "step_error", skill |-> "none"]
      /\ g.run = f.run /\ g.skipped = f.skipped /\ g.refused = f.refused
  BY <1>2, <1>3, <1>4 DEF Frames
<1>6. Control(g)
  BY <1>1, <1>5 DEF Control, Place
<1>7. Concluded(g)
  BY <1>2, <1>5 DEF FrameInv, Concluded, Place, Generic
<1>8. Agree(g)
  BY <1>5, Announcing
<1>9. Accounted(g)
  BY <1>1, <1>5, StoryAnnounced DEF Announces
<1>10. DealtWith(g)
  BY <1>5 DEF FrameInv, DealtWith, Generic, Place
<1> QED BY <1>5, <1>6, <1>7, <1>8, <1>9, <1>10 DEF FrameInv, g, n

LEMMA Ending ==
  ASSUME NEW f, FrameInv(f), f.pc = "consider", f.pos > Len(Chain[f.agent])
  PROVE  FrameInv(Notify(f, "after_step", "done"))
<1> DEFINE g == Notify(f, "after_step", "done")
<1>1. f \in Frames /\ Control(f) /\ Generic(f) /\ f.pos >= 1 /\ f.pos \in Nat
  BY DEF FrameInv, Control, Place, Frames
<1>2. /\ g \in Frames
      /\ g.agent = f.agent /\ g.ctx = f.ctx /\ g.concluded = f.concluded
      /\ g.pc = "notify" /\ g.then = "done" /\ g.hook = 1 /\ g.log = f.log
      /\ g.pos = f.pos /\ g.event = [kind |-> "after_step", skill |-> "none"]
      /\ g.run = f.run /\ g.skipped = f.skipped /\ g.refused = f.refused
  <2>1. "after_step" \in Kinds /\ "done" \in Resting
    BY DEF Kinds, Resting
  <2>2. "after_step" \notin SkillEvents
    BY DEF SkillEvents
  <2> QED BY <1>1, <2>1, <2>2, NotifyFrame DEF g
<1> HIDE DEF g
<1>3. Control(g)
  BY <1>1, <1>2 DEF Control, Place
<1>4. Concluded(g)
  BY <1>2 DEF FrameInv, Concluded, Place, Generic
<1>5. Agree(g)
  BY <1>2, Announcing
<1>6. Accounted(g)
  BY <1>1, <1>2, StoryAnnounced DEF Announces
<1>7. DealtWith(g)
  <2>1. Len(Chain[f.agent]) \in Nat /\ f.pos \in Nat
    BY <1>1, ChainAssumption DEF Generic, Frames
  <2>2. f.pos = Len(Chain[f.agent]) + 1
    BY <1>1, <2>1 DEF FrameInv, DealtWith
  <2> QED BY <1>2, <2>1, <2>2 DEF FrameInv, DealtWith, Generic, Place
<1> QED BY <1>2, <1>3, <1>4, <1>5, <1>6, <1>7 DEF FrameInv, g

\* A coordinator that finds nobody has done its step.
LEMMA Unrouted ==
  ASSUME NEW f, FrameInv(f), f.pc = "route"
  PROVE  FrameInv([f EXCEPT !.pc = "done"])
<1> DEFINE g == [f EXCEPT !.pc = "done"]
<1>1. /\ g \in Frames
      /\ g.agent = f.agent /\ g.log = f.log /\ g.pc = "done" /\ g.pos = f.pos
      /\ ~ Generic(f) /\ f.pos >= 1
  BY DEF FrameInv, Frames, Resting, Control
<1> HIDE DEF g
<1>2. Control(g) /\ Concluded(g)
  BY <1>1 DEF Control, Concluded, Place, Generic
<1>3. Agree(g)
  BY <1>1 DEF FrameInv, Agree
<1>4. Accounted(g)
  BY <1>1 DEF Accounted, Generic
<1>5. DealtWith(g)
  BY <1>1 DEF DealtWith, Generic
<1> QED BY <1>1, <1>2, <1>3, <1>4, <1>5 DEF FrameInv, g

\* Calling a delegate leaves the step that waits where it is.
LEMMA Waiting ==
  ASSUME NEW f, FrameInv(f), f.pc = "execute"
  PROVE  FrameInv([f EXCEPT !.called = TRUE])
<1> DEFINE g == [f EXCEPT !.called = TRUE]
<1>1. /\ g \in Frames
      /\ g.agent = f.agent /\ g.ctx = f.ctx /\ g.concluded = f.concluded
      /\ g.log = f.log /\ g.pc = f.pc /\ g.pos = f.pos /\ g.run = f.run /\ g.skipped = f.skipped
      /\ g.refused = f.refused
  BY DEF FrameInv, Frames
<1> HIDE DEF g
<1>2. Control(g) /\ Concluded(g)
  BY <1>1 DEF FrameInv, Control, Concluded, Place, Generic
<1>3. Agree(g)
  BY <1>1 DEF FrameInv, Agree
<1>4. Accounted(g)
  BY <1>1 DEF FrameInv, Accounted, Generic, Story, Place
<1>5. DealtWith(g)
  BY <1>1 DEF FrameInv, DealtWith, Generic, Place
<1> QED BY <1>1, <1>2, <1>3, <1>4, <1>5 DEF FrameInv, g

----------------------------------------------------------------------------
(* Actions                                                                  *)

LEMMA StackFacts ==
  ASSUME IInv
  PROVE  /\ FrameInv(Top)
         /\ Rest \in Seq(Frames) /\ Len(Rest) = Len(stack) - 1
         /\ \A k \in 1 .. Len(Rest) : Rest[k] = stack[k] /\ FrameInv(Rest[k])
<1>1. stack \in Seq(Frames) /\ Len(stack) \in Nat \ {0}
  BY DEF IInv
<1>2. FrameInv(Top)
  BY <1>1 DEF IInv, Top
<1>3. Rest \in Seq(Frames) /\ Len(Rest) = Len(stack) - 1
  <2>1. \A i \in 1 .. Len(stack) - 1 : stack[i] \in Frames
    BY <1>1
  <2>2. /\ Rest \in Seq(Frames)
        /\ Len(Rest) = IF 1 <= Len(stack) - 1 THEN Len(stack) - 1 - 1 + 1 ELSE 0
    BY <1>1, <2>1, SubSeqProperties DEF Rest
  <2>3. \A n \in Nat \ {0} : (IF 1 <= n - 1 THEN n - 1 - 1 + 1 ELSE 0) = n - 1
    OBVIOUS
  <2> QED BY <1>1, <2>2, <2>3
<1>4. \A k \in 1 .. Len(stack) - 1 : Rest[k] = stack[k]
  BY <1>1 DEF Rest
<1>5. \A k \in 1 .. Len(stack) - 1 : FrameInv(stack[k])
  BY <1>1 DEF IInv
<1> QED BY <1>2, <1>3, <1>4, <1>5

LEMMA TopReplaced ==
  ASSUME IInv, UNCHANGED wired,
         \E g : FrameInv(g) /\ stack' = Append(Rest, g)
  PROVE  IInv' /\ LeavesWaiting
<1>1. PICK g : FrameInv(g) /\ stack' = Append(Rest, g)
  OBVIOUS
<1>2. /\ Rest \in Seq(Frames) /\ Len(Rest) = Len(stack) - 1
      /\ \A k \in 1 .. Len(Rest) : Rest[k] = stack[k] /\ FrameInv(Rest[k])
  BY StackFacts
<1>3. g \in Frames /\ stack \in Seq(Frames) /\ Len(stack) >= 1 /\ Len(stack) \in Nat
  BY <1>1 DEF FrameInv, IInv
<1> HIDE DEF Rest
<1>4. stack' \in Seq(Frames) /\ Len(stack') = Len(stack)
  BY <1>1, <1>2, <1>3
<1>5. \A k \in 1 .. Len(stack) - 1 : stack'[k] = stack[k] /\ FrameInv(stack[k])
  BY <1>1, <1>2, <1>3
<1>6. stack'[Len(stack)] = g
  BY <1>1, <1>2, <1>3
<1>7. ASSUME NEW k \in 1 .. Len(stack')
      PROVE  FrameInv(stack'[k])
  BY <1>1, <1>3, <1>4, <1>5, <1>6
<1>8. IInv'
  BY <1>3, <1>4, <1>7 DEF IInv
<1> QED BY <1>5, <1>8 DEF LeavesWaiting

LEMMA NotifyHookKeeps == IInv /\ NotifyHook => IInv' /\ LeavesWaiting
<1> SUFFICES ASSUME IInv, NotifyHook
             PROVE  IInv' /\ LeavesWaiting
  OBVIOUS
<1>1. FrameInv(Top) /\ Top.pc = "notify"
  BY StackFacts DEF NotifyHook, At
<1>2. FrameInv([Told(Top) EXCEPT !.hook = @ + 1,
                                 !.pc = IF Top.hook < Hooks THEN "notify" ELSE Top.then])
  BY <1>1, Telling
<1> QED BY <1>2, TopReplaced DEF NotifyHook, SetTop

LEMMA SkipKeeps == IInv /\ (Decline \/ SkipInapplicable) => IInv' /\ LeavesWaiting
<1> SUFFICES ASSUME IInv, Decline \/ SkipInapplicable
             PROVE  IInv' /\ LeavesWaiting
  OBVIOUS
<1>1. /\ FrameInv(Top) /\ Top.pc = "consider" /\ Top.pos <= Len(Chain[Top.agent])
      /\ Top \in Frames
  BY StackFacts DEF Decline, SkipInapplicable, Considering, At, FrameInv
<1>2. PICK refused \in {Top.refused, Top.refused \cup {Top.pos}} :
        Skip([Top EXCEPT !.refused = refused])
  <2>1. Top = [Top EXCEPT !.refused = Top.refused]
    BY <1>1 DEF Frames
  <2> QED BY <2>1 DEF Decline, SkipInapplicable
<1>3. FrameInv([Notify([Top EXCEPT !.refused = refused], "before_skill(false)", "consider") EXCEPT
                  !.pos = @ + 1, !.skipped = Append(@, Chain[Top.agent][Top.pos])])
  BY <1>1, Skipping
<1> QED BY <1>2, <1>3, TopReplaced DEF Skip, SetTop, Skill

LEMMA StartSkillKeeps == IInv /\ StartSkill => IInv' /\ LeavesWaiting
<1> SUFFICES ASSUME IInv, StartSkill
             PROVE  IInv' /\ LeavesWaiting
  OBVIOUS
<1>1. /\ FrameInv(Top) /\ Top.pc = "consider" /\ Top.pos <= Len(Chain[Top.agent])
      /\ ~ (Top.concluded /\ Short[Top.agent])
  BY StackFacts DEF StartSkill, Considering, At
<1>2. FrameInv([Notify(Top, "before_skill(true)", "execute") EXCEPT !.called = FALSE])
  BY <1>1, Starting
<1> QED BY <1>2, TopReplaced DEF StartSkill, SetTop

LEMMA ExecuteKeeps == IInv /\ Execute => IInv' /\ LeavesWaiting
<1> SUFFICES ASSUME IInv, NEW lifted \in SUBSET Signals,
                    \/ \E delta \in Deltas, action \in {"none", "hint", "conclude"} :
                         SkillOk(lifted, delta, action)
                    \/ SkillErr(lifted)
             PROVE  IInv' /\ LeavesWaiting
  BY DEF Execute
<1>1. FrameInv(Top) /\ Top.pc = "execute"
  BY StackFacts DEF SkillOk, SkillErr, At
<1>2. ASSUME NEW delta \in Deltas, NEW action \in {"none", "hint", "conclude"},
             SkillOk(lifted, delta, action)
      PROVE  IInv' /\ LeavesWaiting
  <2> DEFINE ctx == [signals |-> Top.ctx.signals \cup lifted,
                     confidence |-> Clamp(Top.ctx.confidence + delta),
                     pending |-> action]
             g == [Notify(Top, "after_skill", "consider") EXCEPT
                     !.ctx = ctx, !.pos = @ + 1,
                     !.run = Append(@, Chain[Top.agent][Top.pos]),
                     !.concluded = @ \/ action = "conclude"]
  <2>1. FrameInv(g)
    BY <1>1, Succeeding, ZenonT(30)
  <2>2. stack' = Append(Rest, g) /\ UNCHANGED wired
    BY <1>2 DEF SkillOk, SetTop, Skill
  <2> QED BY <2>1, <2>2, TopReplaced
<1>3. ASSUME SkillErr(lifted)
      PROVE  IInv' /\ LeavesWaiting
  <2>1. FrameInv([Notify(Top, "step_error", "failed") EXCEPT !.ctx.signals = @ \cup lifted])
    BY <1>1, Failing
  <2> QED BY <1>3, <2>1, TopReplaced DEF SkillErr, SetTop
<1> QED BY <1>2, <1>3

LEMMA EndOfChainKeeps == IInv /\ EndOfChain => IInv' /\ LeavesWaiting
<1> SUFFICES ASSUME IInv, EndOfChain
             PROVE  IInv' /\ LeavesWaiting
  OBVIOUS
<1>1. FrameInv(Top) /\ Top.pc = "consider" /\ Top.pos > Len(Chain[Top.agent])
  BY StackFacts DEF EndOfChain, At
<1>2. FrameInv(Notify(Top, "after_step", "done"))
  BY <1>1, Ending
<1> QED BY <1>2, TopReplaced DEF EndOfChain, SetTop

LEMMA RouteStepKeeps == IInv /\ RouteStep => IInv' /\ LeavesWaiting
<1> SUFFICES ASSUME IInv, RouteStep
             PROVE  IInv' /\ LeavesWaiting
  OBVIOUS
<1> DEFINE to == Route(Top.agent, Top.ctx)
<1>1. FrameInv(Top) /\ Top.pc = "route"
  BY StackFacts DEF RouteStep, At
<1>2. Top.agent \in DOMAIN Rules /\ Top.ctx \in Context
  BY <1>1 DEF FrameInv, Frames, Control, Generic, Agents
<1>3. CASE to = NoAgent
  <2>1. FrameInv([Top EXCEPT !.pc = "done"])
    BY <1>1, Unrouted
  <2> QED BY <1>3, <2>1, TopReplaced DEF RouteStep
<1>4. CASE to # NoAgent
  <2>1. to \in Agents
    BY <1>2, <1>4, RouteKnows
  <2>2. FrameInv(Frame(to, Top.ctx))
    BY <1>2, <2>1, FrameBegins
  <2>3. stack' = Append(Rest, Frame(to, Top.ctx)) /\ UNCHANGED wired
    BY <1>4 DEF RouteStep
  <2> QED BY <2>2, <2>3, TopReplaced
<1> QED BY <1>3, <1>4

\* Whatever context a caller hands in, the delegate's step begins well.
LEMMA ContextsAreContexts ==
  ASSUME NEW signals \in SUBSET Signals
  PROVE  ContextsFromArgs(signals) \subseteq Context
<1>1. \A n \in Given : n \in Int /\ Clamp(n) \in Int
  BY ConfidenceAssumption DEF Clamp
<1> QED BY <1>1 DEF ContextsFromArgs, NewContext, Context

LEMMA CallDelegateKeeps ==
  ASSUME IInv, NEW a \in Agents, NEW signals \in SUBSET Signals, CallDelegate(a, signals)
  PROVE  IInv' /\ LeavesWaiting
<1>1. PICK ctx \in ContextsFromArgs(signals) :
        stack' = Append(Append(Rest, [Top EXCEPT !.called = TRUE]), Frame(a, ctx))
  BY DEF CallDelegate
<1> DEFINE waits == [Top EXCEPT !.called = TRUE]
           begins == Frame(a, ctx)
<1>2. FrameInv(Top) /\ Top.pc = "execute" /\ UNCHANGED wired
  BY StackFacts DEF CallDelegate, At
<1>3. FrameInv(waits) /\ waits.ctx = Top.ctx
  BY <1>2, Waiting DEF FrameInv, Frames
<1>4. FrameInv(begins)
  BY ContextsAreContexts, FrameBegins
<1>5. /\ Rest \in Seq(Frames) /\ Len(Rest) = Len(stack) - 1
      /\ \A k \in 1 .. Len(Rest) : Rest[k] = stack[k] /\ FrameInv(Rest[k])
      /\ Len(stack) \in Nat /\ Len(stack) >= 1 /\ wired \subseteq Delegates
  BY StackFacts DEF IInv
<1>6. stack' = Append(Append(Rest, waits), begins) /\ waits \in Frames /\ begins \in Frames
  BY <1>1, <1>3, <1>4 DEF FrameInv
<1> HIDE DEF waits, begins, Rest
<1>7. /\ stack' \in Seq(Frames) /\ Len(stack') = Len(stack) + 1
      /\ stack'[Len(stack)] = waits /\ stack'[Len(stack) + 1] = begins
      /\ \A k \in 1 .. Len(stack) - 1 : stack'[k] = stack[k] /\ FrameInv(stack[k])
  BY <1>5, <1>6
<1>8. ASSUME NEW k \in 1 .. Len(stack')
      PROVE  FrameInv(stack'[k])
  BY <1>3, <1>4, <1>5, <1>7
<1>9. IInv'
  BY <1>2, <1>5, <1>7, <1>8 DEF IInv
<1> QED BY <1>7, <1>9 DEF LeavesWaiting

LEMMA CallRefusedKeeps ==
  ASSUME IInv, NEW a \in Agents, CallRefused(a)
  PROVE  IInv' /\ LeavesWaiting
<1>1. FrameInv(Top) /\ Top.pc = "execute"
  BY StackFacts DEF CallRefused, At
<1>2. FrameInv([Top EXCEPT !.called = TRUE])
  BY <1>1, Waiting
<1> QED BY <1>2, TopReplaced DEF CallRefused, SetTop

LEMMA DelegateReturnsKeeps == IInv /\ DelegateReturns => IInv' /\ LeavesWaiting
<1> SUFFICES ASSUME IInv, DelegateReturns
             PROVE  IInv' /\ LeavesWaiting
  OBVIOUS
<1>1. /\ Rest \in Seq(Frames) /\ Len(Rest) = Len(stack) - 1
      /\ \A k \in 1 .. Len(Rest) : Rest[k] = stack[k] /\ FrameInv(Rest[k])
      /\ Len(stack) \in Nat /\ wired \subseteq Delegates
  BY StackFacts DEF IInv
<1>2. stack' = Rest /\ Len(stack) > 1 /\ UNCHANGED wired
  BY DEF DelegateReturns
<1> HIDE DEF Rest
<1>3. IInv'
  BY <1>1, <1>2 DEF IInv
<1> QED BY <1>1, <1>2, <1>3 DEF LeavesWaiting

LEMMA StepAgainKeeps == IInv /\ StepAgain => IInv' /\ LeavesWaiting
<1> SUFFICES ASSUME IInv, StepAgain
             PROVE  IInv' /\ LeavesWaiting
  OBVIOUS
<1>1. FrameInv(Top) /\ Top.ctx \in Context /\ wired \subseteq Delegates
  BY StackFacts DEF FrameInv, Frames, IInv
<1> DEFINE begins == Frame(Entry, Top.ctx)
<1>2. FrameInv(begins) /\ begins \in Frames
  BY <1>1, AgentsAssumption, FrameBegins DEF FrameInv
<1>3. stack' = <<begins>> /\ Len(stack) = 1 /\ UNCHANGED wired
  BY DEF StepAgain
<1> HIDE DEF begins
<1>4. IInv'
  BY <1>1, <1>2, <1>3 DEF IInv
<1> QED BY <1>3, <1>4 DEF LeavesWaiting

LEMMA WireKeeps ==
  ASSUME IInv, NEW a \in Agents, Wire(a)
  PROVE  IInv' /\ LeavesWaiting
BY DEF IInv, Wire, LeavesWaiting

----------------------------------------------------------------------------
(* The investigation                                                        *)

LEMMA InitInv == Init => IInv
<1> SUFFICES ASSUME NEW signals \in SUBSET Signals,
                    stack = <<Frame(Entry, NewContext(signals, 0))>>, wired = {}
             PROVE  IInv
  BY DEF Init
<1> DEFINE begins == Frame(Entry, NewContext(signals, 0))
<1>1. FrameInv(begins) /\ begins \in Frames
  BY AgentsAssumption, FrameBegins DEF NewContext, Context, FrameInv
<1> HIDE DEF begins
<1>2. stack = <<begins>>
  BY DEF begins
<1> QED BY <1>1, <1>2 DEF IInv

LEMMA NextInv == IInv /\ [Next]_vars => IInv' /\ LeavesWaiting
<1> SUFFICES ASSUME IInv, [Next]_vars
             PROVE  IInv' /\ LeavesWaiting
  OBVIOUS
<1>1. CASE StepCode
  BY <1>1, NotifyHookKeeps, SkipKeeps, StartSkillKeeps, EndOfChainKeeps, RouteStepKeeps,
     DelegateReturnsKeeps, ExecuteKeeps DEF StepCode
<1>2. ASSUME NEW a \in Agents, Wire(a)
      PROVE  IInv' /\ LeavesWaiting
  BY <1>2, WireKeeps
<1>3. ASSUME NEW a \in Agents, NEW signals \in SUBSET Signals, CallDelegate(a, signals)
      PROVE  IInv' /\ LeavesWaiting
  BY <1>3, CallDelegateKeeps
<1>4. CASE StepAgain
  BY <1>4, StepAgainKeeps
<1>5. ASSUME NEW a \in Agents, CallRefused(a)
      PROVE  IInv' /\ LeavesWaiting
  BY <1>5, CallRefusedKeeps
<1>6. CASE UNCHANGED vars
  BY <1>6 DEF vars, IInv, LeavesWaiting
<1> QED BY <1>1, <1>2, <1>3, <1>4, <1>5, <1>6 DEF Next

LEMMA Invariance == Spec => []IInv
BY InitInv, NextInv, PTL DEF Spec

\* However many hooks fail, and whichever, all of an agent's hooks have been told
\* the same story of its step (the notify_ methods of GenericAgent).
THEOREM HooksToldAlike == Spec => []HooksAgree
<1>1. IInv => HooksAgree
  BY DEF IInv, FrameInv, Agree, HooksAgree
<1> QED BY <1>1, Invariance, PTL

\* What StepAccounted says of a log.
ToldAll(log, place, chain, n, ran) ==
  /\ log # << >> /\ \A p \in DOMAIN log : InPlace(log, p, place)
  /\ Lists(Names(log), Where(log, Considerings), chain, n)
  /\ Lists(Names(log), Where(log, {"after_skill"}), ran, Len(ran))

LEMMA StoryTold ==
  ASSUME NEW log \in Seq(Events), NEW place \in {"done", "failed"}, NEW chain, NEW pos, NEW ran,
         Account(log, place, chain, pos, ran)
  PROVE  ToldAll(log, place, chain, IF place = "done" THEN pos - 1 ELSE pos, ran)
<1>1. Len(log) >= 1 /\ log # << >> /\ DOMAIN log = 1 .. Len(log)
  BY DEF Account
<1>2. \A p \in DOMAIN log : InPlace(log, p, place)
  BY <1>1 DEF Account, Ordered, InPlace
<1>3. Lists(Names(log), Where(log, Considerings), chain, IF place = "done" THEN pos - 1 ELSE pos)
  BY DEF Account
<1>4. Lists(Names(log), Where(log, {"after_skill"}), ran, Len(ran))
  BY DEF Account
<1> QED BY <1>1, <1>2, <1>3, <1>4 DEF ToldAll

\* However many hooks fail, every hook of a step that has ended was told a true
\* account of it: of a step that is done, every skill of its chain by name, once and
\* in order, and of a failed one those up to the skill that failed; which of them
\* ran is what the result says (the notify_ calls of GenericAgent::step).
THEOREM StoryComplete == Spec => []StepAccounted
<1>1. ASSUME NEW f, FrameInv(f), Generic(f), f.pc \in {"done", "failed"}
      PROVE  ToldAll(f.log[1], f.pc, Chain[f.agent],
                     IF f.pc = "done" THEN Len(Chain[f.agent]) ELSE f.pos, f.run)
  <2>1. f.log[1] = f.log[Hooks] /\ f \in Frames /\ f.log[1] \in Seq(Events)
    BY <1>1 DEF FrameInv, Agree, Frames
  <2>2. Account(f.log[1], f.pc, Chain[f.agent], f.pos, f.run)
    BY <1>1, <2>1 DEF FrameInv, Accounted, Story, Place
  <2>3. ToldAll(f.log[1], f.pc, Chain[f.agent], IF f.pc = "done" THEN f.pos - 1 ELSE f.pos, f.run)
    BY <1>1, <2>1, <2>2, StoryTold
  <2>4. f.pc = "done" => f.pos - 1 = Len(Chain[f.agent])
    <3>1. Len(Chain[f.agent]) \in Nat
      BY <1>1, ChainAssumption DEF Generic
    <3>2. f.pc = "done" => f.pos = Len(Chain[f.agent]) + 1
      BY <1>1 DEF FrameInv, DealtWith, Place
    <3> QED BY <3>1, <3>2
  <2> QED BY <2>3, <2>4
<1>2. ASSUME \A k \in DOMAIN stack : Generic(stack[k]) /\ stack[k].pc \in {"done", "failed"} =>
               ToldAll(stack[k].log[1], stack[k].pc, Chain[stack[k].agent],
                       IF stack[k].pc = "done" THEN Len(Chain[stack[k].agent]) ELSE stack[k].pos,
                       stack[k].run)
      PROVE  StepAccounted
  BY <1>2 DEF StepAccounted, ToldAll
<1>3. IInv => StepAccounted
  BY <1>1, <1>2 DEF IInv
<1> QED BY <1>3, Invariance, PTL

\* A chain of any length, with skills repeated in it or not: what a step reports
\* as run and as skipped are disjoint parts of it, in order, and a skill it reports as
\* neither said that it does not apply, whatever concludes, fails or delegates
\* (GenericAgent::step).
THEOREM ChainsDealtWith == Spec => []ChainReported
<1>1. ASSUME NEW f, FrameInv(f), Generic(f), f.pc = "done"
      PROVE  Reported(Chain[f.agent], Len(Chain[f.agent]), f.run, f.skipped, f.refused)
  <2>1. /\ f.pos = Len(Chain[f.agent]) + 1
        /\ Reported(Chain[f.agent], f.pos - 1, f.run, f.skipped, f.refused)
    BY <1>1 DEF FrameInv, DealtWith, Place
  <2>2. Len(Chain[f.agent]) \in Nat
    BY <1>1, ChainAssumption DEF Generic
  <2>3. f.pos - 1 = Len(Chain[f.agent])
    BY <2>1, <2>2
  <2> QED BY <2>1, <2>3
<1>2. IInv => ChainReported
  BY <1>1 DEF IInv, ChainReported
<1> QED BY <1>2, Invariance, PTL

\* In a chain of any length that short-circuits, the skill that concludes is the
\* last that runs, and its conclusion the one the caller finds.
THEOREM ConclusionStands == Spec => []ConclusionIsLast
<1>1. ASSUME NEW f, FrameInv(f)
      PROVE  Generic(f) /\ f.concluded /\ Short[f.agent] =>
               f.ctx.pending = "conclude" /\ f.pc # "execute"
  BY <1>1 DEF FrameInv, Concluded, Place
<1>2. IInv => ConclusionIsLast
  BY <1>1 DEF IInv, ConclusionIsLast
<1> QED BY <1>2, Invariance, PTL

\* At any depth of delegation, no step touches the context of one that waits for
\* its delegate: DelegateTool gives the delegate a context of its own.
THEOREM WaitingUntouched == Spec => DelegatesIsolated
<1>1. IInv /\ [Next]_vars =>
        [\A k \in 1 .. Len(stack) - 1 :
           k \in DOMAIN stack' => stack'[k].ctx = stack[k].ctx]_vars
  BY NextInv DEF LeavesWaiting
<1> QED BY <1>1, Invariance, PTL DEF Spec, DelegatesIsolated
=============================================================================
