-------------------------- MODULE ContextPack_proofs --------------------------
(***************************************************************************)
(* What ContextPack::pack promises for any items, configuration and width  *)
(* of usize: no addition overflows, the budget is kept, no item is lost     *)
(* and no omission is needless.                                             *)
(***************************************************************************)
EXTENDS ContextPack, Sums_proofs, SequenceTheorems, TLAPS

\* Nothing is selected yet when the items are sorted, and what costs nothing
\* yet is an empty selection.
Fresh ==
  /\ pc = "sort" => next = 1 /\ selected = <<>> /\ omitted = <<>> /\ total = 0
  /\ selected = <<>> => total = 0

\* The second conjunct of FitsTheWindow and its third.
KeepsBudget == (total = 0 \/ total <= Room) /\ Len(selected) <= config.maxItems

IInv == TypeOK /\ Fresh /\ KeepsBudget /\ EveryItemAccounted /\ OmissionsAreReal

----------------------------------------------------------------------------

LEMMA ConfigFacts ==
  ASSUME config \in Configs
  PROVE  /\ config.maxChars \in Nat /\ config.maxItems \in Nat
         /\ config.reserve \in Nat /\ config.separator \in Nat
         /\ Room \in Int /\ Budget \in Nat
         /\ Room <= Budget /\ Room <= MaxUsize
         /\ \A n \in Nat : n <= Budget <=> n = 0 \/ n <= Room
  BY ConfigsAssumption, BoundsAssumption DEF Room, Budget

LEMMA ItemFacts ==
  ASSUME NEW item \in Item
  PROVE  /\ item.shape.estimated \in Nat /\ item.shape.text \in Nat
         /\ ItemChars(item) \in Nat
         /\ ItemChars(item) = item.shape.estimated \/ ItemChars(item) = item.shape.text
         /\ item.shape.estimated <= ItemChars(item) /\ item.shape.text <= ItemChars(item)
<1>1. item.shape \in [rank : Nat, estimated : Nat, text : Nat]
  BY ShapesAssumption DEF Item
<1> QED BY <1>1 DEF ItemChars

LEMMA InitInv == Init => IInv
<1> SUFFICES ASSUME Init PROVE IInv
  OBVIOUS
<1>1. PICK n \in 0 .. MaxGiven : \E shapes \in [1 .. n -> Shapes] :
        items = [i \in 1 .. n |-> [shape |-> shapes[i], id |-> i]]
  BY DEF Init
<1>2. PICK shapes \in [1 .. n -> Shapes] :
        items = [i \in 1 .. n |-> [shape |-> shapes[i], id |-> i]]
  BY <1>1
<1>3. n \in Nat /\ \A i \in 1 .. n : i \in 1 .. MaxGiven
  BY BoundsAssumption
<1>4. \A i \in 1 .. n : [shape |-> shapes[i], id |-> i] \in Item
  BY <1>2, <1>3 DEF Item
<1>5. items \in Seq(Item) /\ Len(items) = n
  BY <1>2, <1>3, <1>4
<1>6. TypeOK
  BY <1>3, <1>5, BoundsAssumption DEF Init, TypeOK
<1>7. Fresh /\ KeepsBudget /\ EveryItemAccounted /\ OmissionsAreReal
  BY ConfigFacts DEF Init, Fresh, KeepsBudget, EveryItemAccounted, OmissionsAreReal
<1> QED BY <1>6, <1>7 DEF IInv

LEMMA RearrangedType ==
  ASSUME items \in Seq(Item), NEW p \in Orders
  PROVE  Rearranged(p) \in Seq(Item) /\ Len(Rearranged(p)) = Len(items)
<1>1. p \in [1 .. Len(items) -> 1 .. Len(items)]
  BY DEF Orders, Bijection, Injection, Surjection
<1> QED BY <1>1 DEF Rearranged

LEMMA SortInv == IInv /\ Sort => IInv'
<1> SUFFICES ASSUME IInv, Sort PROVE IInv'
  OBVIOUS
<1>1. PICK p \in Orders : items' = Rearranged(p)
  BY DEF Sort
<1>2. items' \in Seq(Item) /\ Len(items') = Len(items)
  BY <1>1, RearrangedType DEF IInv, TypeOK
<1>3. /\ pc = "sort" /\ pc' = "loop" /\ next = 1 /\ selected = <<>> /\ omitted = <<>> /\ total = 0
      /\ UNCHANGED <<config, next, selected, omitted, total, before, pass>>
  BY DEF Sort, IInv, Fresh
<1>4. TypeOK'
  BY <1>2, <1>3 DEF IInv, TypeOK
<1>5. (Fresh /\ KeepsBudget /\ EveryItemAccounted /\ OmissionsAreReal)'
  BY <1>3 DEF IInv, Fresh, KeepsBudget, EveryItemAccounted, OmissionsAreReal, Room
<1> QED BY <1>4, <1>5 DEF IInv

----------------------------------------------------------------------------
(* One turn of the loop.                                                   *)

LEMMA PackFacts ==
  ASSUME IInv, Pack
  PROVE  /\ next \in 1 .. Len(items) /\ next \in Nat /\ Len(items) \in Nat /\ next' = next + 1
         /\ items \in Seq(Item) /\ items[next] \in Item
         /\ selected \in Seq(Item) /\ total \in Nat /\ config \in Configs
         /\ omitted \in Seq(OmittedContextItem)
         /\ UNCHANGED <<config, items, before, pass, pc>> /\ pc = "loop"
  BY BoundsAssumption DEF IInv, TypeOK, Pack

LEMMA SelectInv == IInv /\ Pack /\ Select(items[next]) => IInv'
<1> SUFFICES ASSUME IInv, Pack, Select(items[next]) PROVE IInv'
  OBVIOUS
<1> DEFINE item == items[next]
           chars == ItemChars(item)
<1>1. /\ next \in 1 .. Len(items) /\ next \in Nat /\ Len(items) \in Nat /\ next' = next + 1
      /\ items \in Seq(Item) /\ item \in Item
      /\ selected \in Seq(Item) /\ total \in Nat /\ config \in Configs
      /\ omitted \in Seq(OmittedContextItem)
      /\ UNCHANGED <<config, items, before, pass, pc>> /\ pc = "loop"
  BY PackFacts
<1>2. /\ Len(selected) < config.maxItems /\ selected' = Append(selected, item)
      /\ total' = NextTotal(item) /\ omitted' = omitted
      /\ NextTotal(item) <= MaxUsize /\ NextTotal(item) <= Budget
  BY DEF Select, Fits
<1>3. /\ config.maxItems \in Nat /\ config.separator \in Nat /\ Room \in Int
      /\ \A n \in Nat : n <= Budget <=> n = 0 \/ n <= Room
  BY <1>1, ConfigFacts
<1>4. chars \in Nat
  BY <1>1, ItemFacts
<1>5. /\ NextTotal(item) = total + (IF selected = <<>> THEN 0 ELSE config.separator) + chars
      /\ NextTotal(item) \in Nat
  BY <1>1, <1>3, <1>4 DEF NextTotal, SeparatorCost
<1>6. /\ selected' \in Seq(Item) /\ Len(selected') = Len(selected) + 1 /\ selected' # <<>>
      /\ selected'[Len(selected) + 1] = item
      /\ \A k \in 1 .. Len(selected) : selected'[k] = selected[k]
  BY <1>1, <1>2
<1>7. TypeOK'
  BY <1>1, <1>2, <1>5, <1>6, BoundsAssumption DEF IInv, TypeOK
<1>8. Fresh'
  BY <1>1, <1>6 DEF Fresh
<1>9. KeepsBudget'
  <2>1. total' = 0 \/ total' <= Room
    BY <1>2, <1>3, <1>5
  <2>2. Room' = Room /\ Len(selected') <= config.maxItems
    BY <1>1, <1>2, <1>3, <1>6 DEF Room
  <2> QED BY <1>1, <2>1, <2>2 DEF KeepsBudget
<1>10. EveryItemAccounted'
  <2>1. Len(selected') + Len(omitted') = next
    BY <1>1, <1>2, <1>6 DEF IInv, EveryItemAccounted
  <2>2. ASSUME NEW i \in 1 .. next
        PROVE  \/ \E k \in 1 .. Len(selected') : selected'[k] = items[i]
               \/ \E k \in 1 .. Len(omitted') : omitted'[k].item = items[i]
    <3>1. Len(selected) \in Nat
      BY <1>1
    <3>2. CASE i = next
      <4>1. Len(selected) + 1 \in 1 .. Len(selected')
        BY <3>1, <1>6
      <4> QED BY <3>2, <4>1, <1>6
    <3>3. CASE i \in 1 .. next - 1
      <4>1. CASE \E k \in 1 .. Len(selected) : selected[k] = items[i]
        <5>1. PICK k \in 1 .. Len(selected) : selected[k] = items[i]
          BY <4>1
        <5>2. k \in 1 .. Len(selected') /\ selected'[k] = items[i]
          BY <5>1, <3>1, <1>6
        <5> QED BY <5>2
      <4>2. CASE \E k \in 1 .. Len(omitted) : omitted[k].item = items[i]
        BY <4>2, <1>2
      <4> QED BY <3>3, <4>1, <4>2 DEF IInv, EveryItemAccounted
    <3>4. i = next \/ i \in 1 .. next - 1
      BY <1>1
    <3> QED BY <3>2, <3>3, <3>4
  <2>3. next' - 1 = next /\ items' = items
    BY <1>1
  <2> QED BY <2>1, <2>2, <2>3 DEF EveryItemAccounted
<1>11. OmissionsAreReal'
  <2> SUFFICES ASSUME NEW k \in 1 .. Len(omitted)
               PROVE  IF omitted[k].reason = "MaxItems"
                        THEN Len(selected') >= config.maxItems
                        ELSE \/ total' + config.separator + omitted[k].item.shape.estimated > Room
                             \/ total' + config.separator + omitted[k].item.shape.text > Room
    BY <1>1, <1>2, <1>6 DEF OmissionsAreReal, Room
  <2> DEFINE record == omitted[k]
             joined == IF selected = <<>> THEN 0 ELSE total + config.separator
  <2>1. record \in OmittedContextItem
    BY <1>1
  <2>2. record.item \in Item
    BY <2>1 DEF OmittedContextItem
  <2>3. record.item.shape.estimated \in Nat /\ record.item.shape.text \in Nat
    BY <2>2, ItemFacts
  <2>4. IF record.reason = "MaxItems"
          THEN Len(selected) >= config.maxItems
          ELSE joined + record.item.shape.estimated > Room \/ joined + record.item.shape.text > Room
    BY DEF IInv, OmissionsAreReal
  <2>5. record.reason # "MaxItems"
    <3>1. Len(selected) \in Nat
      BY <1>1
    <3> QED BY <1>2, <1>3, <2>4, <3>1
  <2>6. joined \in Nat /\ total' \in Nat /\ joined <= total' + config.separator
    <3> DEFINE t == total'
               sep == config.separator
    <3>1. t = total + (IF selected = <<>> THEN 0 ELSE sep) + chars
      BY <1>2, <1>5
    <3>2. total \in Nat /\ sep \in Nat /\ chars \in Nat
      BY <1>1, <1>3, <1>4
    <3> HIDE DEF t, sep, chars
    <3>3. CASE selected = <<>>
      BY <3>1, <3>2, <3>3 DEF sep, t
    <3>4. CASE selected # <<>>
      BY <3>1, <3>2, <3>4 DEF sep, t
    <3> QED BY <3>3, <3>4
  <2> HIDE DEF joined, record
  <2>7. \A n \in Nat : joined + n > Room => total' + config.separator + n > Room
    BY <1>3, <2>6
  <2>8. \/ total' + config.separator + record.item.shape.estimated > Room
        \/ total' + config.separator + record.item.shape.text > Room
    BY <2>3, <2>4, <2>5, <2>7
  <2> QED BY <2>5, <2>8 DEF record
<1> QED BY <1>7, <1>8, <1>9, <1>10, <1>11 DEF IInv

LEMMA OmitInv ==
  ASSUME IInv, Pack, NEW reason \in {"MaxItems", "OverBudget"},
         Omit(items[next], reason),
         IF reason = "MaxItems" THEN Len(selected) >= config.maxItems ELSE ~ Fits(items[next])
  PROVE  IInv'
<1> DEFINE item == items[next]
           chars == ItemChars(item)
           joined == IF selected = <<>> THEN 0 ELSE total + config.separator
<1>1. /\ next \in 1 .. Len(items) /\ next \in Nat /\ Len(items) \in Nat /\ next' = next + 1
      /\ items \in Seq(Item) /\ item \in Item
      /\ selected \in Seq(Item) /\ total \in Nat /\ config \in Configs
      /\ omitted \in Seq(OmittedContextItem)
      /\ UNCHANGED <<config, items, before, pass, pc>> /\ pc = "loop"
  BY PackFacts
<1>2. /\ omitted' = Append(omitted, [item |-> item, reason |-> reason])
      /\ selected' = selected /\ total' = total
  BY DEF Omit
<1>3. /\ omitted' \in Seq(OmittedContextItem)
      /\ Len(omitted') = Len(omitted) + 1 /\ Len(omitted) \in Nat
      /\ omitted'[Len(omitted) + 1] = [item |-> item, reason |-> reason]
      /\ \A k \in 1 .. Len(omitted) : omitted'[k] = omitted[k]
  <2>1. [item |-> item, reason |-> reason] \in OmittedContextItem
    BY <1>1 DEF OmittedContextItem
  <2> QED BY <1>1, <1>2, <2>1
<1>4. TypeOK'
  BY <1>1, <1>2, <1>3 DEF IInv, TypeOK
<1>5. Fresh' /\ KeepsBudget'
  BY <1>1, <1>2 DEF IInv, Fresh, KeepsBudget, Room
<1>6. EveryItemAccounted'
  <2>1. Len(selected') + Len(omitted') = next
    <3>1. Len(selected) + Len(omitted) = next - 1
      BY DEF IInv, EveryItemAccounted
    <3> QED BY <1>1, <1>2, <1>3, <3>1
  <2>2. ASSUME NEW i \in 1 .. next
        PROVE  \/ \E k \in 1 .. Len(selected') : selected'[k] = items[i]
               \/ \E k \in 1 .. Len(omitted') : omitted'[k].item = items[i]
    <3>1. CASE i = next
      <4>1. Len(omitted) + 1 \in 1 .. Len(omitted')
        BY <1>3
      <4>2. omitted'[Len(omitted) + 1].item = items[i]
        BY <3>1, <1>3
      <4> QED BY <4>1, <4>2
    <3>2. CASE i \in 1 .. next - 1
      <4>1. CASE \E k \in 1 .. Len(selected) : selected[k] = items[i]
        BY <4>1, <1>2
      <4>2. CASE \E k \in 1 .. Len(omitted) : omitted[k].item = items[i]
        <5>1. PICK k \in 1 .. Len(omitted) : omitted[k].item = items[i]
          BY <4>2
        <5>2. k \in 1 .. Len(omitted') /\ omitted'[k].item = items[i]
          BY <5>1, <1>3
        <5> QED BY <5>2
      <4> QED BY <3>2, <4>1, <4>2 DEF IInv, EveryItemAccounted
    <3>3. i = next \/ i \in 1 .. next - 1
      BY <1>1
    <3> QED BY <3>1, <3>2, <3>3
  <2>3. next' - 1 = next /\ items' = items
    BY <1>1
  <2> QED BY <2>1, <2>2, <2>3 DEF EveryItemAccounted
<1>7. reason = "OverBudget" => joined + chars > Room
  <2> SUFFICES ASSUME reason = "OverBudget" PROVE joined + chars > Room
    OBVIOUS
  <2>1. /\ config.separator \in Nat /\ Room \in Int /\ Budget \in Nat
        /\ Room <= Budget /\ Room <= MaxUsize
    BY <1>1, ConfigFacts
  <2>2. chars \in Nat
    BY <1>1, ItemFacts
  <2>3. NextTotal(item) = joined + chars
    BY <1>1, <2>1, <2>2 DEF NextTotal, SeparatorCost, IInv, Fresh
  <2>4. joined \in Nat
    BY <1>1, <2>1
  <2>5. joined + chars > MaxUsize \/ joined + chars > Budget
    BY <2>1, <2>2, <2>3, <2>4, BoundsAssumption DEF Fits
  <2> QED BY <2>1, <2>2, <2>4, <2>5, BoundsAssumption
<1>8. OmissionsAreReal'
  <2> SUFFICES ASSUME NEW k \in 1 .. Len(omitted')
               PROVE  IF omitted'[k].reason = "MaxItems"
                        THEN Len(selected) >= config.maxItems
                        ELSE \/ joined + omitted'[k].item.shape.estimated > Room
                             \/ joined + omitted'[k].item.shape.text > Room
    BY <1>1, <1>2 DEF OmissionsAreReal, Room
  <2>1. CASE k \in 1 .. Len(omitted)
    BY <2>1, <1>3 DEF IInv, OmissionsAreReal
  <2>2. CASE k = Len(omitted) + 1
    <3>1. omitted'[k].item = item /\ omitted'[k].reason = reason
      BY <1>3, <2>2
    <3>2. chars = item.shape.estimated \/ chars = item.shape.text
      BY <1>1, ItemFacts
    <3> QED BY <1>7, <3>1, <3>2
  <2> QED BY <1>3, <2>1, <2>2
<1> QED BY <1>4, <1>5, <1>6, <1>8 DEF IInv

LEMMA PackInv == IInv /\ Pack => IInv'
<1> SUFFICES ASSUME IInv, Pack PROVE IInv'
  OBVIOUS
<1>1. CASE TooMany(items[next])
  BY <1>1, OmitInv DEF TooMany
<1>2. CASE TooLong(items[next])
  BY <1>2, OmitInv DEF TooLong
<1>3. CASE Select(items[next])
  BY <1>3, SelectInv
<1> QED BY <1>1, <1>2, <1>3 DEF Pack

----------------------------------------------------------------------------

LEMMA ReplayInv == IInv /\ Replay => IInv'
<1> SUFFICES ASSUME IInv, Replay PROVE IInv'
  OBVIOUS
<1>1. PICK p \in Orders : items' = Rearranged(p)
  BY DEF Replay
<1>2. items' \in Seq(Item) /\ Len(items') = Len(items)
  BY <1>1, RearrangedType DEF IInv, TypeOK
<1>3. TypeOK'
  BY <1>2, BoundsAssumption DEF IInv, TypeOK, Replay
<1>4. (Fresh /\ KeepsBudget /\ EveryItemAccounted /\ OmissionsAreReal)'
  BY ConfigFacts DEF IInv, TypeOK, Replay, Fresh, KeepsBudget, EveryItemAccounted,
                     OmissionsAreReal, Room
<1> QED BY <1>3, <1>4 DEF IInv

LEMMA NextInv == IInv /\ [Next]_vars => IInv'
<1> SUFFICES ASSUME IInv, [Next]_vars PROVE IInv'
  OBVIOUS
<1>1. CASE Sort
  BY <1>1, SortInv
<1>2. CASE Pack
  BY <1>2, PackInv
<1>3. CASE Return
  BY <1>3 DEF Return, IInv, TypeOK, Fresh, KeepsBudget, EveryItemAccounted, OmissionsAreReal, Room
<1>4. CASE Replay
  BY <1>4, ReplayInv
<1>5. CASE UNCHANGED vars
  BY <1>5 DEF vars, IInv, TypeOK, Fresh, KeepsBudget, EveryItemAccounted, OmissionsAreReal, Room
<1> QED BY <1>1, <1>2, <1>3, <1>4, <1>5 DEF Next

\* The loop of pack always satisfies its invariant.
THEOREM Invariance == Spec => []IInv
  BY InitInv, NextInv, PTL DEF Spec

----------------------------------------------------------------------------
(* What is rendered.                                                       *)

Texts(items_) == [k \in 1 .. Len(items_) |-> items_[k].shape.text]

LEMMA TextsGrow ==
  ASSUME NEW s \in Seq(Item), NEW item \in Item
  PROVE  /\ SumFunction(Texts(s)) \in Int
         /\ SumFunction(Texts(Append(s, item))) = SumFunction(Texts(s)) + item.shape.text
<1> DEFINE t == Append(s, item)
           S == 1 .. Len(s)
           T == 1 .. Len(t)
           n == Len(s) + 1
           f == Texts(s)
           g == Texts(t)
<1>1. Len(s) \in Nat /\ \A k \in S : s[k] \in Item
  BY ElementOfSeq, LenProperties
<1>2. Len(t) = n /\ t[n] = item /\ \A k \in S : t[k] = s[k]
  BY <1>1, AppendProperties
<1>3. S \in SUBSET T /\ n \in T /\ \A k \in T : k \in S <=> k # n
  BY <1>1, <1>2
<1>4. IsFiniteSet(T)
  BY <1>1, <1>2, FS_Interval
<1>5. f \in [S -> Int]
  BY <1>1, ItemFacts DEF Texts
<1>6. g \in [T -> Int] /\ g[n] = item.shape.text /\ \A k \in S : g[k] = f[k]
  <2> HIDE DEF t, n
  <2>1. \A k \in T : t[k] \in Item
    BY <1>1, <1>2, <1>3
  <2> QED BY <1>2, <1>3, <2>1, ItemFacts DEF Texts
<1>7. SumFunction(g) = SumFunction(f) + g[n] /\ SumFunction(f) \in Int
  <2> HIDE DEF S, T, f, g, n
  <2>1. g \in [T -> Int] /\ \A k \in S : g[k] = f[k]
    BY <1>6
  <2>2. SumFunction(g) = SumFunction(f) + g[n]
    BY <1>3, <1>4, <1>5, <2>1, SumExtend
  <2>3. SumFunction(f) \in Int
    BY <1>3, <1>4, <1>5, <2>1, SumExtend
  <2> QED BY <2>2, <2>3
<1> QED BY <1>6, <1>7

LEMMA NoTexts == SumFunction(Texts(<<>>)) = 0
<1>1. Texts(<<>>) \in [{} -> Int] /\ IsFiniteSet({})
  BY FS_EmptySet DEF Texts
<1> QED BY <1>1, SumOfNothing

\* The first conjunct of FitsTheWindow, without the special case of no item.
RenderInv ==
  selected # <<>> => SumFunction(Texts(selected)) + (Len(selected) - 1) * config.separator <= total

LEMMA RenderStep == IInv /\ IInv' /\ RenderInv /\ [Next]_vars => RenderInv'
<1> SUFFICES ASSUME IInv, IInv', RenderInv, [Next]_vars PROVE RenderInv'
  OBVIOUS
<1>1. CASE selected' = selected /\ total' = total /\ config' = config
  BY <1>1 DEF RenderInv
<1>2. CASE selected' = <<>>
  BY <1>2 DEF RenderInv
<1>3. CASE Pack /\ Select(items[next])
  <2> DEFINE item == items[next]
             n == Len(selected)
             sep == config.separator
             sum == SumFunction(Texts(selected))
  <2>1. /\ item \in Item /\ selected \in Seq(Item) /\ total \in Nat /\ config \in Configs
        /\ config' = config /\ selected' = Append(selected, item)
        /\ total' = total + SeparatorCost + ItemChars(item)
    BY <1>3, PackFacts DEF Select, NextTotal
  <2>2. /\ item.shape.text \in Nat /\ ItemChars(item) \in Nat /\ item.shape.text <= ItemChars(item)
        /\ sep \in Nat /\ n \in Nat /\ Len(selected') = n + 1
    BY <2>1, ItemFacts, ConfigFacts
  <2>3. sum \in Int /\ SumFunction(Texts(selected')) = sum + item.shape.text
    BY <2>1, TextsGrow
  <2>4. CASE selected = <<>>
    <3>1. sum = 0 /\ n = 0 /\ SeparatorCost = 0 /\ (n + 1 - 1) * sep = 0
      BY <2>2, <2>4, NoTexts DEF SeparatorCost
    <3> QED BY <2>1, <2>2, <2>3, <3>1 DEF RenderInv
  <2>5. CASE selected # <<>>
    <3>1. SeparatorCost = sep /\ sum + (n - 1) * sep <= total
      BY <2>5 DEF SeparatorCost, RenderInv
    <3>2. (n + 1 - 1) * sep = (n - 1) * sep + sep /\ (n - 1) * sep \in Int
      BY <2>2
    <3> DEFINE old == (n - 1) * sep
               new == (n + 1 - 1) * sep
               text == item.shape.text
               chars == ItemChars(item)
    <3>3. sum + text + new <= total + sep + chars
      <4>1. /\ sum + old <= total /\ new = old + sep /\ old \in Int /\ text <= chars
            /\ sum \in Int /\ total \in Nat /\ sep \in Nat /\ text \in Nat /\ chars \in Nat
        BY <2>1, <2>2, <2>3, <3>1, <3>2
      <4> HIDE DEF sum, sep, old, new, text, chars
      <4> QED BY <4>1
    <3> HIDE DEF n, sum
    <3> QED BY <2>1, <2>2, <2>3, <3>1, <3>3 DEF RenderInv, sep
  <2> QED BY <2>4, <2>5
<1> QED BY <1>1, <1>2, <1>3 DEF Next, Sort, Pack, TooMany, TooLong, Omit, Return, Replay, vars

\* The rendered text, separators included, is within the running total and so
\* within what the config leaves for context, whatever the estimates say.
THEOREM WindowFits == Spec => []FitsTheWindow
<1>1. Init => RenderInv
  BY DEF Init, RenderInv
<1>2. IInv /\ RenderInv => FitsTheWindow
  <2> SUFFICES ASSUME IInv, RenderInv PROVE RenderedChars <= total
    BY DEF IInv, KeepsBudget, FitsTheWindow
  <2> QED BY BoundsAssumption DEF RenderedChars, RenderInv, Texts, IInv, TypeOK
<1> QED BY <1>1, <1>2, RenderStep, Invariance, PTL DEF Spec

----------------------------------------------------------------------------

\* The total pack reports fits a usize: the additions that are kept never
\* overflow, for any estimates.
THEOREM TypeCorrect == Spec => []TypeOK
<1>1. IInv => TypeOK
  BY DEF IInv
<1> QED BY <1>1, Invariance, PTL

\* The characters counted stay within the budget and the items within the
\* limit, for any configuration.
THEOREM BudgetKept == Spec => []KeepsBudget
<1>1. IInv => KeepsBudget
  BY DEF IInv
<1> QED BY <1>1, Invariance, PTL

\* pack loses no item: each is selected or recorded as omitted.
THEOREM NothingLost == Spec => []EveryItemAccounted
<1>1. IInv => EveryItemAccounted
  BY DEF IInv
<1> QED BY <1>1, Invariance, PTL

\* Every recorded omission still has its reason beside the final selection.
THEOREM NoNeedlessOmission == Spec => []OmissionsAreReal
<1>1. IInv => OmissionsAreReal
  BY DEF IInv
<1> QED BY <1>1, Invariance, PTL

----------------------------------------------------------------------------
(* Packing the same items again                                             *)

\* One turn of the loop, as a function of what is selected and its total.
JoinedTotal(c, s, item) ==
  s.total + (IF s.selected = <<>> THEN 0 ELSE c.separator) + ItemChars(item)

Takes(c, s, item) ==
  /\ Len(s.selected) < c.maxItems
  /\ JoinedTotal(c, s, item) <= MaxUsize
  /\ JoinedTotal(c, s, item) <= IF c.reserve < c.maxChars THEN c.maxChars - c.reserve ELSE 0

After(c, s, item) ==
  IF Takes(c, s, item)
    THEN [selected |-> Append(s.selected, item), total |-> JoinedTotal(c, s, item)]
    ELSE s

\* h holds what was selected after each of the first n turns.
IsHistory(h, c, list, n) ==
  /\ h[0] = [selected |-> <<>>, total |-> 0]
  /\ \A k \in 0 .. n - 1 : h[k + 1] = After(c, h[k], list[k + 1])

PacksTo(c, list, n, s) == \E h : IsHistory(h, c, list, n) /\ h[n] = s

\* What is selected follows from the configuration and the order of the items.
LEMMA Determined ==
  ASSUME NEW c, NEW list, NEW n \in Nat, NEW s, NEW t, PacksTo(c, list, n, s), PacksTo(c, list, n, t)
  PROVE  s = t
<1>1. PICK g : IsHistory(g, c, list, n) /\ g[n] = s
  BY DEF PacksTo
<1>2. PICK h : IsHistory(h, c, list, n) /\ h[n] = t
  BY DEF PacksTo
<1> DEFINE P == {k \in Nat : k <= n => g[k] = h[k]}
<1>3. 0 \in P
  BY <1>1, <1>2 DEF IsHistory
<1>4. ASSUME NEW k \in P PROVE k + 1 \in P
  <2> SUFFICES ASSUME k + 1 <= n PROVE g[k + 1] = h[k + 1]
    OBVIOUS
  <2>1. k \in 0 .. n - 1 /\ g[k] = h[k]
    OBVIOUS
  <2> QED BY <2>1, <1>1, <1>2 DEF IsHistory
<1>5. P = Nat
  BY <1>3, <1>4, SetInduction
<1> QED BY <1>1, <1>2, <1>5

\* An increasing function on 1..n never falls behind.
LEMMA IncreasingKeepsUp ==
  ASSUME NEW n \in Nat, NEW f \in [1 .. n -> 1 .. n], \A j, k \in 1 .. n : j < k => f[j] < f[k]
  PROVE  \A k \in 1 .. n : f[k] >= k
<1> DEFINE P == {k \in Nat : k \in 1 .. n => f[k] >= k}
<1>1. 0 \in P
  OBVIOUS
<1>2. ASSUME NEW k \in P PROVE k + 1 \in P
  <2> SUFFICES ASSUME k + 1 \in 1 .. n PROVE f[k + 1] >= k + 1
    OBVIOUS
  <2>1. f[k + 1] \in 1 .. n
    OBVIOUS
  <2>2. CASE k = 0
    BY <2>1, <2>2
  <2>3. CASE k # 0
    <3>1. k \in 1 .. n /\ f[k] \in 1 .. n /\ f[k] >= k
      BY <2>3
    <3>2. f[k] < f[k + 1]
      BY <3>1
    <3> QED BY <2>1, <3>1, <3>2
  <2> QED BY <2>2, <2>3
<1>3. P = Nat
  BY <1>1, <1>2, SetInduction
<1> QED BY <1>3

\* The only increasing order is the one given.
LEMMA IncreasingIsIdentity ==
  ASSUME NEW n \in Nat, NEW p \in Bijection(1 .. n, 1 .. n),
         \A j, k \in 1 .. n : j < k => p[j] < p[k]
  PROVE  \A k \in 1 .. n : p[k] = k
<1>1. /\ p \in [1 .. n -> 1 .. n]
      /\ \A j, k \in 1 .. n : p[j] = p[k] => j = k
      /\ \A k \in 1 .. n : \E j \in 1 .. n : p[j] = k
  BY DEF Bijection, Injection, IsInjective, Surjection
<1> DEFINE q == [k \in 1 .. n |-> CHOOSE j \in 1 .. n : p[j] = k]
<1>2. q \in [1 .. n -> 1 .. n] /\ \A k \in 1 .. n : p[q[k]] = k
  BY <1>1
<1> HIDE DEF q
<1>3. ASSUME NEW j \in 1 .. n, NEW k \in 1 .. n, j < k PROVE q[j] < q[k]
  <2>1. q[j] \in 1 .. n /\ q[k] \in 1 .. n /\ p[q[j]] = j /\ p[q[k]] = k
    BY <1>2
  <2>2. ~(q[k] < q[j]) /\ q[j] # q[k]
    BY <2>1, <1>3
  <2> QED BY <2>1, <2>2
<1>4. ASSUME NEW k \in 1 .. n PROVE p[k] = k
  <2>1. p[k] \in 1 .. n /\ p[k] >= k
    BY <1>1, IncreasingKeepsUp
  <2>2. q[p[k]] = k
    BY <2>1, <1>1, <1>2
  <2>3. q[p[k]] >= p[k]
    BY <1>2, <1>3, <2>1, IncreasingKeepsUp
  <2> QED BY <2>1, <2>2, <2>3
<1> QED BY <1>4

ByRank(list) == \A j, k \in 1 .. Len(list) : j < k => Rank(list[j]) <= Rank(list[k])

Shuffles(n) == Bijection(1 .. n, 1 .. n)

Reordered(list, given) ==
  \E p \in Shuffles(Len(given)) : list = [k \in 1 .. Len(given) |-> given[p[k]]]

\* list holds the items, in some order, of which a pack selected `chosen`.
Recorded(list, c, chosen) ==
  \E packed \in Seq(Item) :
    /\ ByRank(packed)
    /\ Reordered(list, packed)
    /\ \E t \in Nat : PacksTo(c, packed, Len(packed), [selected |-> chosen, total |-> t])

PackedSoFar ==
  /\ pc \in {"loop", "done"} =>
       /\ ByRank(items)
       /\ PacksTo(config, items, next - 1, [selected |-> selected, total |-> total])
  /\ pc = "done" => next = Len(items) + 1
  /\ pass = 2 => Recorded(items, config, before)

LEMMA ShuffleFacts ==
  ASSUME NEW n, NEW p \in Shuffles(n)
  PROVE  /\ p \in [1 .. n -> 1 .. n]
         /\ \A j, k \in 1 .. n : p[j] = p[k] => j = k
         /\ \A k \in 1 .. n : \E j \in 1 .. n : p[j] = k
BY DEF Shuffles, Bijection, Injection, IsInjective, Surjection

LEMMA RankTyped == \A item \in Item : Rank(item) \in Nat
<1> SUFFICES ASSUME NEW item \in Item PROVE Rank(item) \in Nat
  OBVIOUS
<1>1. item.shape \in [rank : Nat, estimated : Nat, text : Nat]
  BY ShapesAssumption DEF Item
<1> QED BY <1>1 DEF Rank

\* Shuffling what was shuffled is a shuffle.
LEMMA ReorderedAgain ==
  ASSUME NEW given \in Seq(Item), NEW list \in Seq(Item), Reordered(list, given),
         NEW q \in Shuffles(Len(list))
  PROVE  Reordered([k \in 1 .. Len(list) |-> list[q[k]]], given)
<1> DEFINE n == Len(given)
<1>1. PICK p \in Shuffles(n) : list = [k \in 1 .. n |-> given[p[k]]]
  BY DEF Reordered
<1>2. n \in Nat /\ Len(list) = n
  BY <1>1
<1> HIDE DEF n
<1>3. /\ p \in [1 .. n -> 1 .. n] /\ q \in [1 .. n -> 1 .. n]
      /\ \A j, k \in 1 .. n : p[j] = p[k] => j = k
      /\ \A j, k \in 1 .. n : q[j] = q[k] => j = k
      /\ \A k \in 1 .. n : \E j \in 1 .. n : p[j] = k
      /\ \A k \in 1 .. n : \E j \in 1 .. n : q[j] = k
  <2>1. q \in Shuffles(n)
    BY <1>2
  <2>2. \A r \in Shuffles(n) :
          /\ r \in [1 .. n -> 1 .. n]
          /\ \A j, k \in 1 .. n : r[j] = r[k] => j = k
          /\ \A k \in 1 .. n : \E j \in 1 .. n : r[j] = k
    BY ShuffleFacts
  <2> QED BY <2>1, <2>2
<1> DEFINE r == [k \in 1 .. n |-> p[q[k]]]
<1>4. /\ r \in [1 .. n -> 1 .. n]
      /\ \A j, k \in 1 .. n : r[j] = r[k] => j = k
  BY <1>3
<1>5. ASSUME NEW k \in 1 .. n PROVE \E j \in 1 .. n : r[j] = k
  <2>1. PICK i \in 1 .. n : p[i] = k
    BY <1>3
  <2>2. PICK j \in 1 .. n : q[j] = i
    BY <1>3
  <2> QED BY <2>1, <2>2
<1>6. r \in Shuffles(n)
  BY <1>4, <1>5 DEF Shuffles, Bijection, Injection, IsInjective, Surjection
<1>7. [k \in 1 .. Len(list) |-> list[q[k]]] = [k \in 1 .. n |-> given[r[k]]]
  BY <1>1, <1>2, <1>3
<1> QED BY <1>6, <1>7 DEF Reordered, n

LEMMA SortedByRank ==
  ASSUME items \in Seq(Item), Sort
  PROVE  /\ ByRank(items')
         /\ \E q \in Shuffles(Len(items)) : items' = [k \in 1 .. Len(items) |-> items[q[k]]]
<1>1. PICK p \in Orders : SortsByRank(p) /\ items' = Rearranged(p)
  BY DEF Sort
<1>2. p \in Shuffles(Len(items)) /\ p \in [1 .. Len(items) -> 1 .. Len(items)]
  BY ShuffleFacts DEF Orders, Shuffles
<1>3. items' \in Seq(Item) /\ Len(items') = Len(items)
  BY <1>1, RearrangedType
<1>4. ASSUME NEW j \in 1 .. Len(items), NEW k \in 1 .. Len(items), j < k
      PROVE  Rank(items'[j]) <= Rank(items'[k])
  <2>1. items'[j] = items[p[j]] /\ items'[k] = items[p[k]]
    BY <1>1 DEF Rearranged
  <2>2. Rank(items[p[j]]) < Rank(items[p[k]]) \/ Rank(items[p[j]]) = Rank(items[p[k]])
    BY <1>1, <1>4 DEF SortsByRank
  <2>3. Rank(items'[j]) \in Nat /\ Rank(items'[k]) \in Nat
    BY <1>3, <1>4, RankTyped
  <2> QED BY <2>1, <2>2, <2>3
<1> QED BY <1>1, <1>2, <1>3, <1>4 DEF ByRank, Rearranged

\* Where ranks differ, there is one order by rank.
LEMMA OneOrder ==
  ASSUME NEW given \in Seq(Item), NEW list \in Seq(Item), Reordered(list, given),
         ByRank(given), ByRank(list),
         \A j, k \in 1 .. Len(list) : j # k => Rank(list[j]) # Rank(list[k])
  PROVE  list = given
<1> DEFINE n == Len(given)
<1>1. PICK p \in Shuffles(n) : list = [k \in 1 .. n |-> given[p[k]]]
  BY DEF Reordered
<1>2. n \in Nat /\ Len(list) = n /\ DOMAIN given = 1 .. n /\ given = [k \in 1 .. n |-> given[k]]
  BY <1>1
<1> HIDE DEF n
<1>3. p \in [1 .. n -> 1 .. n] /\ \A j, k \in 1 .. n : p[j] = p[k] => j = k
  BY <1>2, ShuffleFacts
<1>4. ASSUME NEW j \in 1 .. n, NEW k \in 1 .. n, j < k PROVE p[j] < p[k]
  <2>1. list[j] = given[p[j]] /\ list[k] = given[p[k]] /\ p[j] \in 1 .. n /\ p[k] \in 1 .. n
    BY <1>1, <1>3
  <2>2. Rank(list[j]) \in Nat /\ Rank(list[k]) \in Nat
    BY <1>2, RankTyped
  <2>3. Rank(list[j]) < Rank(list[k])
    BY <1>2, <1>4, <2>2 DEF ByRank
  <2>4. ~(p[k] < p[j])
    BY <1>2, <2>1, <2>2, <2>3 DEF ByRank
  <2>5. p[j] # p[k]
    BY <1>3, <1>4
  <2> QED BY <2>1, <2>4, <2>5
<1>5. \A k \in 1 .. n : p[k] = k
  BY <1>2, <1>4, IncreasingIsIdentity DEF Shuffles
<1> QED BY <1>1, <1>2, <1>5

LEMMA PackedAtFirst == Init => PackedSoFar
BY DEF Init, PackedSoFar

\* A turn of the loop is what After says.
LEMMA TurnIsAfter ==
  ASSUME IInv, Pack
  PROVE  [selected |-> selected', total |-> total'] =
           After(config, [selected |-> selected, total |-> total], items[next])
<1> DEFINE item == items[next]
           s == [selected |-> selected, total |-> total]
<1>1. s.selected = selected /\ s.total = total
  OBVIOUS
<1>2. JoinedTotal(config, s, item) = NextTotal(item)
  BY <1>1 DEF JoinedTotal, NextTotal, SeparatorCost
<1>3. Takes(config, s, item) <=> Len(selected) < config.maxItems /\ Fits(item)
  BY <1>1, <1>2 DEF Takes, Fits, Budget
<1>4. CASE Select(item)
  BY <1>1, <1>2, <1>3, <1>4 DEF Select, After
<1>5. CASE TooMany(item) \/ TooLong(item)
  <2>1. ~ Takes(config, s, item)
    <3>1. Len(selected) \in Nat /\ config.maxItems \in Nat
      BY ConfigFacts DEF IInv, TypeOK
    <3> QED BY <1>3, <1>5, <3>1 DEF TooMany, TooLong
  <2> QED BY <1>5, <2>1 DEF TooMany, TooLong, Omit, After
<1> QED BY <1>4, <1>5 DEF Pack

LEMMA HistoryExtends ==
  ASSUME NEW c, NEW list, NEW n \in Nat, NEW s, PacksTo(c, list, n, s)
  PROVE  PacksTo(c, list, n + 1, After(c, s, list[n + 1]))
<1>1. PICK h : IsHistory(h, c, list, n) /\ h[n] = s
  BY DEF PacksTo
<1> DEFINE g == [k \in 0 .. n + 1 |-> IF k = n + 1 THEN After(c, s, list[n + 1]) ELSE h[k]]
<1>2. g[n + 1] = After(c, s, list[n + 1]) /\ \A k \in 0 .. n : g[k] = h[k]
  OBVIOUS
<1> HIDE DEF g
<1>3. g[0] = [selected |-> <<>>, total |-> 0]
  BY <1>1, <1>2 DEF IsHistory
<1>4. ASSUME NEW k \in 0 .. n PROVE g[k + 1] = After(c, g[k], list[k + 1])
  <2>1. CASE k = n
    BY <2>1, <1>1, <1>2
  <2>2. CASE k # n
    <3>1. k \in 0 .. n - 1 /\ k + 1 \in 0 .. n
      BY <2>2
    <3> QED BY <3>1, <1>1, <1>2 DEF IsHistory
  <2> QED BY <2>1, <2>2
<1>5. IsHistory(g, c, list, n + 1)
  BY <1>3, <1>4 DEF IsHistory
<1> QED BY <1>2, <1>5 DEF PacksTo

LEMMA NothingPacked == \A c, list : PacksTo(c, list, 0, [selected |-> <<>>, total |-> 0])
<1> SUFFICES ASSUME NEW c, NEW list PROVE PacksTo(c, list, 0, [selected |-> <<>>, total |-> 0])
  OBVIOUS
<1> DEFINE h == [k \in {0} |-> [selected |-> <<>>, total |-> 0]]
<1>1. h[0] = [selected |-> <<>>, total |-> 0]
  OBVIOUS
<1> HIDE DEF h
<1>2. IsHistory(h, c, list, 0)
  BY <1>1 DEF IsHistory
<1> QED BY <1>1, <1>2 DEF PacksTo

LEMMA PackedKept == IInv /\ PackedSoFar /\ [Next]_vars => PackedSoFar'
<1> SUFFICES ASSUME IInv, PackedSoFar, [Next]_vars PROVE PackedSoFar'
  OBVIOUS
<1>1. /\ items \in Seq(Item) /\ Len(items) \in Nat /\ next \in 1 .. Len(items) + 1
      /\ selected \in Seq(Item) /\ total \in Nat
  BY BoundsAssumption DEF IInv, TypeOK
<1>2. CASE Sort
  <2>1. /\ pc' = "loop" /\ next' = 1 /\ selected' = <<>> /\ total' = 0
        /\ UNCHANGED <<config, before, pass>>
    BY <1>2 DEF Sort, IInv, Fresh
  <2>2. ByRank(items')
    BY <1>1, <1>2, SortedByRank
  <2>3. PacksTo(config', items', 0, [selected |-> selected', total |-> total'])
    BY <2>1, NothingPacked
  <2>4. ASSUME pass = 2 PROVE Recorded(items', config, before)
    <3>1. PICK q \in Shuffles(Len(items)) : items' = [k \in 1 .. Len(items) |-> items[q[k]]]
      BY <1>1, <1>2, SortedByRank
    <3>2. PICK packed \in Seq(Item) :
            /\ ByRank(packed) /\ Reordered(items, packed)
            /\ \E t \in Nat : PacksTo(config, packed, Len(packed), [selected |-> before, total |-> t])
      BY <2>4 DEF PackedSoFar, Recorded
    <3>3. Reordered(items', packed)
      BY <1>1, <3>1, <3>2, ReorderedAgain
    <3> QED BY <3>2, <3>3 DEF Recorded
  <2>5. next' - 1 = 0
    BY <2>1
  <2> QED BY <2>1, <2>2, <2>3, <2>4, <2>5 DEF PackedSoFar
<1>3. CASE Pack
  <2>1. /\ UNCHANGED <<config, items, before, pass, pc>> /\ next' = next + 1 /\ pc = "loop"
    BY <1>3 DEF Pack
  <2>2. PacksTo(config, items, next - 1 + 1,
                After(config, [selected |-> selected, total |-> total], items[next - 1 + 1]))
    BY <1>1, <2>1, HistoryExtends DEF PackedSoFar
  <2>3. next - 1 + 1 = next /\ next' - 1 = next
    BY <1>1, <2>1
  <2>4. PacksTo(config, items, next, [selected |-> selected', total |-> total'])
    BY <1>3, <2>2, <2>3, TurnIsAfter
  <2> QED BY <2>1, <2>3, <2>4 DEF PackedSoFar
<1>4. CASE Return
  <2>1. next = Len(items) + 1
    BY <1>1, <1>4 DEF Return
  <2> QED BY <1>4, <2>1 DEF Return, PackedSoFar
<1>5. CASE Replay
  <2>1. /\ pc = "done" /\ pc' = "sort" /\ before' = selected /\ config' = config /\ pass' = 2
    BY <1>5 DEF Replay
  <2>2. /\ ByRank(items) /\ next - 1 = Len(items)
        /\ PacksTo(config, items, next - 1, [selected |-> selected, total |-> total])
    BY <1>1, <2>1 DEF PackedSoFar
  <2>3. Reordered(items', items)
    BY <1>5 DEF Replay, Reordered, Rearranged, Orders, Shuffles
  <2>4. Recorded(items', config, selected)
    BY <1>1, <2>2, <2>3 DEF Recorded
  <2> QED BY <2>1, <2>4 DEF PackedSoFar
<1>6. CASE UNCHANGED vars
  BY <1>6 DEF vars, PackedSoFar
<1> QED BY <1>2, <1>3, <1>4, <1>5, <1>6 DEF Next

\* Where ranks differ, packing the same items again selects the same, in
\* whatever order a source returns them.
THEOREM ReplaysAgree == Spec => []ReplayByDistinctRanks
<1>1. IInv /\ PackedSoFar => ReplayByDistinctRanks
  <2> SUFFICES ASSUME IInv, PackedSoFar, pass = 2, pc = "done",
                      \A j, k \in 1 .. Len(items) : j # k => Rank(items[j]) # Rank(items[k])
               PROVE  selected = before
    BY DEF ReplayByDistinctRanks
  <2>1. /\ items \in Seq(Item) /\ Len(items) \in Nat /\ next \in Nat
        /\ ByRank(items) /\ next = Len(items) + 1
        /\ PacksTo(config, items, next - 1, [selected |-> selected, total |-> total])
    BY DEF IInv, TypeOK, PackedSoFar
  <2>2. PICK packed \in Seq(Item), t \in Nat :
          /\ ByRank(packed) /\ Reordered(items, packed)
          /\ PacksTo(config, packed, Len(packed), [selected |-> before, total |-> t])
    BY DEF PackedSoFar, Recorded
  <2>3. items = packed
    BY <2>1, <2>2, OneOrder
  <2>4. next - 1 = Len(items)
    BY <2>1
  <2>5. [selected |-> selected, total |-> total] = [selected |-> before, total |-> t]
    BY <2>1, <2>2, <2>3, <2>4, Determined
  <2> QED BY <2>5
<1> QED BY <1>1, PackedAtFirst, PackedKept, Invariance, PTL DEF Spec
=============================================================================
