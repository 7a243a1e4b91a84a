----------------------------- MODULE ContextPack -----------------------------
(***************************************************************************)
(* ContextPack::pack (src/src/context.rs): choosing the context items that *)
(* go into one bounded model window.                                        *)
(*                                                                          *)
(* The sort is one action and each turn of the loop another.  An item is    *)
(* its rank, its estimate and the characters its text really has.  The host *)
(* may pack the same items once more after the source returned them in      *)
(* another order: Replay.                                                   *)
(***************************************************************************)
EXTENDS Integers, Sequences, Functions

CONSTANTS
  Shapes,       \* what items look like: [rank, estimated, text]
  Configs,      \* ContextPackConfig: [maxChars, maxItems, reserve, separator]
  MaxUsize,     \* the largest usize
  MaxGiven      \* bound: how many items are given

ASSUME ShapesAssumption == Shapes \subseteq [rank : Nat, estimated : Nat, text : Nat]
ASSUME ConfigsAssumption ==
  Configs \subseteq [maxChars : 0 .. MaxUsize, maxItems : Nat, reserve : Nat, separator : Nat]
ASSUME BoundsAssumption == MaxUsize \in Nat /\ MaxGiven \in Nat

VARIABLES
  config,       \* the config given
  items,        \* the local `items`
  next,         \* the item the loop is at
  selected,     \* the local `selected`
  omitted,      \* the local `omitted`: [item, reason]
  total,        \* the local `total_estimated_chars`
  before,       \* history: what the first pack selected
  pass,         \* the first pack, or the one of the replay
  pc            \* "sort", "loop", or "done" once pack has returned

vars == <<config, items, next, selected, omitted, total, before, pass, pc>>

Item == [shape : Shapes, id : 1 .. MaxGiven]

OmittedContextItem == [item : Item, reason : {"MaxItems", "OverBudget"}]

Init ==
  /\ config \in Configs
  /\ \E n \in 0 .. MaxGiven : \E shapes \in [1 .. n -> Shapes] :
       items = [i \in 1 .. n |-> [shape |-> shapes[i], id |-> i]]
  /\ next = 1
  /\ selected = <<>>
  /\ omitted = <<>>
  /\ total = 0
  /\ before = <<>>
  /\ pass = 1
  /\ pc = "sort"

----------------------------------------------------------------------------

Rank(item) == item.shape.rank

Rearranged(p) == [k \in 1 .. Len(items) |-> items[p[k]]]

Orders == Bijection(1 .. Len(items), 1 .. Len(items))

SortsByRank_AsGiven(p) == \A k \in 1 .. Len(items) : p[k] = k   \* mutant: no sort

\* sort_by_key is stable: equal ranks stay in the order they were given.
SortsByRank(p) ==
  \A j, k \in 1 .. Len(items) : j < k =>
    \/ Rank(items[p[j]]) < Rank(items[p[k]])
    \/ Rank(items[p[j]]) = Rank(items[p[k]]) /\ p[j] < p[k]

Sort ==
  /\ pc = "sort"
  /\ \E p \in Orders : SortsByRank(p) /\ items' = Rearranged(p)
  /\ pc' = "loop"
  /\ UNCHANGED <<config, next, selected, omitted, total, before, pass>>

----------------------------------------------------------------------------

\* max_chars.saturating_sub(reserve_chars)
Budget ==
  IF config.reserve < config.maxChars THEN config.maxChars - config.reserve ELSE 0

ItemChars_Estimate(item) == item.shape.estimated   \* mutant: the estimate is trusted

ItemChars(item) ==
  IF item.shape.estimated > item.shape.text THEN item.shape.estimated ELSE item.shape.text

SeparatorCost_Always == config.separator   \* mutant: the first item pays too

SeparatorCost == IF selected = <<>> THEN 0 ELSE config.separator

NextTotal(item) == total + SeparatorCost + ItemChars(item)

\* checked_add twice, then the comparison.
Fits(item) == NextTotal(item) <= MaxUsize /\ NextTotal(item) <= Budget

Omit(item, reason) ==
  /\ omitted' = Append(omitted, [item |-> item, reason |-> reason])
  /\ UNCHANGED <<selected, total>>

TooMany(item) ==
  /\ Len(selected) >= config.maxItems
  /\ Omit(item, "MaxItems")

TooLong_Dropped(item) ==   \* mutant: `continue` without recording the omission
  /\ Len(selected) < config.maxItems
  /\ ~ Fits(item)
  /\ UNCHANGED <<selected, omitted, total>>

TooLong(item) ==
  /\ Len(selected) < config.maxItems
  /\ ~ Fits(item)
  /\ Omit(item, "OverBudget")

Select(item) ==
  /\ Len(selected) < config.maxItems
  /\ Fits(item)
  /\ selected' = Append(selected, item)
  /\ total' = NextTotal(item)
  /\ UNCHANGED omitted

Pack ==
  /\ pc = "loop"
  /\ next <= Len(items)
  /\ LET item == items[next] IN TooMany(item) \/ TooLong(item) \/ Select(item)
  /\ next' = next + 1
  /\ UNCHANGED <<config, items, before, pass, pc>>

Return ==
  /\ pc = "loop"
  /\ next > Len(items)
  /\ pc' = "done"
  /\ UNCHANGED <<config, items, next, selected, omitted, total, before, pass>>

\* The recorded items come back in another order and are packed again.
Replay ==
  /\ pc = "done"
  /\ pass = 1
  /\ \E p \in Orders : items' = Rearranged(p)
  /\ before' = selected
  /\ next' = 1
  /\ selected' = <<>>
  /\ omitted' = <<>>
  /\ total' = 0
  /\ pass' = 2
  /\ pc' = "sort"
  /\ UNCHANGED config

Next == Sort \/ Pack \/ Return \/ Replay

Spec == Init /\ [][Next]_vars

----------------------------------------------------------------------------
(* Properties                                                              *)

TypeOK ==
  /\ config \in Configs
  /\ items \in Seq(Item)
  /\ next \in 1 .. Len(items) + 1
  /\ selected \in Seq(Item)
  /\ omitted \in Seq(OmittedContextItem)
  /\ total \in 0 .. MaxUsize
  /\ before \in Seq(Item)
  /\ pass \in {1, 2}
  /\ pc \in {"sort", "loop", "done"}

\* What render_text will produce: the texts joined by the separator.
RenderedChars ==
  IF selected = <<>> THEN 0
  ELSE SumFunction([k \in 1 .. Len(selected) |-> selected[k].shape.text])
         + (Len(selected) - 1) * config.separator

\* What the config leaves for context; negative when it reserves more than all.
Room == config.maxChars - config.reserve

\* The text that is rendered fits what the config leaves for context, whatever
\* the estimates say and however large they are, and items are no more than
\* allowed.
FitsTheWindow ==
  /\ RenderedChars <= total
  /\ total = 0 \/ total <= Room
  /\ Len(selected) <= config.maxItems

\* Every item the loop has passed is selected or omitted with a reason, in the
\* order they were passed, and none is both or twice.
EveryItemAccounted ==
  /\ Len(selected) + Len(omitted) = next - 1
  /\ \A i \in 1 .. next - 1 :
       \/ \E k \in 1 .. Len(selected) : selected[k] = items[i]
       \/ \E k \in 1 .. Len(omitted) : omitted[k].item = items[i]

\* No omission is needless: beside the final selection an item omitted for the
\* budget still does not fit, and one omitted for the limit has no place.
OmissionsAreReal ==
  \A k \in 1 .. Len(omitted) :
    LET shape == omitted[k].item.shape
        joined == IF selected = <<>> THEN 0 ELSE total + config.separator
    IN  IF omitted[k].reason = "MaxItems"
          THEN Len(selected) >= config.maxItems
          ELSE joined + shape.estimated > Room \/ joined + shape.text > Room

\* "Recorded fixtures can be replayed even if a source returns equivalent items in
\* a different order": with ranks that differ, the replay selects the same items.
\* The sort is stable, so with ranks that tie it need not.
ReplayByDistinctRanks ==
  pass = 2 /\ pc = "done" /\ (\A j, k \in 1 .. Len(items) : j # k => Rank(items[j]) # Rank(items[k]))
    => selected = before
=============================================================================
