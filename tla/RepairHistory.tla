---------------------------- MODULE RepairHistory ----------------------------
(***************************************************************************)
(* repair_history (src/src/reliability.rs): coalescing the tool-call        *)
(* history that is fed back to a model.                                     *)
(*                                                                          *)
(* The body of the loop over the entries is one action per entry.  A call   *)
(* is its fingerprint; what an entry carries besides (output, or error      *)
(* class and message) is a payload that tells the entries apart.  The host  *)
(* may repair again what it repaired: Again calls the function on its own   *)
(* result.                                                                  *)
(***************************************************************************)
EXTENDS Integers, Sequences

CONSTANTS
  Fingerprints,   \* the calls a history is about
  MaxEntries      \* bound: the length of a history

ASSUME MaxEntriesAssumption == MaxEntries \in Nat

VARIABLES
  entries,        \* the slice given to repair_history
  next,           \* the entry the loop is at
  order,          \* the local `order`
  chosen,         \* the local `chosen`: an index, Vacant when the map has none
  hasCompleted,   \* the local `has_completed`
  output,         \* what the last call returned
  pass,           \* the first call, or the second on the first one's result
  pc              \* "loop", or "done" once the call has returned

vars == <<entries, next, order, chosen, hasCompleted, output, pass, pc>>

Vacant == 0

\* Completed or Failed, about one call.
HistoryEntry == [call : Fingerprints, completed : BOOLEAN, payload : 1 .. MaxEntries]

Init ==
  /\ \E n \in 0 .. MaxEntries :
       \E calls \in [1 .. n -> Fingerprints], outcomes \in [1 .. n -> BOOLEAN] :
         entries = [i \in 1 .. n |->
                     [call |-> calls[i], completed |-> outcomes[i], payload |-> i]]
  /\ next = 1
  /\ order = <<>>
  /\ chosen = [c \in Fingerprints |-> Vacant]
  /\ hasCompleted = {}
  /\ output = <<>>
  /\ pass = 1
  /\ pc = "loop"

----------------------------------------------------------------------------

Choose(entry) == chosen' = [chosen EXCEPT ![entry.call] = next]

\* A vacant slot: the first entry about this call.
FirstSeen(entry) ==
  /\ chosen[entry.call] = Vacant
  /\ order' = Append(order, entry.call)
  /\ Choose(entry)
  /\ hasCompleted' = IF entry.completed THEN hasCompleted \cup {entry.call}
                                        ELSE hasCompleted

LaterCompletion_LastWins(entry) ==   \* mutant: every completion replaces the choice
  /\ chosen[entry.call] # Vacant
  /\ entry.completed
  /\ Choose(entry)
  /\ hasCompleted' = hasCompleted \cup {entry.call}
  /\ UNCHANGED order

LaterCompletion(entry) ==
  /\ chosen[entry.call] # Vacant
  /\ entry.completed
  /\ \/ /\ entry.call \notin hasCompleted
        /\ Choose(entry)
        /\ hasCompleted' = hasCompleted \cup {entry.call}
     \/ /\ entry.call \in hasCompleted
        /\ UNCHANGED <<chosen, hasCompleted>>
  /\ UNCHANGED order

LaterFailure_Reorders(entry) ==   \* mutant: a retry moves its call to the end
  /\ chosen[entry.call] # Vacant
  /\ ~ entry.completed
  /\ Choose(entry)
  /\ order' = Append(SelectSeq(order, LAMBDA c : c # entry.call), entry.call)
  /\ UNCHANGED hasCompleted

LaterFailure(entry) ==
  /\ chosen[entry.call] # Vacant
  /\ ~ entry.completed
  /\ \/ entry.call \notin hasCompleted /\ Choose(entry)
     \/ entry.call \in hasCompleted /\ UNCHANGED chosen
  /\ UNCHANGED <<order, hasCompleted>>

Visit ==
  /\ pc = "loop"
  /\ next <= Len(entries)
  /\ LET entry == entries[next]
     IN  FirstSeen(entry) \/ LaterCompletion(entry) \/ LaterFailure(entry)
  /\ next' = next + 1
  /\ UNCHANGED <<entries, output, pass, pc>>

Emitted_Reversed ==   \* mutant: the result is built from the back of `order`
  [k \in 1 .. Len(order) |-> entries[chosen[order[Len(order) + 1 - k]]]]

Emitted == [k \in 1 .. Len(order) |-> entries[chosen[order[k]]]]

Return ==
  /\ pc = "loop"
  /\ next > Len(entries)
  /\ output' = Emitted
  /\ pc' = "done"
  /\ UNCHANGED <<entries, next, order, chosen, hasCompleted, pass>>

\* The host repairs the repaired history.
Again ==
  /\ pc = "done"
  /\ pass = 1
  /\ entries' = output
  /\ next' = 1
  /\ order' = <<>>
  /\ chosen' = [c \in Fingerprints |-> Vacant]
  /\ hasCompleted' = {}
  /\ UNCHANGED output
  /\ pass' = 2
  /\ pc' = "loop"

Next == Visit \/ Return \/ Again

Spec == Init /\ [][Next]_vars

----------------------------------------------------------------------------
(* Properties                                                              *)

\* The rule, without the loop: of the first n entries of h, entry i is the one
\* to keep for its call.  A completion is kept when none came before it, a
\* failure when there is no completion and no later failure.
Kept(h, n, i) ==
  \A j \in 1 .. n : h[j].call = h[i].call =>
    IF h[i].completed THEN h[j].completed => i <= j
                      ELSE ~ h[j].completed /\ j <= i

\* The loop variables stay within what the code declares them to be.
TypeOK ==
  /\ entries \in Seq(HistoryEntry)
  /\ next \in 1 .. Len(entries) + 1
  /\ order \in Seq(Fingerprints)
  /\ chosen \in [Fingerprints -> 0 .. Len(entries)]
  /\ hasCompleted \subseteq Fingerprints
  /\ output \in Seq(HistoryEntry)
  /\ pass \in {1, 2}
  /\ pc \in {"loop", "done"}

\* Rules 2 and 3: at every turn of the loop the chosen entry is the first
\* completion of its call so far or, without one, the last failure; a call that
\* occurred has a chosen entry, and only such a call has.
KeepsTheAnswer ==
  \A c \in Fingerprints :
    \/ chosen[c] = Vacant /\ \A i \in 1 .. next - 1 : entries[i].call # c
    \/ /\ chosen[c] \in 1 .. next - 1
       /\ entries[chosen[c]].call = c
       /\ Kept(entries, next - 1, chosen[c])

\* Rule 4: `order` lists each call once, by first occurrence.
FirstOccurrenceOrder ==
  \A j, k \in DOMAIN order : j < k =>
    \E i \in 1 .. next - 1 :
      /\ entries[i].call = order[j]
      /\ \A p \in 1 .. i : entries[p].call # order[k]

\* A call that has a real answer keeps it: later retries, and a second repair,
\* never change what is chosen for it.
AnswerStands ==
  [][pc = "loop" => \A c \in hasCompleted : chosen'[c] = chosen[c]]_vars

\* repair_history(repair_history(x)) = repair_history(x).
Idempotent == pass = 2 /\ pc = "done" => output = entries
=============================================================================
