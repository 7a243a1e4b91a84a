----------------------------- MODULE ToolRegistry -----------------------------
(***************************************************************************)
(* ToolRegistry (src/src/registry.rs): one concurrent map of named tools,   *)
(* and views of it that differ only in their whitelist.                     *)
(*                                                                          *)
(* Threads of the host register tools, derive views and take catalog        *)
(* snapshots at the same time.  The map is a sharded one: a call locks one  *)
(* shard, and an iteration locks one after the other.  A registered tool is *)
(* a version number; names are numbers in the order in which they sort.     *)
(* Assembly puts the operations together.                                   *)
(***************************************************************************)
EXTENDS Integers, Sequences, FiniteSets, SequencesExt

CONSTANTS
  Names,         \* the tool names there are
  Shards,        \* the number of shards of the map
  Shard,         \* Shard[n]: the shard name n hashes to
  Clients,       \* the host's threads that take snapshots
  MaxVersions,   \* bound: how often a name is registered, for each name
  MaxViews       \* bound: how many views there are

ASSUME NamesAssumption == Names \subseteq Nat /\ IsFiniteSet(Names)
ASSUME ShardAssumption == Shards \in Nat /\ Shard \in [Names -> 1 .. Shards]

VARIABLES
  inner,         \* the map: inner[n] is the tool registered last, or Vacant
  views,         \* the whitelists of the registry values made so far
  listing        \* listing[c]: the snapshot client c is taking, or has taken

vars == <<inner, views, listing>>

Vacant == 0

\* `allowed` is None, under which every name is visible, for the registry itself.
NewView == Names

NoListing == [pc |-> "idle", view |-> 1, shard |-> 1, found |-> <<>>, during |-> {}]

Init ==
  /\ inner = [n \in Names |-> Vacant]
  /\ views = <<NewView>>
  /\ listing = [c \in Clients |-> NoListing]

----------------------------------------------------------------------------

Authorised(v, n) == n \in views[v]

\* What `get` finds; it is an error otherwise.
Gets(v, n) == Authorised(v, n) /\ inner[n] # Vacant

\* What a snapshot in progress could have seen: a history of its own.
Witnessed(map) ==
  [c \in Clients |-> IF listing[c].pc = "reading"
                       THEN [listing[c] EXCEPT !.during = @ \cup {map}]
                       ELSE listing[c]]

\* Whatever was registered under the name before is replaced.
Register(n) ==
  /\ inner[n] < MaxVersions[n]
  /\ inner' = [inner EXCEPT ![n] = @ + 1]
  /\ listing' = Witnessed(inner')
  /\ UNCHANGED views

\* Any holder of a view may derive another; the whitelist is the one given, whatever
\* that of the view it is derived from.
Scoped(names) ==
  /\ Len(views) < MaxViews
  /\ views' = Append(views, names)
  /\ UNCHANGED <<inner, listing>>

----------------------------------------------------------------------------
(* schemas, descriptors and len of a view                                   *)

StartListing(c, v) ==
  /\ listing[c].pc = "idle"
  /\ listing' = [listing EXCEPT ![c] =
                   [NoListing EXCEPT !.pc = "reading", !.view = v, !.during = {inner}]]
  /\ UNCHANGED <<inner, views>>

Visible(v, shard) ==
  {[name |-> n, version |-> inner[n]] :
     n \in {m \in Names : Shard[m] = shard /\ Gets(v, m)}}

\* One shard is read under its lock; within it entries come in any order.
ReadShard(c) ==
  /\ listing[c].pc = "reading"
  /\ listing[c].shard <= Shards
  /\ \E entries \in SetToSeqs(Visible(listing[c].view, listing[c].shard)) :
       listing' = [listing EXCEPT ![c].found = @ \o entries, ![c].shard = @ + 1]
  /\ UNCHANGED <<inner, views>>

SortsByName_AsFound(entries, p) == \A k \in DOMAIN p : p[k] = k   \* mutant: iteration order leaks out

\* A stable sort: entries of one name, had they any, would stay as they were found.
SortsByName(entries, p) ==
  \A j, k \in DOMAIN p : j < k =>
    \/ entries[p[j]].name < entries[p[k]].name
    \/ entries[p[j]].name = entries[p[k]].name /\ p[j] < p[k]

FinishListing(c) ==
  LET found == listing[c].found
  IN  /\ listing[c].pc = "reading"
      /\ listing[c].shard > Shards
      /\ \E p \in Bijection(DOMAIN found, DOMAIN found) :
           /\ SortsByName(found, p)
           /\ listing' = [listing EXCEPT ![c].pc = "done",
                                        ![c].found = [k \in DOMAIN found |-> found[p[k]]]]
  /\ UNCHANGED <<inner, views>>

----------------------------------------------------------------------------
(* Properties                                                              *)

Done(c) == listing[c].pc = "done"

Listed(c) == {listing[c].found[k].name : k \in DOMAIN listing[c].found}

\* However registrations race the iteration, a catalog is in name order without
\* repetition, lists every tool of its view that was registered throughout, and
\* lists nothing but tools of the view that the map held at some instant of the iteration.
CatalogIsFaithful ==
  \A c \in Clients : Done(c) =>
    LET catalog == listing[c].found
        maps == listing[c].during
    IN  /\ \A j, k \in DOMAIN catalog : j < k => catalog[j].name < catalog[k].name
        /\ \A n \in views[listing[c].view] :
             (\A map \in maps : map[n] # Vacant) => n \in Listed(c)
        /\ \A k \in DOMAIN catalog :
             /\ catalog[k].name \in views[listing[c].view]
             /\ \E map \in maps : map[catalog[k].name] = catalog[k].version
=============================================================================
