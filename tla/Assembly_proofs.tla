---------------------------- MODULE Assembly_proofs ----------------------------
(***************************************************************************)
(* Two theorems about assembling agents while the registries change: a      *)
(* catalog lists what it may, and a built agent is what its manifest         *)
(* declares.                                                                *)
(*                                                                          *)
(* Neither property says anything before the end, so the invariants speak   *)
(* of what has been done so far.  A catalog being read is faithful for the  *)
(* shards behind it (FaithfulSoFar); the tools of an agent being assembled  *)
(* come from the entries of the manifest behind the loop (ToolsSoFar), and  *)
(* so does its chain (ChainSoFar).  Registries only grow in between.         *)
(***************************************************************************)
EXTENDS Assembly, FiniteSetTheorems, TLAPS

Maps == [Names -> Nat]

Entries == [name : Names, version : Nat]

RegistriesTyped ==
  /\ inner \in Maps
  /\ skills \in [Skills -> Nat]
  /\ executors \in [Executors -> Nat]
  /\ views \in Seq(SUBSET Names)
  /\ views # <<>>

----------------------------------------------------------------------------
(* Catalogs                                                                 *)

Listings ==
  [pc : {"idle", "reading", "done"}, view : Nat, shard : 1 .. Shards + 1,
   found : Seq(Entries), during : SUBSET Maps]

NamesFound(l) == {l.found[k].name : k \in DOMAIN l.found}

FoundOnce(l) == \A j, k \in DOMAIN l.found : l.found[j].name = l.found[k].name => j = k

\* What a listing has found was there to be found, in the shards it has read.
FoundThere(l, names) ==
  \A k \in DOMAIN l.found :
    /\ l.found[k].name \in names
    /\ Shard[l.found[k].name] < l.shard
    /\ \E then \in l.during : then[l.found[k].name] = l.found[k].version

\* What was there throughout has been found, in the shards it has read.
NothingMissed(l, names) ==
  \A n \in names :
    Shard[n] < l.shard /\ (\A then \in l.during : then[n] # Vacant) => n \in NamesFound(l)

FaithfulSoFar(l, whitelists, map) ==
  /\ l.view \in 1 .. Len(whitelists)
  /\ l.pc = "reading" => map \in l.during
  /\ FoundOnce(l)
  /\ FoundThere(l, whitelists[l.view])
  /\ NothingMissed(l, whitelists[l.view])
  /\ l.pc = "done" =>
       /\ l.shard > Shards
       /\ \A j, k \in DOMAIN l.found : j < k => l.found[j].name < l.found[k].name

CatalogInv ==
  /\ RegistriesTyped
  /\ listing \in [Clients -> Listings]
  /\ \A c \in Clients : FaithfulSoFar(listing[c], views, inner)

LEMMA NoListingTyped == NoListing \in Listings
BY ShardAssumption DEF NoListing, Listings

LEMMA CatalogsAtFirst == AssemblyInit => CatalogInv
<1> SUFFICES ASSUME AssemblyInit PROVE CatalogInv
  OBVIOUS
<1> USE DEF AssemblyInit, Init, Maps, Vacant, NewView
<1>1. RegistriesTyped
  BY DEF RegistriesTyped
<1>2. NoListing \in Listings
  BY NoListingTyped
<1>3. FaithfulSoFar(NoListing, views, inner)
  <2>1. \A n \in Names : ~(Shard[n] < 1)
    BY ShardAssumption
  <2>2. views[1] = Names /\ 1 \in 1 .. Len(views)
    OBVIOUS
  <2>3. FoundOnce(NoListing) /\ FoundThere(NoListing, views[1])
    BY DEF NoListing, FoundOnce, FoundThere
  <2>4. NothingMissed(NoListing, views[1])
    BY <2>1, <2>2 DEF NoListing, NothingMissed
  <2> QED BY <2>2, <2>3, <2>4 DEF NoListing, FaithfulSoFar
<1> QED BY <1>1, <1>2, <1>3 DEF CatalogInv

\* What a catalog may list only grows as maps are witnessed, and what it must
\* list only shrinks.
LEMMA CatalogsAtRegister ==
  ASSUME NEW n \in Names, CatalogInv, RegisterTool(n)
  PROVE  CatalogInv'
<1> USE DEF CatalogInv, RegisterTool, Register
<1>1. RegistriesTyped'
  BY DEF RegistriesTyped, Maps
<1>2. inner' \in Maps /\ views' = views
  BY <1>1 DEF RegistriesTyped
<1>3. listing' = Witnessed(inner')
  OBVIOUS
<1>4. ASSUME NEW c \in Clients
      PROVE  listing'[c] \in Listings /\ FaithfulSoFar(listing'[c], views', inner')
  <2> DEFINE l == listing[c]
             new == [l EXCEPT !.during = @ \cup {inner'}]
  <2>1. l \in Listings /\ FaithfulSoFar(l, views, inner)
    OBVIOUS
  <2>2. listing'[c] = IF l.pc = "reading" THEN new ELSE l
    BY <1>3 DEF Witnessed
  <2>3. CASE l.pc # "reading"
    <3>1. listing'[c] = l
      BY <2>2, <2>3
    <3>2. FaithfulSoFar(l, views, inner')
      BY <2>1, <2>3 DEF FaithfulSoFar
    <3> QED BY <1>2, <2>1, <3>1, <3>2
  <2>4. CASE l.pc = "reading"
    <3>1. /\ new \in Listings /\ inner' \in new.during /\ l.during \subseteq new.during
          /\ new.pc = "reading" /\ new.view = l.view /\ new.shard = l.shard /\ new.found = l.found
      BY <1>2, <2>1, <2>4 DEF Listings
    <3>2. FoundOnce(new) /\ FoundThere(new, views[new.view]) /\ NothingMissed(new, views[new.view])
      BY <2>1, <3>1 DEF FaithfulSoFar, FoundOnce, FoundThere, NothingMissed, NamesFound
    <3> HIDE DEF new
    <3> QED BY <1>2, <2>1, <2>2, <2>4, <3>1, <3>2 DEF FaithfulSoFar
  <2> QED BY <2>3, <2>4
<1> QED BY <1>1, <1>3, <1>4 DEF Witnessed

\* Views are only added.
LEMMA CatalogsAtScoped ==
  ASSUME NEW names \in Whitelists, CatalogInv, DeriveView(names)
  PROVE  CatalogInv'
<1> USE DEF CatalogInv, DeriveView, Scoped
<1>1. names \in SUBSET Names
  BY WhitelistsAssumption
<1>2. views \in Seq(SUBSET Names) /\ views' = Append(views, names)
  BY DEF RegistriesTyped
<1>3. /\ views' \in Seq(SUBSET Names) /\ Len(views') = Len(views) + 1
      /\ \A v \in 1 .. Len(views) : views'[v] = views[v]
  BY <1>1, <1>2
<1>4. RegistriesTyped'
  BY <1>3, <1>2 DEF RegistriesTyped
<1>5. ASSUME NEW c \in Clients PROVE FaithfulSoFar(listing[c], views', inner)
  BY <1>2, <1>3 DEF FaithfulSoFar
<1> QED BY <1>4, <1>5

\* A change to the listing of one client.
LEMMA CatalogsAtOne ==
  ASSUME CatalogInv, NEW c \in Clients, NEW new \in Listings,
         FaithfulSoFar(new, views, inner),
         listing' = [listing EXCEPT ![c] = new],
         UNCHANGED <<inner, views, skills, executors>>
  PROVE  CatalogInv'
<1>1. RegistriesTyped'
  BY DEF CatalogInv, RegistriesTyped
<1>2. listing' \in [Clients -> Listings]
  BY DEF CatalogInv
<1>3. \A d \in Clients : FaithfulSoFar(listing'[d], views', inner')
  BY DEF CatalogInv
<1> QED BY <1>1, <1>2, <1>3 DEF CatalogInv

LEMMA CatalogsAtStart ==
  ASSUME NEW c \in Clients, NEW v \in 1 .. Len(views), CatalogInv, StartListing(c, v),
         UNCHANGED <<skills, executors>>
  PROVE  CatalogInv'
<1> DEFINE new == [NoListing EXCEPT !.pc = "reading", !.view = v, !.during = {inner}]
<1>1. /\ new.pc = "reading" /\ new.view = v /\ new.shard = 1 /\ new.found = <<>>
      /\ new.during = {inner}
  BY DEF NoListing
<1>2. inner \in Maps /\ views[v] \subseteq Names /\ v \in Nat
  BY DEF CatalogInv, RegistriesTyped
<1>3. new \in Listings
  BY <1>2, NoListingTyped DEF Listings
<1>4. \A n \in Names : ~(Shard[n] < 1)
  BY ShardAssumption
<1>5. FoundOnce(new) /\ FoundThere(new, views[v])
  BY <1>1 DEF FoundOnce, FoundThere
<1>6. NothingMissed(new, views[v])
  BY <1>1, <1>2, <1>4 DEF NothingMissed
<1>7. FaithfulSoFar(new, views, inner)
  BY <1>1, <1>5, <1>6 DEF FaithfulSoFar
<1>8. listing' = [listing EXCEPT ![c] = new]
  BY DEF StartListing
<1> HIDE DEF new
<1> QED BY <1>3, <1>7, <1>8, CatalogsAtOne DEF StartListing

LEMMA SeqWidens ==
  ASSUME NEW A, NEW B, A \subseteq B, NEW s \in Seq(A)
  PROVE  s \in Seq(B)
OBVIOUS

\* What concatenation puts where.
LEMMA Joined ==
  ASSUME NEW S, NEW s \in Seq(S), NEW t \in Seq(S)
  PROVE  /\ DOMAIN (s \o t) = 1 .. Len(s) + Len(t)
         /\ \A k \in DOMAIN s : k \in DOMAIN (s \o t) /\ (s \o t)[k] = s[k]
         /\ \A k \in DOMAIN t : Len(s) + k \in DOMAIN (s \o t) /\ (s \o t)[Len(s) + k] = t[k]
         /\ \A k \in DOMAIN (s \o t) : k \notin DOMAIN s =>
              k - Len(s) \in DOMAIN t /\ (s \o t)[k] = t[k - Len(s)]
OBVIOUS

\* The entries of one shard come in some order, each once.
LEMMA ShardListed ==
  ASSUME NEW v, NEW shard, NEW entries \in SetToSeqs(Visible(v, shard)), inner \in Maps
  PROVE  /\ entries \in Seq(Visible(v, shard))
         /\ \A j, k \in DOMAIN entries : entries[j].name = entries[k].name => j = k
         /\ \A e \in Visible(v, shard) : \E k \in DOMAIN entries : entries[k] = e
<1> DEFINE V == Visible(v, shard)
           D == 1 .. Cardinality(V)
<1>1. \A e, f \in V : e.name = f.name => e = f
  BY DEF Visible
<1>2. [e \in V |-> e.name] \in Injection(V, Names)
  BY <1>1 DEF Visible, Injection, IsInjective
<1>3. IsFiniteSet(V)
  BY <1>2, FS_Injection, NamesAssumption
<1>4. Cardinality(V) \in Nat
  BY <1>3, FS_CardinalityType
<1>5. entries \in [D -> V] /\ \A j, k \in D : j # k => entries[j] # entries[k]
  BY DEF SetToSeqs
<1> HIDE DEF V
<1>6. entries \in Injection(D, V)
  BY <1>5 DEF Injection, IsInjective
<1>7. Cardinality(D) = Cardinality(V)
  BY <1>4, FS_Interval
<1>8. entries \in Surjection(D, V)
  BY <1>3, <1>6, <1>7, FS_Injection
<1>9. \A e \in V : \E k \in D : entries[k] = e
  BY <1>8 DEF Surjection
<1>10. entries \in Seq(V) /\ DOMAIN entries = D
  BY <1>4, <1>5
<1> QED BY <1>1, <1>5, <1>9, <1>10 DEF V

\* What the shard being read holds is found, and what the shards before it hold was.
LEMMA CatalogsAtShard ==
  ASSUME NEW c \in Clients, CatalogInv, ReadShard(c), UNCHANGED <<skills, executors>>
  PROVE  CatalogInv'
<1> DEFINE l == listing[c]
           names == views[l.view]
<1>1. PICK entries \in SetToSeqs(Visible(l.view, l.shard)) :
        listing' = [listing EXCEPT ![c].found = @ \o entries, ![c].shard = @ + 1]
  BY DEF ReadShard
<1> DEFINE new == [l EXCEPT !.found = @ \o entries, !.shard = @ + 1]
<1>2. /\ l \in Listings /\ FaithfulSoFar(l, views, inner) /\ inner \in Maps
      /\ l.pc = "reading" /\ l.shard <= Shards
  BY DEF CatalogInv, RegistriesTyped, ReadShard
<1>3. names \subseteq Names /\ inner \in l.during /\ l.view \in 1 .. Len(views)
  BY <1>2 DEF CatalogInv, RegistriesTyped, FaithfulSoFar
<1>4. \A e \in Visible(l.view, l.shard) :
        /\ e \in Entries /\ e.name \in names
        /\ Shard[e.name] = l.shard /\ inner[e.name] = e.version
  BY <1>2 DEF Visible, Gets, Authorised, Maps, Entries
<1>5. \A n \in names : Shard[n] = l.shard /\ inner[n] # Vacant =>
        \E e \in Visible(l.view, l.shard) : e.name = n
  <2> TAKE n \in names
  <2> HAVE Shard[n] = l.shard /\ inner[n] # Vacant
  <2>1. [name |-> n, version |-> inner[n]] \in Visible(l.view, l.shard)
    BY <1>3 DEF Visible, Gets, Authorised
  <2> QED BY <2>1
<1>6. /\ entries \in Seq(Visible(l.view, l.shard))
      /\ \A j, k \in DOMAIN entries : entries[j].name = entries[k].name => j = k
      /\ \A e \in Visible(l.view, l.shard) : \E k \in DOMAIN entries : entries[k] = e
  BY <1>2, ShardListed
<1>7. /\ l.found \in Seq(Entries) /\ l.shard \in Nat
      /\ \A n \in Names : Shard[n] \in Nat
  BY <1>2, ShardAssumption DEF Listings
<1>8. entries \in Seq(Entries)
  <2>1. Visible(l.view, l.shard) \subseteq Entries
    BY <1>4
  <2> QED BY <1>6, <2>1, SeqWidens
<1>9. /\ new \in Listings /\ new.view = l.view /\ new.shard = l.shard + 1 /\ new.pc = "reading"
      /\ new.found = l.found \o entries /\ new.during = l.during
  <2>1. l.found \o entries \in Seq(Entries)
    BY <1>7, <1>8
  <2>2. l.shard + 1 \in 1 .. Shards + 1
    BY <1>2, ShardAssumption DEF Listings
  <2> QED BY <1>2, <2>1, <2>2 DEF Listings
<1> HIDE DEF new
<1>10. /\ \A k \in DOMAIN l.found : k \in DOMAIN new.found /\ new.found[k] = l.found[k]
       /\ \A k \in DOMAIN entries :
            Len(l.found) + k \in DOMAIN new.found /\ new.found[Len(l.found) + k] = entries[k]
       /\ \A k \in DOMAIN new.found : k \notin DOMAIN l.found =>
            k - Len(l.found) \in DOMAIN entries /\ new.found[k] = entries[k - Len(l.found)]
  <2> DEFINE both == l.found \o entries
  <2>1. /\ \A k \in DOMAIN l.found : k \in DOMAIN both /\ both[k] = l.found[k]
        /\ \A k \in DOMAIN entries :
             Len(l.found) + k \in DOMAIN both /\ both[Len(l.found) + k] = entries[k]
        /\ \A k \in DOMAIN both : k \notin DOMAIN l.found =>
             k - Len(l.found) \in DOMAIN entries /\ both[k] = entries[k - Len(l.found)]
    <3> HIDE DEF l
    <3>1. l.found \in Seq(Entries)
      BY <1>7
    <3> QED BY <3>1, <1>8, Joined
  <2> QED BY <2>1, <1>9
<1>11. \A k \in DOMAIN l.found :
         /\ l.found[k].name \in names /\ Shard[l.found[k].name] < l.shard
         /\ \E then \in l.during : then[l.found[k].name] = l.found[k].version
  BY <1>2 DEF FaithfulSoFar, FoundThere
<1>12. \A k \in DOMAIN entries :
         /\ entries[k].name \in names /\ Shard[entries[k].name] = l.shard
         /\ inner[entries[k].name] = entries[k].version
  BY <1>4, <1>6
<1>13. FoundOnce(new)
  <2> SUFFICES ASSUME NEW j \in DOMAIN new.found, NEW k \in DOMAIN new.found,
                      new.found[j].name = new.found[k].name
               PROVE  j = k
    BY DEF FoundOnce
  <2>0. j \in Int /\ k \in Int /\ Len(l.found) \in Int
    BY <1>7, <1>8, <1>9
  <2>1. CASE j \in DOMAIN l.found /\ k \in DOMAIN l.found
    BY <2>1, <1>2, <1>10 DEF FaithfulSoFar, FoundOnce
  <2>2. CASE j \notin DOMAIN l.found /\ k \notin DOMAIN l.found
    <3>1. /\ j - Len(l.found) \in DOMAIN entries /\ k - Len(l.found) \in DOMAIN entries
          /\ entries[j - Len(l.found)].name = entries[k - Len(l.found)].name
      BY <2>2, <1>10
    <3>2. j - Len(l.found) = k - Len(l.found)
      BY <3>1, <1>6
    <3> QED BY <2>0, <3>2
  <2>3. CASE (j \in DOMAIN l.found) # (k \in DOMAIN l.found)
    <3>1. \A i \in DOMAIN l.found : Shard[l.found[i].name] # l.shard
      BY <1>3, <1>7, <1>11
    <3> QED BY <2>3, <3>1, <1>10, <1>12
  <2> QED BY <2>1, <2>2, <2>3
<1>14. FoundThere(new, names)
  <2> SUFFICES ASSUME NEW k \in DOMAIN new.found
               PROVE  /\ new.found[k].name \in names /\ Shard[new.found[k].name] < l.shard + 1
                      /\ \E then \in l.during : then[new.found[k].name] = new.found[k].version
    BY <1>9 DEF FoundThere
  <2>1. CASE k \in DOMAIN l.found
    <3>1. new.found[k] = l.found[k]
      BY <2>1, <1>10
    <3>2. /\ l.found[k].name \in names /\ Shard[l.found[k].name] < l.shard
          /\ \E then \in l.during : then[l.found[k].name] = l.found[k].version
      BY <2>1, <1>11
    <3>3. Shard[l.found[k].name] \in Nat /\ l.shard \in Nat
      BY <3>2, <1>3, <1>7
    <3> HIDE DEF l
    <3>4. Shard[l.found[k].name] < l.shard + 1
      BY <3>2, <3>3
    <3> QED BY <3>1, <3>2, <3>4
  <2>2. CASE k \notin DOMAIN l.found
    <3>1. PICK i \in DOMAIN entries : new.found[k] = entries[i]
      BY <2>2, <1>10
    <3>2. entries[i].name \in names /\ Shard[entries[i].name] = l.shard
      BY <1>12
    <3>3. \E then \in l.during : then[entries[i].name] = entries[i].version
      BY <1>3, <1>12
    <3>4. l.shard < l.shard + 1
      BY <1>7
    <3> HIDE DEF l
    <3> QED BY <3>1, <3>2, <3>3, <3>4
  <2> QED BY <2>1, <2>2
<1>15. NothingMissed(new, names)
  <2> SUFFICES ASSUME NEW n \in names, Shard[n] < l.shard + 1,
                      \A then \in l.during : then[n] # Vacant
               PROVE  \E k \in DOMAIN new.found : new.found[k].name = n
    BY <1>9 DEF NothingMissed, NamesFound
  <2>1. CASE Shard[n] < l.shard
    <3>1. PICK k \in DOMAIN l.found : l.found[k].name = n
      BY <2>1, <1>2 DEF FaithfulSoFar, NothingMissed, NamesFound
    <3> QED BY <3>1, <1>10
  <2>2. CASE Shard[n] = l.shard
    <3>1. PICK k \in DOMAIN entries : entries[k].name = n
      BY <2>2, <1>3, <1>5, <1>6
    <3> QED BY <3>1, <1>10
  <2> QED BY <2>1, <2>2, <1>3, <1>7
<1>16. FaithfulSoFar(new, views, inner)
  BY <1>3, <1>9, <1>13, <1>14, <1>15 DEF FaithfulSoFar
<1>17. listing' = [listing EXCEPT ![c] = new]
  BY <1>1 DEF new, CatalogInv
<1> QED BY <1>9, <1>16, <1>17, CatalogsAtOne DEF ReadShard

\* Sorting keeps the entries; as no name is there twice, the order is strict.
LEMMA CatalogsAtFinish ==
  ASSUME NEW c \in Clients, CatalogInv, FinishListing(c), UNCHANGED <<skills, executors>>
  PROVE  CatalogInv'
<1> DEFINE l == listing[c]
           D == DOMAIN l.found
           names == views[l.view]
<1>1. PICK p \in Bijection(D, D) :
        /\ SortsByName(l.found, p)
        /\ listing' = [listing EXCEPT ![c].pc = "done", ![c].found = [k \in D |-> l.found[p[k]]]]
  BY DEF FinishListing
<1> DEFINE sorted == [k \in D |-> l.found[p[k]]]
           new == [l EXCEPT !.pc = "done", !.found = sorted]
<1>2. /\ l \in Listings /\ FaithfulSoFar(l, views, inner)
      /\ l.shard > Shards /\ names \subseteq Names
  BY DEF CatalogInv, RegistriesTyped, FinishListing, FaithfulSoFar
<1>3. /\ l.found \in Seq(Entries)
      /\ \A k \in D : l.found[k] \in Entries /\ l.found[k].name \in Nat
      /\ D \subseteq Nat
  <2>1. l.found \in Seq(Entries)
    BY <1>2 DEF Listings
  <2>2. \A e \in Entries : e.name \in Nat
    BY NamesAssumption DEF Entries
  <2>3. D = 1 .. Len(l.found) /\ \A k \in D : l.found[k] \in Entries
    BY <2>1
  <2> QED BY <2>1, <2>2, <2>3
<1>4. /\ p \in [D -> D] /\ DOMAIN p = D
      /\ \A j, k \in D : p[j] = p[k] => j = k
      /\ \A k \in D : \E j \in D : p[j] = k
  BY DEF Bijection, Injection, IsInjective, Surjection
<1>5. sorted \in Seq(Entries) /\ DOMAIN sorted = D /\ \A k \in D : sorted[k] = l.found[p[k]]
  <2>1. D = 1 .. Len(l.found) /\ Len(l.found) \in Nat
    BY <1>3
  <2>2. sorted \in [1 .. Len(l.found) -> Entries]
    BY <2>1, <1>3, <1>4
  <2> QED BY <2>1, <2>2
<1> HIDE DEF sorted
<1>6. /\ new \in Listings /\ new.view = l.view /\ new.shard = l.shard /\ new.pc = "done"
      /\ new.found = sorted /\ new.during = l.during
  BY <1>2, <1>5 DEF Listings
<1>7. listing' = [listing EXCEPT ![c] = new]
  BY <1>1 DEF sorted, CatalogInv
<1> HIDE DEF new
<1>8. FoundOnce(new) /\ FoundThere(new, names)
  <2>1. FoundOnce(new)
    BY <1>2, <1>4, <1>5, <1>6 DEF FaithfulSoFar, FoundOnce
  <2>2. \A k \in D : /\ l.found[k].name \in names /\ Shard[l.found[k].name] < l.shard
                    /\ \E then \in l.during : then[l.found[k].name] = l.found[k].version
    BY <1>2 DEF FaithfulSoFar, FoundThere
  <2>3. \A k \in D : p[k] \in D /\ sorted[k] = l.found[p[k]]
    BY <1>4, <1>5
  <2>4. ASSUME NEW k \in D
        PROVE  /\ sorted[k].name \in names /\ Shard[sorted[k].name] < l.shard
               /\ \E then \in l.during : then[sorted[k].name] = sorted[k].version
    <3>1. PICK i \in D : sorted[k] = l.found[i]
      BY <2>3
    <3> QED BY <2>2, <3>1
  <2>5. FoundThere(new, names)
    <3> HIDE DEF l
    <3> QED BY <2>4, <1>5, <1>6 DEF FoundThere
  <2> QED BY <2>1, <2>5
<1>9. NothingMissed(new, names)
  <2>1. ASSUME NEW k \in D PROVE l.found[k].name \in NamesFound(new)
    <3>1. PICK j \in D : p[j] = k
      BY <1>4
    <3>2. j \in DOMAIN new.found /\ new.found[j] = l.found[k]
      BY <3>1, <1>5, <1>6
    <3> QED BY <3>2 DEF NamesFound
  <2>2. \A n \in NamesFound(l) : n \in NamesFound(new)
    BY <2>1 DEF NamesFound
  <2> QED BY <2>2, <1>2, <1>6 DEF FaithfulSoFar, NothingMissed
<1>10. ASSUME NEW j \in D, NEW k \in D, j < k
       PROVE  sorted[j].name < sorted[k].name
  <2>1. p[j] # p[k] /\ p[j] \in D /\ p[k] \in D
    <3>1. j # k
      BY <1>3, <1>10
    <3> QED BY <3>1, <1>4
  <2>2. l.found[p[j]].name # l.found[p[k]].name
    BY <2>1, <1>2 DEF FaithfulSoFar, FoundOnce
  <2> QED BY <2>2, <1>1, <1>4, <1>5, <1>10 DEF SortsByName
<1>11. FaithfulSoFar(new, views, inner)
  BY <1>2, <1>5, <1>6, <1>8, <1>9, <1>10 DEF FaithfulSoFar
<1> QED BY <1>6, <1>7, <1>11, CatalogsAtOne DEF FinishListing

LEMMA CatalogsKept == CatalogInv /\ [AssemblyNext]_allVars => CatalogInv'
<1> SUFFICES ASSUME CatalogInv, [AssemblyNext]_allVars PROVE CatalogInv'
  OBVIOUS
<1>1. CASE UNCHANGED <<vars, skills, executors>>
  BY <1>1 DEF vars, CatalogInv, RegistriesTyped
<1>2. ASSUME NEW s \in Skills, RegisterSkill(s) PROVE CatalogInv'
  BY <1>2 DEF RegisterSkill, vars, CatalogInv, RegistriesTyped
<1>3. ASSUME NEW e \in Executors, RegisterExecutor(e) PROVE CatalogInv'
  BY <1>3 DEF RegisterExecutor, vars, CatalogInv, RegistriesTyped
<1>4. ASSUME NEW c \in Clients, TakeCatalog(c) PROVE CatalogInv'
  BY <1>4, CatalogsAtStart, CatalogsAtShard, CatalogsAtFinish DEF TakeCatalog
<1>5. ASSUME NEW a \in Clients, AssemblyStep(a) \/ \E m \in Manifests : Start(a, m)
      PROVE  UNCHANGED <<vars, skills, executors>>
  BY <1>5 DEF AssemblyStep, Start, CopyTool, WireDelegate, ResolveSkill, EndLoop, ScopeTools,
              Own, Fail, SetLocal
<1> QED BY <1>1, <1>2, <1>3, <1>4, <1>5, CatalogsAtRegister, CatalogsAtScoped DEF AssemblyNext, allVars

\* However registrations race the iteration over the shards, a catalog is sorted
\* without repetition, misses no tool of its view that was registered throughout,
\* and shows none that was not registered at some instant: for any number of names,
\* shards, views and clients.
THEOREM CatalogsFaithful == AssemblySpec => []CatalogIsFaithful
<1>1. CatalogInv => CatalogIsFaithful
  <2> SUFFICES ASSUME CatalogInv, NEW c \in Clients, Done(c)
               PROVE  LET l == listing[c]
                      IN  /\ \A j, k \in DOMAIN l.found : j < k => l.found[j].name < l.found[k].name
                          /\ \A n \in views[l.view] :
                               (\A map \in l.during : map[n] # Vacant) => n \in NamesFound(l)
                          /\ FoundThere(l, views[l.view])
    BY DEF CatalogIsFaithful, Listed, NamesFound, FoundThere
  <2>1. FaithfulSoFar(listing[c], views, inner) /\ listing[c].pc = "done"
    BY DEF CatalogInv, Done
  <2>2. \A n \in views[listing[c].view] : Shard[n] < listing[c].shard
    <3>1. views[listing[c].view] \subseteq Names /\ listing[c].shard \in Nat
      BY <2>1, ShardAssumption DEF CatalogInv, RegistriesTyped, FaithfulSoFar, Listings
    <3> QED BY <2>1, <3>1, ShardAssumption DEF FaithfulSoFar
  <2> QED BY <2>1, <2>2 DEF FaithfulSoFar, NothingMissed
<1> QED BY <1>1, CatalogsAtFirst, CatalogsKept, PTL DEF AssemblySpec

----------------------------------------------------------------------------
(* Agents                                                                   *)

Delegations == [name : Names, key : Executors, kind : STRING]

Registries == [tools |-> inner, skills |-> skills, executors |-> executors]

RegistryValues == [tools : Maps, skills : [Skills -> Nat], executors : [Executors -> Nat]]

\* Registration replaces an entry by a later one.
Grown(at, now) ==
  /\ \A n \in Names : at.tools[n] <= now.tools[n]
  /\ \A s \in Skills : at.skills[s] <= now.skills[s]
  /\ \A e \in Executors : at.executors[e] <= now.executors[e]

Kinds == {"absent", "host", "delegate", "stub"}

OwnTools == [Names -> [kind : Kinds, version : Nat]]

Links == [skill : Skills, version : Nat]

Locals ==
  [pc : {"tools", "delegates", "chain", "scope", "built", "failed"}, pos : Nat \ {0},
   manifest : Manifests, tools : OwnTools, chain : Seq(Links), visible : SUBSET Names,
   at : RegistryValues]

\* How many entries of each list of the manifest are behind the loops.
ToolsDone(l) == IF l.pc = "tools" THEN l.pos - 1 ELSE Len(l.manifest.tools)

DelegatesDone(l) ==
  CASE l.pc = "tools" -> 0
    [] l.pc = "delegates" -> l.pos - 1
    [] OTHER -> Len(l.manifest.delegates)

ChainDone(l) ==
  CASE l.pc \in {"tools", "delegates"} -> 0
    [] l.pc = "chain" -> l.pos - 1
    [] OTHER -> Len(l.manifest.chain)

IsHostTool(tool, n, at, now) ==
  tool.kind = "host" /\ Between(at.tools[n], tool.version, now.tools[n])

IsDelegate(tool, d, at, now) ==
  \/ tool.kind = "delegate" /\ Between(at.executors[d.key], tool.version, now.executors[d.key])
  \/ tool.kind = "stub" /\ d.kind # "in_process" /\ at.executors[d.key] = Vacant

LastFor(delegates, n, k, j) ==
  /\ k \in 1 .. j
  /\ delegates[k].name = n
  /\ \A o \in 1 .. j : delegates[o].name = n => o <= k

\* With i tools and j delegates behind the loops, where each own tool comes from.
ToolsSoFar(tools, m, i, j, at, now) ==
  \A n \in Names :
    \/ \E k \in 1 .. j : /\ LastFor(m.delegates, n, k, j)
                        /\ IsDelegate(tools[n], m.delegates[k], at, now)
    \/ /\ \A k \in 1 .. j : m.delegates[k].name # n
       /\ \E k \in 1 .. i : m.tools[k] = n
       /\ IsHostTool(tools[n], n, at, now)
    \/ /\ \A k \in 1 .. j : m.delegates[k].name # n
       /\ \A k \in 1 .. i : m.tools[k] # n
       /\ tools[n] = Absent

ChainSoFar(chain, m, i, at, now) ==
  /\ Len(chain) = i
  /\ \A k \in 1 .. i :
       /\ chain[k].skill = m.chain[k]
       /\ Between(at.skills[m.chain[k]], chain[k].version, now.skills[m.chain[k]])

LocalInv(l, now) ==
  /\ l \in Locals
  /\ l.pc # "failed" =>
       /\ Grown(l.at, now)
       /\ ToolsDone(l) <= Len(l.manifest.tools)
       /\ DelegatesDone(l) <= Len(l.manifest.delegates)
       /\ ChainDone(l) <= Len(l.manifest.chain)
       /\ ToolsSoFar(l.tools, l.manifest, ToolsDone(l), DelegatesDone(l), l.at, now)
       /\ ChainSoFar(l.chain, l.manifest, ChainDone(l), l.at, now)

AssemblyInv ==
  /\ RegistriesTyped
  /\ assembly = [a \in Clients |-> assembly[a]]
  /\ \A a \in Clients : assembly[a].pc # "idle" => LocalInv(assembly[a], Registries)

LEMMA ManifestTyped ==
  ASSUME NEW m \in Manifests
  PROVE  /\ m.tools \in Seq(Names) /\ Len(m.tools) \in Nat
         /\ \A k \in 1 .. Len(m.tools) : m.tools[k] \in Names
         /\ m.delegates \in Seq(Delegations)
         /\ Len(m.delegates) \in Nat
         /\ \A k \in 1 .. Len(m.delegates) :
              m.delegates[k].name \in Names /\ m.delegates[k].key \in Executors
         /\ m.chain \in Seq(Skills) /\ Len(m.chain) \in Nat
         /\ \A k \in 1 .. Len(m.chain) : m.chain[k] \in Skills
         /\ m.whitelist \in SUBSET Names
<1>1. m \in [tools : Seq(Names), delegates : Seq(Delegations),
              chain : Seq(Skills), whitelist : SUBSET Names]
  BY ManifestsAssumption DEF Delegations
<1>2. /\ m.tools \in Seq(Names) /\ m.chain \in Seq(Skills) /\ m.whitelist \in SUBSET Names
      /\ m.delegates \in Seq(Delegations)
  BY <1>1
<1>3. \A k \in 1 .. Len(m.delegates) : m.delegates[k] \in Delegations
  BY <1>2
<1>4. /\ \A k \in 1 .. Len(m.tools) : m.tools[k] \in Names
      /\ \A k \in 1 .. Len(m.chain) : m.chain[k] \in Skills
  BY <1>2
<1> QED BY <1>2, <1>3, <1>4 DEF Delegations

LEMMA DoneTyped ==
  ASSUME NEW l \in Locals
  PROVE  ToolsDone(l) \in Nat /\ DelegatesDone(l) \in Nat /\ ChainDone(l) \in Nat
<1>1. l.manifest \in Manifests /\ l.pos \in Nat \ {0}
  BY DEF Locals
<1>2. Len(l.manifest.tools) \in Nat /\ Len(l.manifest.delegates) \in Nat /\ Len(l.manifest.chain) \in Nat
  BY <1>1, ManifestTyped
<1> QED BY <1>1, <1>2 DEF ToolsDone, DelegatesDone, ChainDone

\* What is between the start and now stays so as registries grow.
LEMMA StillSoFar ==
  ASSUME NEW l, NEW now \in RegistryValues, NEW later \in RegistryValues, Grown(now, later),
         LocalInv(l, now)
  PROVE  LocalInv(l, later)
<1>1. CASE l.pc = "failed"
  BY <1>1 DEF LocalInv
<1>2. CASE l.pc # "failed"
  <2> DEFINE m == l.manifest
             j == DelegatesDone(l)
  <2>1. /\ l.at \in RegistryValues /\ m \in Manifests /\ l.tools \in OwnTools /\ l.chain \in Seq(Links)
        /\ Grown(l.at, now)
    BY <1>2 DEF LocalInv, Locals
  <2>2. /\ \A n \in Names : l.at.tools[n] \in Nat /\ now.tools[n] \in Nat /\ later.tools[n] \in Nat
        /\ \A s \in Skills : l.at.skills[s] \in Nat /\ now.skills[s] \in Nat /\ later.skills[s] \in Nat
        /\ \A e \in Executors :
             l.at.executors[e] \in Nat /\ now.executors[e] \in Nat /\ later.executors[e] \in Nat
    BY <2>1 DEF RegistryValues, Maps
  <2>3. j \in 0 .. Len(m.delegates) /\ ChainDone(l) \in 0 .. Len(m.chain)
    BY <1>2, <2>1, DoneTyped DEF LocalInv
  <2>4. Grown(l.at, later)
    BY <2>1, <2>2 DEF Grown
  <2>5. ToolsSoFar(l.tools, m, ToolsDone(l), j, l.at, later)
    <3> SUFFICES ASSUME NEW n \in Names
                 PROVE  /\ \A k \in 1 .. j : IsDelegate(l.tools[n], m.delegates[k], l.at, now) =>
                                              IsDelegate(l.tools[n], m.delegates[k], l.at, later)
                        /\ IsHostTool(l.tools[n], n, l.at, now) => IsHostTool(l.tools[n], n, l.at, later)
      BY <1>2 DEF LocalInv, ToolsSoFar
    <3>1. l.tools[n].version \in Nat
      BY <2>1 DEF OwnTools
    <3>2. ASSUME NEW k \in 1 .. j PROVE m.delegates[k].key \in Executors
      BY <2>1, <2>3, ManifestTyped
    <3>3. ASSUME NEW k \in 1 .. j, IsDelegate(l.tools[n], m.delegates[k], l.at, now)
          PROVE  IsDelegate(l.tools[n], m.delegates[k], l.at, later)
      <4> DEFINE key == m.delegates[k].key
      <4>1. /\ l.at.executors[key] \in Nat /\ now.executors[key] \in Nat
            /\ later.executors[key] \in Nat /\ now.executors[key] <= later.executors[key]
        BY <2>2, <3>2 DEF Grown
      <4> HIDE DEF key
      <4>2. \/ l.tools[n].kind = "delegate" /\ Between(l.at.executors[key], l.tools[n].version, now.executors[key])
            \/ /\ l.tools[n].kind = "stub" /\ m.delegates[k].kind # "in_process"
               /\ l.at.executors[key] = Vacant
        BY <3>3 DEF IsDelegate, key
      <4>3. \/ l.tools[n].kind = "delegate" /\ Between(l.at.executors[key], l.tools[n].version, later.executors[key])
            \/ /\ l.tools[n].kind = "stub" /\ m.delegates[k].kind # "in_process"
               /\ l.at.executors[key] = Vacant
        BY <3>1, <4>1, <4>2 DEF Between
      <4> QED BY <4>3 DEF IsDelegate, key
    <3>4. IsHostTool(l.tools[n], n, l.at, now) => IsHostTool(l.tools[n], n, l.at, later)
      BY <2>2, <3>1 DEF IsHostTool, Between, Grown
    <3> QED BY <3>3, <3>4
  <2>6. ChainSoFar(l.chain, m, ChainDone(l), l.at, later)
    <3> SUFFICES ASSUME NEW k \in 1 .. ChainDone(l)
                 PROVE  Between(l.at.skills[m.chain[k]], l.chain[k].version, later.skills[m.chain[k]])
      BY <1>2 DEF LocalInv, ChainSoFar
    <3>1. m.chain[k] \in Skills
      BY <2>1, <2>3, ManifestTyped
    <3>2. l.chain[k].version \in Nat
      <4>1. Len(l.chain) = ChainDone(l)
        BY <1>2 DEF LocalInv, ChainSoFar
      <4>2. l.chain[k] \in Links
        BY <2>1, <4>1
      <4> QED BY <4>2 DEF Links
    <3>3. Between(l.at.skills[m.chain[k]], l.chain[k].version, now.skills[m.chain[k]])
      BY <1>2 DEF LocalInv, ChainSoFar
    <3> QED BY <2>2, <3>1, <3>2, <3>3 DEF Between, Grown
  <2> QED BY <1>2, <2>4, <2>5, <2>6 DEF LocalInv
<1> QED BY <1>1, <1>2

LEMMA RegistriesAreValues ==
  ASSUME RegistriesTyped
  PROVE  /\ Registries \in RegistryValues
         /\ Registries.tools = inner /\ Registries.skills = skills /\ Registries.executors = executors
BY DEF RegistriesTyped, Registries, RegistryValues

\* A change to the locals of one client.
LEMMA LocalsAtOne ==
  ASSUME AssemblyInv, NEW a \in Clients, NEW new, LocalInv(new, Registries), SetLocal(a, new)
  PROVE  AssemblyInv'
<1>1. RegistriesTyped' /\ Registries' = Registries
  BY DEF AssemblyInv, RegistriesTyped, Registries, SetLocal, vars
<1>2. assembly' = [assembly EXCEPT ![a] = new]
  BY DEF SetLocal
<1>3. assembly' = [b \in Clients |-> IF b = a THEN new ELSE assembly[b]]
  BY <1>2 DEF AssemblyInv
<1>4. assembly' = [b \in Clients |-> assembly'[b]]
  BY <1>3
<1>5. ASSUME NEW b \in Clients, assembly'[b].pc # "idle" PROVE LocalInv(assembly'[b], Registries)
  BY <1>3, <1>5 DEF AssemblyInv
<1> QED BY <1>1, <1>4, <1>5 DEF AssemblyInv

LEMMA LocalsAtFail ==
  ASSUME AssemblyInv, NEW a \in Clients, Local(a).pc # "idle", Fail(a)
  PROVE  AssemblyInv'
<1> DEFINE new == [Local(a) EXCEPT !.pc = "failed"]
<1>1. Local(a) \in Locals
  BY DEF AssemblyInv, LocalInv, Local
<1>2. new \in Locals /\ new.pc = "failed"
  BY <1>1 DEF Locals
<1>3. LocalInv(new, Registries) /\ SetLocal(a, new)
  BY <1>2 DEF LocalInv, Fail
<1> HIDE DEF new
<1> QED BY <1>3, LocalsAtOne

\* Nothing is behind the loops at first, and what the registries hold is what
\* they held.
LEMMA LocalsAtStart ==
  ASSUME AssemblyInv, NEW a \in Clients, NEW m \in Manifests, Start(a, m)
  PROVE  AssemblyInv'
<1> DEFINE new == Started(m)
<1>1. /\ new.pc = "tools" /\ new.pos = 1 /\ new.manifest = m /\ new.chain = <<>>
      /\ new.tools = [n \in Names |-> Absent] /\ new.at = Registries
  BY DEF Started, Registries
<1>2. Registries \in RegistryValues /\ Absent \in [kind : Kinds, version : Nat]
  <2>1. Absent \in [kind : Kinds, version : Nat]
    BY DEF Absent, Vacant, Kinds
  <2> QED BY <2>1, RegistriesAreValues DEF AssemblyInv
<1>3. new \in Locals
  BY <1>2 DEF Started, Registries, Locals, OwnTools
<1>4. ToolsDone(new) = 0 /\ DelegatesDone(new) = 0 /\ ChainDone(new) = 0
  BY <1>1 DEF ToolsDone, DelegatesDone, ChainDone
<1>5. Grown(Registries, Registries)
  BY <1>2 DEF Grown, RegistryValues, Maps
<1>6. ToolsSoFar(new.tools, m, 0, 0, new.at, Registries) /\ ChainSoFar(new.chain, m, 0, new.at, Registries)
  BY <1>1 DEF ToolsSoFar, ChainSoFar
<1>7. SetLocal(a, new)
  BY DEF Start
<1> HIDE DEF new
<1>8. LocalInv(new, Registries)
  BY <1>1, <1>3, <1>4, <1>5, <1>6, ManifestTyped DEF LocalInv
<1> QED BY <1>7, <1>8, LocalsAtOne

\* At the end of a list all of its entries are behind the loop.
LEMMA LocalsAtEndLoop ==
  ASSUME AssemblyInv, NEW a \in Clients, NEW pc, NEW list, NEW then, EndLoop(a, pc, list, then),
         \/ pc = "tools" /\ list = Local(a).manifest.tools /\ then = "delegates"
         \/ pc = "delegates" /\ list = Local(a).manifest.delegates /\ then = "chain"
         \/ pc = "chain" /\ list = Local(a).manifest.chain /\ then = "scope"
  PROVE  AssemblyInv'
<1> DEFINE l == Local(a)
           new == [l EXCEPT !.pc = then, !.pos = 1]
<1>1. l.pc = pc /\ l.pos > Len(list) /\ SetLocal(a, new)
  BY DEF EndLoop
<1>2. LocalInv(l, Registries) /\ l \in Locals /\ l.pc # "failed"
  BY <1>1 DEF AssemblyInv, LocalInv, Local
<1>3. /\ new \in Locals /\ new.pc = then /\ new.pos = 1 /\ new.manifest = l.manifest
      /\ new.tools = l.tools /\ new.chain = l.chain /\ new.at = l.at
  <2>1. then \in {"delegates", "chain", "scope"}
    OBVIOUS
  <2>2. l \in Locals /\ 1 \in Nat \ {0}
    BY <1>2
  <2>3. new \in Locals
    BY <2>1, <2>2 DEF Locals
  <2>4. /\ new.pc = then /\ new.pos = 1 /\ new.manifest = l.manifest
        /\ new.tools = l.tools /\ new.chain = l.chain /\ new.at = l.at
    BY <2>2 DEF Locals
  <2> QED BY <2>3, <2>4
<1> HIDE DEF new
<1>4. l.manifest \in Manifests /\ l.pos \in Nat
  BY <1>2 DEF Locals
<1>5. ToolsDone(new) = ToolsDone(l) /\ DelegatesDone(new) = DelegatesDone(l) /\ ChainDone(new) = ChainDone(l)
  <2>1. /\ Len(l.manifest.tools) \in Nat /\ Len(l.manifest.delegates) \in Nat
        /\ Len(l.manifest.chain) \in Nat
    BY <1>4, ManifestTyped
  <2>2. l.pos - 1 = Len(list)
    BY <1>1, <1>2, <1>4, <2>1 DEF LocalInv, ToolsDone, DelegatesDone, ChainDone
  <2> QED BY <1>1, <1>3, <2>1, <2>2 DEF ToolsDone, DelegatesDone, ChainDone
<1>6. LocalInv(new, Registries)
  BY <1>2, <1>3, <1>5 DEF LocalInv
<1> QED BY <1>1, <1>6, LocalsAtOne

LEMMA LocalsAtScope ==
  ASSUME AssemblyInv, NEW a \in Clients, ScopeTools(a)
  PROVE  AssemblyInv'
<1> DEFINE l == Local(a)
           new == [l EXCEPT !.pc = "built", !.visible = l.manifest.whitelist]
<1>1. LocalInv(l, Registries) /\ l \in Locals /\ l.pc = "scope" /\ SetLocal(a, new)
  BY DEF AssemblyInv, LocalInv, Local, ScopeTools
<1>2. l.manifest.whitelist \in SUBSET Names
  BY <1>1, ManifestTyped DEF Locals
<1>3. /\ new \in Locals /\ new.pc = "built" /\ new.manifest = l.manifest
      /\ new.tools = l.tools /\ new.chain = l.chain /\ new.at = l.at
  BY <1>1, <1>2 DEF Locals
<1> HIDE DEF new
<1>4. ToolsDone(new) = ToolsDone(l) /\ DelegatesDone(new) = DelegatesDone(l) /\ ChainDone(new) = ChainDone(l)
  BY <1>1, <1>3 DEF ToolsDone, DelegatesDone, ChainDone
<1>5. LocalInv(new, Registries)
  BY <1>1, <1>3, <1>4 DEF LocalInv
<1> QED BY <1>1, <1>5, LocalsAtOne

\* The locals after an entry of the tool or delegate lists is owned.
Owning(l, n, kind, version) ==
  [l EXCEPT !.tools[n] = [kind |-> kind, version |-> version], !.pos = @ + 1]

LEMMA OwnedTyped ==
  ASSUME NEW l \in Locals, NEW n \in Names, NEW kind \in Kinds, NEW version \in Nat
  PROVE  LET new == Owning(l, n, kind, version)
         IN  /\ new \in Locals /\ new.pc = l.pc /\ new.pos = l.pos + 1 /\ new.manifest = l.manifest
             /\ new.chain = l.chain /\ new.at = l.at
             /\ new.tools[n].kind = kind /\ new.tools[n].version = version
             /\ \A o \in Names : o # n => new.tools[o] = l.tools[o]
<1> DEFINE tool == [kind |-> kind, version |-> version]
           tools == [l.tools EXCEPT ![n] = tool]
           new == [l EXCEPT !.tools = tools, !.pos = @ + 1]
<1>1. l.tools \in OwnTools /\ l.pos \in Nat
  BY DEF Locals
<1>2. tool \in [kind : Kinds, version : Nat]
  OBVIOUS
<1>3. /\ tools \in OwnTools /\ tools[n] = tool
      /\ \A o \in Names : o # n => tools[o] = l.tools[o]
  BY <1>1, <1>2 DEF OwnTools
<1> HIDE DEF tools
<1>4. l.pos + 1 \in Nat \ {0}
  BY <1>1
<1>5. /\ new \in Locals /\ new.pc = l.pc /\ new.pos = l.pos + 1 /\ new.manifest = l.manifest
      /\ new.chain = l.chain /\ new.at = l.at /\ new.tools = tools
  BY <1>3, <1>4 DEF Locals
<1>6. new = Owning(l, n, kind, version)
  BY DEF tools, Owning
<1> HIDE DEF new
<1> QED BY <1>3, <1>5, <1>6

\* One more tool is behind the loop; delegates come later, so none has its name.
LEMMA LocalsAtTool ==
  ASSUME AssemblyInv, NEW a \in Clients, CopyTool(a)
  PROVE  AssemblyInv'
<1> DEFINE l == Local(a)
           m == l.manifest
           n == m.tools[l.pos]
           new == Owning(l, n, "host", inner[n])
           i == l.pos - 1
<1>1. /\ l.pc = "tools" /\ l.pos <= Len(m.tools) /\ LocalInv(l, Registries) /\ l \in Locals
  BY DEF CopyTool, InLoop, AssemblyInv, LocalInv, Local
<1>2. m \in Manifests /\ l.pos \in Nat \ {0} /\ l.at \in RegistryValues
  BY <1>1 DEF Locals
<1>3. n \in Names /\ Len(m.tools) \in Nat /\ Len(m.delegates) \in Nat
  BY <1>1, <1>2, ManifestTyped
<1>4. CASE Fail(a)
  BY <1>1, <1>4, LocalsAtFail
<1>5. CASE Gets(1, n) /\ SetLocal(a, new)
  <2>1. inner[n] \in Nat /\ inner[n] # Vacant /\ Registries.tools = inner
    BY <1>3, <1>5, RegistriesAreValues DEF Gets, AssemblyInv, RegistriesTyped, Maps
  <2>2. /\ new \in Locals /\ new.pc = "tools" /\ new.pos = l.pos + 1 /\ new.manifest = m
        /\ new.chain = l.chain /\ new.at = l.at
        /\ new.tools[n].kind = "host" /\ new.tools[n].version = inner[n]
        /\ \A o \in Names : o # n => new.tools[o] = l.tools[o]
    <3>1. "host" \in Kinds
      BY DEF Kinds
    <3> HIDE DEF n
    <3> QED BY <1>1, <1>3, <2>1, <3>1, OwnedTyped
  <2> HIDE DEF new
  <2>3. /\ ToolsDone(l) = i /\ DelegatesDone(l) = 0 /\ ChainDone(l) = 0
        /\ ToolsDone(new) = i + 1 /\ DelegatesDone(new) = 0 /\ ChainDone(new) = 0
    BY <1>1, <1>2, <2>2 DEF ToolsDone, DelegatesDone, ChainDone
  <2>4. IsHostTool(new.tools[n], n, l.at, Registries)
    <3>1. Grown(l.at, Registries)
      BY <1>1 DEF LocalInv
    <3> HIDE DEF n, i, m, l
    <3>2. l.at.tools[n] <= inner[n]
      BY <1>3, <2>1, <3>1 DEF Grown
    <3> QED BY <2>1, <2>2, <3>2 DEF IsHostTool, Between
  <2>5. ToolsSoFar(new.tools, m, i + 1, 0, l.at, Registries)
    <3>1. ToolsSoFar(l.tools, m, i, 0, l.at, Registries)
      BY <1>1, <2>3 DEF LocalInv
    <3> SUFFICES ASSUME NEW o \in Names
                 PROVE  \/ /\ \E k \in 1 .. i + 1 : m.tools[k] = o
                           /\ IsHostTool(new.tools[o], o, l.at, Registries)
                        \/ /\ \A k \in 1 .. i + 1 : m.tools[k] # o
                           /\ new.tools[o] = Absent
      BY DEF ToolsSoFar
    <3>2. i \in Nat /\ m.tools[i + 1] = n
      BY <1>2
    <3>3. new.tools[o] = (IF o = n THEN new.tools[n] ELSE l.tools[o])
      BY <2>2
    <3> HIDE DEF n, i, m, l
    <3>4. CASE o = n
      BY <3>2, <3>4, <2>4
    <3>5. CASE o # n
      BY <3>1, <3>2, <3>3, <3>5 DEF ToolsSoFar
    <3> QED BY <3>4, <3>5
  <2>6. LocalInv(new, Registries)
    <3>1. Grown(l.at, Registries) /\ ChainSoFar(l.chain, m, 0, l.at, Registries)
      BY <1>1, <2>3 DEF LocalInv
    <3>2. i + 1 <= Len(m.tools) /\ 0 <= Len(m.delegates) /\ 0 <= Len(m.chain)
      BY <1>1, <1>2, <1>3, ManifestTyped
    <3> HIDE DEF n, i, m, l
    <3> QED BY <2>2, <2>3, <2>5, <3>1, <3>2 DEF LocalInv
  <2> QED BY <1>5, <2>6, LocalsAtOne
<1> QED BY <1>4, <1>5 DEF CopyTool, Own, Owning

\* One more delegate is behind the loop: it is the last of its name so far, and
\* what is under other names stays.
LEMMA LocalsAtDelegate ==
  ASSUME AssemblyInv, NEW a \in Clients, WireDelegate(a)
  PROVE  AssemblyInv'
<1> DEFINE l == Local(a)
           m == l.manifest
           d == m.delegates[l.pos]
           n == d.name
           i == Len(m.tools)
           j == l.pos - 1
<1>1. /\ l.pc = "delegates" /\ l.pos <= Len(m.delegates) /\ LocalInv(l, Registries) /\ l \in Locals
  BY DEF WireDelegate, InLoop, AssemblyInv, LocalInv, Local
<1>2. m \in Manifests /\ l.pos \in Nat \ {0} /\ l.at \in RegistryValues
  BY <1>1 DEF Locals
<1>3. n \in Names /\ d.key \in Executors /\ Len(m.tools) \in Nat /\ Len(m.delegates) \in Nat
  BY <1>1, <1>2, ManifestTyped
<1>4. /\ executors[d.key] \in Nat /\ Registries.executors = executors /\ l.at.executors[d.key] \in Nat
      /\ l.at.executors[d.key] <= executors[d.key]
  <2>1. Registries.executors = executors /\ executors[d.key] \in Nat
    BY <1>3, RegistriesAreValues DEF AssemblyInv, RegistriesTyped
  <2>2. l.at.executors[d.key] \in Nat
    BY <1>2, <1>3 DEF RegistryValues
  <2>3. l.at.executors[d.key] <= Registries.executors[d.key]
    BY <1>1, <1>3 DEF LocalInv, Grown
  <2> QED BY <2>1, <2>2, <2>3
<1>5. ASSUME NEW kind \in Kinds, NEW version \in Nat, SetLocal(a, Owning(l, n, kind, version)),
             IsDelegate([kind |-> kind, version |-> version], d, l.at, Registries)
      PROVE  AssemblyInv'
  <2> DEFINE new == Owning(l, n, kind, version)
  <2>1. /\ new \in Locals /\ new.pc = "delegates" /\ new.pos = l.pos + 1 /\ new.manifest = m
        /\ new.chain = l.chain /\ new.at = l.at
        /\ new.tools[n].kind = kind /\ new.tools[n].version = version
        /\ \A o \in Names : o # n => new.tools[o] = l.tools[o]
    <3> HIDE DEF n
    <3> QED BY <1>1, <1>3, OwnedTyped
  <2> HIDE DEF new
  <2>2. /\ ToolsDone(l) = i /\ DelegatesDone(l) = j /\ ChainDone(l) = 0
        /\ ToolsDone(new) = i /\ DelegatesDone(new) = j + 1 /\ ChainDone(new) = 0
    BY <1>1, <1>2, <2>1 DEF ToolsDone, DelegatesDone, ChainDone
  <2>3. IsDelegate(new.tools[n], m.delegates[j + 1], l.at, Registries)
    <3>1. m.delegates[j + 1] = d
      BY <1>2
    <3>2. IsDelegate(new.tools[n], d, l.at, Registries)
      <4> HIDE DEF n, d
      <4> QED BY <1>5, <2>1 DEF IsDelegate
    <3> QED BY <3>1, <3>2
  <2>4. LastFor(m.delegates, n, j + 1, j + 1)
    BY <1>2 DEF LastFor
  <2>5. ToolsSoFar(new.tools, m, i, j + 1, l.at, Registries)
    <3>1. ToolsSoFar(l.tools, m, i, j, l.at, Registries)
      BY <1>1, <2>2 DEF LocalInv
    <3>2. ASSUME NEW o \in Names, o # n
          PROVE  /\ new.tools[o] = l.tools[o]
                 /\ \A k \in 1 .. j : LastFor(m.delegates, o, k, j) =>
                      k \in 1 .. j + 1 /\ LastFor(m.delegates, o, k, j + 1)
                 /\ (\A k \in 1 .. j : m.delegates[k].name # o) =>
                      \A k \in 1 .. j + 1 : m.delegates[k].name # o
      <4>1. m.delegates[j + 1].name = n /\ j \in Nat
        BY <1>1, <1>2
      <4> HIDE DEF n, d, j, i, m, l
      <4> QED BY <2>1, <3>2, <4>1 DEF LastFor
    <3>3. n \in Names /\ j + 1 \in 1 .. j + 1
      BY <1>2, <1>3
    <3> HIDE DEF n, j, i, m, l
    <3> SUFFICES ASSUME NEW o \in Names
                 PROVE  \/ \E k \in 1 .. j + 1 : /\ LastFor(m.delegates, o, k, j + 1)
                                             /\ IsDelegate(new.tools[o], m.delegates[k], l.at, Registries)
                        \/ /\ \A k \in 1 .. j + 1 : m.delegates[k].name # o
                           /\ \E k \in 1 .. i : m.tools[k] = o
                           /\ IsHostTool(new.tools[o], o, l.at, Registries)
                        \/ /\ \A k \in 1 .. j + 1 : m.delegates[k].name # o
                           /\ \A k \in 1 .. i : m.tools[k] # o
                           /\ new.tools[o] = Absent
      BY DEF ToolsSoFar
    <3>4. CASE o = n
      BY <3>3, <3>4, <2>3, <2>4
    <3>5. CASE o # n
      BY <3>1, <3>2, <3>5 DEF ToolsSoFar
    <3> QED BY <3>4, <3>5
  <2>6. LocalInv(new, Registries)
    <3>1. Grown(l.at, Registries) /\ ChainSoFar(l.chain, m, 0, l.at, Registries)
      BY <1>1, <2>2 DEF LocalInv
    <3>2. i <= Len(m.tools) /\ j + 1 <= Len(m.delegates) /\ 0 <= Len(m.chain)
      BY <1>1, <1>2, <1>3, ManifestTyped
    <3> HIDE DEF n, d, j, i, m, l
    <3> QED BY <2>1, <2>2, <2>5, <3>1, <3>2 DEF LocalInv
  <2> QED BY <1>5, <2>6, LocalsAtOne DEF new
<1>6. CASE executors[d.key] # Vacant /\ Own(a, n, "delegate", executors[d.key])
  <2>1. IsDelegate([kind |-> "delegate", version |-> executors[d.key]], d, l.at, Registries)
    <3>1. Between(l.at.executors[d.key], executors[d.key], executors[d.key])
      <4>1. executors[d.key] # Vacant
        BY <1>6
      <4> HIDE DEF d, l
      <4> QED BY <1>4, <4>1 DEF Between
    <3> HIDE DEF d
    <3> QED BY <1>4, <3>1 DEF IsDelegate
  <2>2. "delegate" \in Kinds /\ SetLocal(a, Owning(l, n, "delegate", executors[d.key]))
    BY <1>6 DEF Kinds, Own, Owning
  <2> QED BY <1>4, <1>5, <2>1, <2>2
<1>7. CASE executors[d.key] = Vacant /\ d.kind # "in_process" /\ Own(a, n, "stub", Vacant)
  <2>1. IsDelegate([kind |-> "stub", version |-> Vacant], d, l.at, Registries)
    <3>1. l.at.executors[d.key] = Vacant /\ d.kind # "in_process"
      <4>1. executors[d.key] = Vacant /\ d.kind # "in_process"
        BY <1>7
      <4> HIDE DEF d, l
      <4> QED BY <1>4, <4>1 DEF Vacant
    <3> HIDE DEF d, l
    <3> QED BY <3>1 DEF IsDelegate
  <2>2. "stub" \in Kinds /\ Vacant \in Nat /\ SetLocal(a, Owning(l, n, "stub", Vacant))
    BY <1>7 DEF Kinds, Own, Owning, Vacant
  <2> QED BY <1>5, <2>1, <2>2
<1>8. CASE Fail(a)
  BY <1>1, <1>8, LocalsAtFail
<1> QED BY <1>6, <1>7, <1>8 DEF WireDelegate

\* One more skill is behind the loop.
LEMMA LocalsAtSkill ==
  ASSUME AssemblyInv, NEW a \in Clients, ResolveSkill(a)
  PROVE  AssemblyInv'
<1> DEFINE l == Local(a)
           m == l.manifest
           s == m.chain[l.pos]
           i == l.pos - 1
           link == [skill |-> s, version |-> skills[s]]
           chain == Append(l.chain, link)
           new == [l EXCEPT !.pos = @ + 1, !.chain = Append(@, link)]
<1>1. /\ l.pc = "chain" /\ l.pos <= Len(m.chain) /\ LocalInv(l, Registries) /\ l \in Locals
  BY DEF ResolveSkill, InLoop, AssemblyInv, LocalInv, Local
<1>2. m \in Manifests /\ l.pos \in Nat \ {0} /\ l.at \in RegistryValues /\ l.chain \in Seq(Links)
  BY <1>1 DEF Locals
<1>3. s \in Skills /\ Len(m.chain) \in Nat /\ Len(m.tools) \in Nat /\ Len(m.delegates) \in Nat
  BY <1>1, <1>2, ManifestTyped
<1>4. CASE Fail(a)
  BY <1>1, <1>4, LocalsAtFail
<1>5. CASE skills[s] # Vacant /\ SetLocal(a, new)
  <2>1. Registries.skills = skills /\ skills[s] \in Nat
    BY <1>3, RegistriesAreValues DEF AssemblyInv, RegistriesTyped
  <2>2. Between(l.at.skills[s], skills[s], skills[s])
    <3>1. l.at.skills[s] <= Registries.skills[s]
      BY <1>1, <1>3 DEF LocalInv, Grown
    <3>2. skills[s] # Vacant
      BY <1>5
    <3> HIDE DEF l, s
    <3> QED BY <2>1, <3>1, <3>2 DEF Between
  <2>3. link \in Links
    BY <1>3, <2>1 DEF Links
  <2> HIDE DEF link
  <2>4. Len(l.chain) = i /\ ChainSoFar(l.chain, m, i, l.at, Registries)
    BY <1>1 DEF LocalInv, ChainSoFar, ChainDone
  <2>5. /\ chain \in Seq(Links) /\ Len(chain) = i + 1 /\ chain[i + 1] = link
        /\ \A k \in 1 .. i : chain[k] = l.chain[k]
    BY <1>2, <2>3, <2>4
  <2> HIDE DEF chain
  <2>6. ASSUME NEW k \in 1 .. i + 1
        PROVE  /\ chain[k].skill = m.chain[k]
               /\ Between(l.at.skills[m.chain[k]], chain[k].version, Registries.skills[m.chain[k]])
    <3>1. CASE k = i + 1
      <4>1. m.chain[k] = s /\ chain[k].skill = s /\ chain[k].version = skills[s]
        BY <3>1, <1>2, <2>5 DEF link
      <4> QED BY <4>1, <2>1, <2>2
    <3>2. CASE k # i + 1
      <4>1. k \in 1 .. i
        BY <3>2, <1>2
      <4> QED BY <4>1, <2>4, <2>5 DEF ChainSoFar
    <3> QED BY <3>1, <3>2
  <2>7. ChainSoFar(chain, m, i + 1, l.at, Registries)
    BY <2>5, <2>6 DEF ChainSoFar
  <2>8. /\ new \in Locals /\ new.pc = "chain" /\ new.pos = l.pos + 1 /\ new.manifest = m
        /\ new.tools = l.tools /\ new.at = l.at /\ new.chain = chain
    <3>1. new = [l EXCEPT !.pos = @ + 1, !.chain = chain]
      BY DEF chain
    <3>2. l.pos + 1 \in Nat \ {0}
      BY <1>2
    <3> QED BY <1>1, <2>5, <3>1, <3>2 DEF Locals
  <2> HIDE DEF new
  <2>9. /\ ToolsDone(new) = ToolsDone(l) /\ DelegatesDone(new) = DelegatesDone(l)
        /\ ChainDone(new) = i + 1 /\ i + 1 <= Len(m.chain)
    BY <1>1, <1>2, <2>8 DEF ToolsDone, DelegatesDone, ChainDone
  <2>10. LocalInv(new, Registries)
    BY <1>1, <2>7, <2>8, <2>9 DEF LocalInv
  <2> QED BY <1>5, <2>10, LocalsAtOne
<1> QED BY <1>4, <1>5 DEF ResolveSkill

LEMMA LocalsAtFirst == AssemblyInit => AssemblyInv
<1> SUFFICES ASSUME AssemblyInit PROVE AssemblyInv
  OBVIOUS
<1>1. RegistriesTyped
  BY CatalogsAtFirst DEF CatalogInv
<1>2. \A a \in Clients : assembly[a].pc = "idle"
  BY DEF AssemblyInit, Started
<1>3. assembly = [a \in Clients |-> assembly[a]]
  BY DEF AssemblyInit
<1> QED BY <1>1, <1>2, <1>3 DEF AssemblyInv

LEMMA LocalsKept == AssemblyInv /\ RegistriesTyped' /\ [AssemblyNext]_allVars => AssemblyInv'
<1> SUFFICES ASSUME AssemblyInv, RegistriesTyped', [AssemblyNext]_allVars PROVE AssemblyInv'
  OBVIOUS
<1>1. ASSUME UNCHANGED assembly, Grown(Registries, Registries') PROVE AssemblyInv'
  <2>1. Registries \in RegistryValues /\ Registries' \in RegistryValues
    BY RegistriesAreValues DEF AssemblyInv, RegistriesTyped, Registries, RegistryValues
  <2>2. ASSUME NEW a \in Clients, assembly'[a].pc # "idle" PROVE LocalInv(assembly'[a], Registries')
    <3>1. LocalInv(assembly[a], Registries)
      BY <1>1, <2>2 DEF AssemblyInv
    <3> QED BY <1>1, <2>1, <3>1, StillSoFar
  <2> QED BY <1>1, <2>2 DEF AssemblyInv
<1>2. ASSUME UNCHANGED <<inner, skills, executors>> PROVE Grown(Registries, Registries')
  BY <1>2 DEF Grown, Registries, AssemblyInv, RegistriesTyped, Maps
<1>3. CASE UNCHANGED allVars
  BY <1>1, <1>2, <1>3 DEF allVars, vars
<1>4. ASSUME NEW n \in Names, RegisterTool(n) PROVE AssemblyInv'
  <2>1. UNCHANGED assembly /\ \A o \in Names : inner[o] <= inner'[o]
    BY <1>4 DEF RegisterTool, Register, AssemblyInv, RegistriesTyped, Maps
  <2>2. Grown(Registries, Registries')
    BY <1>4, <2>1 DEF RegisterTool, Register, Grown, Registries, AssemblyInv, RegistriesTyped, Maps
  <2> QED BY <1>1, <2>1, <2>2
<1>5. ASSUME NEW s \in Skills, RegisterSkill(s) PROVE AssemblyInv'
  <2>1. UNCHANGED assembly /\ \A o \in Skills : skills[o] <= skills'[o]
    BY <1>5 DEF RegisterSkill, vars, AssemblyInv, RegistriesTyped, Maps
  <2>2. Grown(Registries, Registries')
    BY <1>5, <2>1 DEF RegisterSkill, vars, Grown, Registries, AssemblyInv, RegistriesTyped, Maps
  <2> QED BY <1>1, <2>1, <2>2
<1>6. ASSUME NEW e \in Executors, RegisterExecutor(e) PROVE AssemblyInv'
  <2>1. UNCHANGED assembly /\ \A o \in Executors : executors[o] <= executors'[o]
    BY <1>6 DEF RegisterExecutor, vars, AssemblyInv, RegistriesTyped, Maps
  <2>2. Grown(Registries, Registries')
    BY <1>6, <2>1 DEF RegisterExecutor, vars, Grown, Registries, AssemblyInv, RegistriesTyped, Maps
  <2> QED BY <1>1, <2>1, <2>2
<1>7. ASSUME NEW names \in Whitelists, DeriveView(names) PROVE AssemblyInv'
  BY <1>1, <1>2, <1>7 DEF DeriveView, Scoped
<1>8. ASSUME NEW c \in Clients, TakeCatalog(c) PROVE AssemblyInv'
  BY <1>1, <1>2, <1>8 DEF TakeCatalog, StartListing, ReadShard, FinishListing
<1>9. ASSUME NEW a \in Clients, AssemblyStep(a) PROVE AssemblyInv'
  BY <1>9, LocalsAtTool, LocalsAtDelegate, LocalsAtSkill, LocalsAtEndLoop, LocalsAtScope DEF AssemblyStep
<1> QED BY <1>3, <1>4, <1>5, <1>6, <1>7, <1>8, <1>9, LocalsAtStart DEF AssemblyNext

\* The last of a name among all delegates is the one DelegateFor chooses.
LEMMA LastIsChosen ==
  ASSUME NEW m \in Manifests, NEW n, NEW k, LastFor(m.delegates, n, k, Len(m.delegates))
  PROVE  DelegateFor(m, n) = m.delegates[k]
<1> DEFINE IsLast(o) == /\ m.delegates[o].name = n
                        /\ \A p \in DOMAIN m.delegates : m.delegates[p].name = n => p <= o
<1>1. DOMAIN m.delegates = 1 .. Len(m.delegates) /\ DOMAIN m.delegates \subseteq Nat
  BY ManifestTyped
<1>2. k \in DOMAIN m.delegates /\ IsLast(k)
  BY <1>1 DEF LastFor
<1>3. \A o \in DOMAIN m.delegates : IsLast(o) => o = k
  BY <1>1, <1>2
<1>4. k = CHOOSE o \in DOMAIN m.delegates : IsLast(o)
  BY <1>2, <1>3
<1> QED BY <1>4 DEF DelegateFor

LEMMA ToolsAreDeclared == AssemblyInv => ToolsDeclared
<1> SUFFICES ASSUME AssemblyInv, NEW a \in Clients, Built(a), NEW n \in Names
             PROVE  LET m == Local(a).manifest
                        delegates == {m.delegates[k].name : k \in DOMAIN m.delegates}
                        copied == {m.tools[k] : k \in DOMAIN m.tools} \ delegates
                        tool == Local(a).tools[n]
                    IN  /\ n \in copied => /\ tool.kind = "host"
                                           /\ Between(Local(a).at.tools[n], tool.version, inner[n])
                        /\ n \in delegates => IsDelegate(tool, DelegateFor(m, n), Local(a).at, Registries)
                        /\ n \notin copied \cup delegates => tool = Absent
  BY RegistriesAreValues DEF ToolsDeclared, AssemblyInv, IsDelegate
<1> DEFINE l == Local(a)
           m == l.manifest
           i == Len(m.tools)
           j == Len(m.delegates)
<1>1. LocalInv(l, Registries) /\ l.pc = "built" /\ m \in Manifests
  BY DEF AssemblyInv, Built, Local, LocalInv, Locals
<1>2. ToolsSoFar(l.tools, m, i, j, l.at, Registries)
  BY <1>1 DEF LocalInv, ToolsDone, DelegatesDone
<1>3. DOMAIN m.tools = 1 .. i /\ DOMAIN m.delegates = 1 .. j
  BY <1>1, ManifestTyped
<1> HIDE DEF l, m, i, j
<1>4. CASE \E k \in 1 .. j : LastFor(m.delegates, n, k, j) /\ IsDelegate(l.tools[n], m.delegates[k], l.at, Registries)
  <2>1. IsDelegate(l.tools[n], DelegateFor(m, n), l.at, Registries)
    BY <1>1, <1>4, LastIsChosen DEF j
  <2>2. \E k \in DOMAIN m.delegates : m.delegates[k].name = n
    BY <1>3, <1>4 DEF LastFor
  <2> QED BY <2>1, <2>2 DEF l, m
<1>5. CASE /\ \A k \in 1 .. j : m.delegates[k].name # n
           /\ \E k \in 1 .. i : m.tools[k] = n
           /\ IsHostTool(l.tools[n], n, l.at, Registries)
  BY <1>3, <1>5, RegistriesAreValues DEF IsHostTool, AssemblyInv, l, m
<1>6. CASE /\ \A k \in 1 .. j : m.delegates[k].name # n
           /\ \A k \in 1 .. i : m.tools[k] # n
           /\ l.tools[n] = Absent
  BY <1>3, <1>6 DEF l, m
<1> QED BY <1>2, <1>4, <1>5, <1>6 DEF ToolsSoFar

LEMMA ChainIsDeclared == AssemblyInv => ChainDeclared
<1> SUFFICES ASSUME AssemblyInv, NEW a \in Clients, Built(a)
             PROVE  LET declared == Local(a).manifest.chain
                        chain == Local(a).chain
                    IN  /\ Len(chain) = Len(declared)
                        /\ \A k \in DOMAIN chain :
                             /\ chain[k].skill = declared[k]
                             /\ Between(Local(a).at.skills[declared[k]], chain[k].version, skills[declared[k]])
  BY DEF ChainDeclared
<1> DEFINE l == Local(a)
<1>1. LocalInv(l, Registries) /\ l.pc = "built" /\ l.chain \in Seq(Links)
  BY DEF AssemblyInv, Built, Local, LocalInv, Locals
<1>2. ChainSoFar(l.chain, l.manifest, Len(l.manifest.chain), l.at, Registries)
  BY <1>1 DEF LocalInv, ChainDone
<1>3. DOMAIN l.chain = 1 .. Len(l.chain)
  BY <1>1
<1> QED BY <1>2, <1>3, RegistriesAreValues DEF ChainSoFar, AssemblyInv

\* Whatever is registered and replaced while a manifest is materialised and the
\* agent built, the agent that comes out has what its manifest declares: under
\* each name the last delegate of that name, or else the host's tool, or nothing;
\* its skills in order; each entry one that was registered meanwhile.
THEOREM AgentsAsDeclared == AssemblySpec => []AgentAsDeclared
<1>1. CatalogInv => RegistriesTyped
  BY DEF CatalogInv
<1>2. AssemblyInv => AgentAsDeclared
  BY ToolsAreDeclared, ChainIsDeclared DEF AgentAsDeclared
<1> QED BY <1>1, <1>2, CatalogsAtFirst, CatalogsKept, LocalsAtFirst, LocalsKept, PTL DEF AssemblySpec
=============================================================================
