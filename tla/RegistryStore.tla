--------------------------- MODULE RegistryStore ---------------------------
(***************************************************************************)
(* RegistryStore (registry/src/registry-store.ts): the listings, the       *)
(* publishers and the three indexes, with the search the server answers    *)
(* from.  listings keeps the order of the Map it stands for: a             *)
(* republished id keeps its place, a deleted one loses it.                 *)
(*                                                                         *)
(* The indexes are lists of ids by category, tag and intent type; nothing  *)
(* reads their order, so index counts how often an id is in each.          *)
(* Timestamps and the verification record (always "unverified", nothing    *)
(* sets another) are left out.                                             *)
(***************************************************************************)
EXTENDS Integers, FiniteSets, SequencesExt, Lists

CONSTANTS Capabilities,    \* [id, intents, trust, wellFormed] records
          Categories, Tags,
          Publishers,      \* [id, wellFormed] records
          None             \* undefined

ASSUME CapabilityAssumption == \A c \in Capabilities : c.trust \in Nat

VARIABLES listings, publishers, index

storeVars == <<listings, publishers, index>>

Ids       == {c.id : c \in Capabilities}
Intents   == UNION {c.intents : c \in Capabilities}
IndexKeys == Categories \cup Tags \cup Intents

\* addToCategoryIndex, addToTagIndex and addToIntentIndex: the lists of a listing.
Keys(l) == {l.category} \cup l.tags \cup l.capability.intents

StoreInit ==
  /\ listings = <<>>
  /\ publishers = {}
  /\ index = [e \in IndexKeys \X Ids |-> 0]

Places(id) == {n \in DOMAIN listings : listings[n].capability.id = id}
Listed(id) == Places(id) # {}
Place(id)  == CHOOSE n \in Places(id) : TRUE

\* Mutant: every publish adds a listing.
AppendListing(l) == Append(listings, l)

\* listings.set(id, l) of a Map.
WithListing(l) ==
  IF Listed(l.capability.id)
    THEN [listings EXCEPT ![Place(l.capability.id)] = l]
    ELSE Append(listings, l)

NewListing(c, category, p, tags) ==
  [capability |-> c, category |-> category, publisher |-> p, status |-> "active",
   tags |-> IF tags # None THEN tags
            ELSE IF Listed(c.id) THEN listings[Place(c.id)].tags ELSE {}]

\* Mutant: an id that is listed already is not entered in the indexes again.
PublishOnceIndexed(c, category, p, tags) ==
  LET l == NewListing(c, category, p, tags)
  IN /\ listings' = WithListing(l)
     /\ publishers' = publishers \cup {p}
     /\ index' = [e \in DOMAIN index |->
                    IF e[2] = c.id /\ e[1] \in Keys(l) /\ ~Listed(c.id) THEN index[e] + 1 ELSE index[e]]

\* publish: a listing that exists keeps its tags unless new ones are given,
\* becomes active again, and is pushed to its index lists once more.
StorePublish(c, category, p, tags) ==
  LET l == NewListing(c, category, p, tags)
  IN /\ listings' = WithListing(l)
     /\ publishers' = publishers \cup {p}
     /\ index' = [e \in DOMAIN index |->
                    IF e[2] = c.id /\ e[1] \in Keys(l) THEN index[e] + 1 ELSE index[e]]

StoreUnpublish(id) ==
  /\ Listed(id)
  /\ listings' = [listings EXCEPT ![Place(id)].status = "removed"]
  /\ UNCHANGED <<publishers, index>>

\* delete: removeFromIndexes takes one occurrence out of each current list.
StoreDelete(id) ==
  /\ Listed(id)
  /\ listings' = RemoveAt(listings, Place(id))
  /\ index' = [e \in DOMAIN index |->
                 IF e[2] = id /\ e[1] \in Keys(listings[Place(id)]) /\ index[e] > 0
                   THEN index[e] - 1 ELSE index[e]]
  /\ UNCHANGED publishers

Matches(l, q) ==
  /\ l.status = IF q.status = None THEN "active" ELSE q.status
  /\ q.category \in {None, l.category}
  /\ q.tags = {} \/ q.tags \cap l.tags # {}
  /\ q.intent = None \/ q.intent \in l.capability.intents
  /\ l.capability.trust >= q.minTrust

\* A stable sort by trust, highest first: the place of s[i].
Rank(s, i) ==
  Cardinality({j \in DOMAIN s : \/ s[j].capability.trust > s[i].capability.trust
                                \/ s[j].capability.trust = s[i].capability.trust /\ j <= i})

ByTrust(s) == [k \in DOMAIN s |-> s[CHOOSE i \in DOMAIN s : Rank(s, i) = k]]

\* search: the page of q; the text filter is a filter like the others and left out.
Search(q) ==
  LET hits == ByTrust(Only(listings, {l \in ToSet(listings) : Matches(l, q)}))
  IN SubSeq(hits, q.offset + 1, Min({q.offset + q.limit, Len(hits)}))

(***************************************************************************)
(* Whatever was republished or deleted, the lists of a listing's category, *)
(* tags and intent types hold its id.                                      *)
(***************************************************************************)
IndexesCover ==
  \A n \in DOMAIN listings :
    \A k \in Keys(listings[n]) : index[<<k, listings[n].capability.id>>] > 0

=============================================================================
