--------------------------- MODULE RegistryClient ---------------------------
(***************************************************************************)
(* A program that uses the registry over HTTP (packages/registry-client):  *)
(* RegistryClient's requests, the LocalCapabilityCache, and the            *)
(* SyncProtocol whose timer fills it.  A request occupies a slot from the  *)
(* call to its settling: the server handles it, and the reply arrives, or  *)
(* the request fails or times out before or after the server has handled   *)
(* it.  Nothing cancels a request and syncs may overlap, so replies arrive *)
(* in any order, also after stop().                                        *)
(*                                                                         *)
(* byIntent counts how often an id is in the list of an intent type: every *)
(* sync pushes it again, so Many stands for that many or more.             *)
(***************************************************************************)
EXTENDS RegistryServer

CONSTANTS Slots,
          SyncLimit,      \* the limit of a sync's search, 200 in the code
          Many,           \* bound of the model: where byIntent stops counting
          MaxChanges      \* bound of the model: publishes, unpublishes, deletes and clears

ASSUME ClientAssumption == SyncLimit \in Nat /\ Many \in Nat \ {0}

VARIABLES requests, cached, byIntent, running, changes

clientVars == <<requests, cached, byIntent, running, changes>>
registryVars == <<serverVars, clientVars>>

Free      == [op |-> "none"]
SyncQuery == [status |-> None, category |-> None, tags |-> {}, intent |-> None,
              minTrust |-> 0, offset |-> 0, limit |-> SyncLimit]

ClientInit ==
  /\ requests = [s \in Slots |-> Free]
  /\ cached = {}
  /\ byIntent = [e \in Intents \X Ids |-> 0]
  /\ running = FALSE
  /\ changes = 0

Change == changes < MaxChanges /\ changes' = changes + 1

Send(s, request) == requests[s] = Free /\ requests' = [requests EXCEPT ![s] = request]

\* syncOnce until its await: cache.sync and cache.syncDelta ask the same.
SyncOnce(s) == Send(s, [op |-> "search", stage |-> "sent"])

StartSync(s) ==
  /\ ~running /\ running' = TRUE
  /\ SyncOnce(s)
  /\ UNCHANGED <<serverVars, cached, byIntent, changes>>

SyncTimer(s) ==
  /\ running
  /\ SyncOnce(s)
  /\ UNCHANGED <<serverVars, cached, byIntent, running, changes>>

StopSync ==
  /\ running /\ running' = FALSE
  /\ UNCHANGED <<serverVars, requests, cached, byIntent, changes>>

\* client.publish and client.unpublish
SendPublish(s) ==
  /\ \E c \in Capabilities, category \in Categories, p \in Publishers,
        tags \in {{t} : t \in Tags} \cup {None}, signature \in Signatures :
       Send(s, [op |-> "publish", stage |-> "sent", capability |-> c, category |-> category,
                publisher |-> p, tags |-> tags, signature |-> signature])
  /\ Change
  /\ UNCHANGED <<serverVars, cached, byIntent, running>>

SendUnpublish(s) ==
  /\ \E id \in Ids : Send(s, [op |-> "unpublish", stage |-> "sent", id |-> id])
  /\ Change
  /\ UNCHANGED <<serverVars, cached, byIntent, running>>

\* The server handles a search; only the reply matters.
AnswerSearch(s) ==
  /\ requests[s].op = "search" /\ requests[s].stage = "sent" /\ listening
  /\ requests' = [requests EXCEPT ![s] = [op |-> "search", stage |-> "answered", items |-> Search(SyncQuery)]]
  /\ UNCHANGED <<serverVars, cached, byIntent, running, changes>>

\* It handles a write, or refuses it; the reply says so and changes nothing.
HandleWrite(s) ==
  LET r == requests[s]
  IN /\ r.op \in {"publish", "unpublish"} /\ listening
     /\ \/ r.op = "publish" /\ HandlePublish(r.capability, r.category, r.publisher, r.tags, r.signature)
        \/ r.op = "publish" /\ ~Accepts(r.capability, r.publisher, r.signature) /\ UNCHANGED serverVars
        \/ r.op = "unpublish" /\ HandleUnpublish(r.id)
        \/ r.op = "unpublish" /\ ~Listed(r.id) /\ UNCHANGED serverVars
     /\ requests' = [requests EXCEPT ![s] = Free]
     /\ UNCHANGED <<cached, byIntent, running, changes>>

\* A request fails or times out: syncOnce hands the error to onError.  A write
\* that fails is still with the server, which may handle it yet (HandleWrite).
FailSearch(s) ==
  /\ requests[s].op = "search"
  /\ requests' = [requests EXCEPT ![s] = Free]
  /\ UNCHANGED <<serverVars, cached, byIntent, running, changes>>

LoseWrite(s) ==
  /\ requests[s].op \in {"publish", "unpublish"}
  /\ requests' = [requests EXCEPT ![s] = Free]
  /\ UNCHANGED <<serverVars, cached, byIntent, running, changes>>

\* registerCapability, for every item: the id is pushed once more.
Pushes(e, items) == \E l \in items : l.capability.id = e[2] /\ e[1] \in l.capability.intents

\* remove: the first occurrence leaves every list that has one.
Splice(n) == IF n = 0 THEN {0} ELSE IF n = Many THEN {Many - 1, Many} ELSE {n - 1}

\* Mutant: an id that is cached already is not registered again.
RegisterNew(items, gone) ==
  byIntent' \in {f \in [DOMAIN byIntent -> 0..Many] : \A e \in DOMAIN byIntent :
    f[e] \in IF e[2] \in gone THEN Splice(byIntent[e])
             ELSE {Min({Many, byIntent[e] +
                      IF Pushes(e, {l \in items : l.capability.id \notin {x.capability.id : x \in cached}}) THEN 1 ELSE 0})}}

Register(items, gone) ==
  byIntent' \in {f \in [DOMAIN byIntent -> 0..Many] : \A e \in DOMAIN byIntent :
    f[e] \in IF e[2] \in gone THEN Splice(byIntent[e])
             ELSE {Min({Many, byIntent[e] + IF Pushes(e, items) THEN 1 ELSE 0})}}

\* Mutant: listings that are not among the items stay.
KeepOld(items) ==
  /\ cached' = items \cup {l \in cached : l.capability.id \notin {x.capability.id : x \in items}}
  /\ Register(items, {})

\* applySyncResult: the items are set, what is not among them removed.
ApplySyncResult(items) ==
  /\ cached' = items
  /\ Register(items, {l.capability.id : l \in cached} \ {l.capability.id : l \in items})

DeliverSearch(s) ==
  /\ requests[s].op = "search" /\ requests[s].stage = "answered"
  /\ requests' = [requests EXCEPT ![s] = Free]
  /\ ApplySyncResult(ToSet(requests[s].items))
  /\ UNCHANGED <<serverVars, running, changes>>

ClearCache ==
  /\ Change
  /\ cached' = {} /\ byIntent' = [e \in DOMAIN byIntent |-> 0]
  /\ UNCHANGED <<serverVars, requests, running>>

CatalogueNext ==
  \/ \E s \in Slots : \/ StartSync(s) \/ SyncTimer(s) \/ AnswerSearch(s) \/ FailSearch(s) \/ DeliverSearch(s)
                      \/ SendPublish(s) \/ SendUnpublish(s) \/ HandleWrite(s) \/ LoseWrite(s)
  \/ StopSync
  \/ ClearCache
  \/ (\E id \in Ids : DeleteListing(id)) /\ Change /\ UNCHANGED <<requests, cached, byIntent, running>>
  \/ (Start \/ Stop) /\ UNCHANGED clientVars

\* What a client does, or the server's other routes, which it does not notice.
ClientNext ==
  \/ CatalogueNext
  \/ (ReputationStep \/ BillingStep) /\ UNCHANGED clientVars

ClientSpec == ServerInit /\ ClientInit /\ [][ClientNext]_registryVars

(***************************************************************************)
(* The timer fires, the server answers, and of the requests in a slot not  *)
(* all fail: one that is answered and delivered again and again able to be *)
(* is so at last.  Nothing makes a write happen, or a failure.             *)
(***************************************************************************)
SyncFairness ==
  \A s \in Slots :
    /\ WF_registryVars(SyncTimer(s))
    /\ SF_registryVars(AnswerSearch(s))
    /\ SF_registryVars(DeliverSearch(s))
    /\ WF_registryVars(HandleWrite(s))

(***************************************************************************)
(* A capability that is cached is found by every intent type it handles.   *)
(***************************************************************************)
FindCoversCache ==
  \A l \in cached : \A i \in l.capability.intents : byIntent[<<i, l.capability.id>>] > 0

(***************************************************************************)
(* What is looked up is found, and once: the indexes of the store and of   *)
(* the cache lead to all they hold, though a republish and every sync push *)
(* an id again and a removal takes one occurrence; and no id is listed or  *)
(* cached twice.                                                           *)
(***************************************************************************)
LookupsFind ==
  /\ IndexesCover /\ FindCoversCache
  /\ \A n \in DOMAIN listings : Places(listings[n].capability.id) = {n}
  /\ \A l, m \in cached : l.capability.id = m.capability.id => l = m

(***************************************************************************)
(* Once the registry is left alone, listening and synced with, the cache   *)
(* comes to hold the page a sync asks for and stays so, whatever replies   *)
(* were lost, late or overtaken.                                           *)
(***************************************************************************)
CacheConverges ==
  <>[](running /\ listening) => <>[](cached = ToSet(Search(SyncQuery)))

=============================================================================
