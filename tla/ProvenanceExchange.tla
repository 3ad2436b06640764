------------------------- MODULE ProvenanceExchange -------------------------
(***************************************************************************)
(* The provenance bridges of two peers (federation/src/provenance-bridge)  *)
(* over their data channels, and CrossRuntimeCausalWalker over what they   *)
(* have recorded.  An id is <<base, hops>>: a base the peer that recorded  *)
(* it made up, behind hops prefixes "remote:".                             *)
(*                                                                         *)
(* The graphs (GraphSync) share the channels and their buffer with the     *)
(* bridges.  The sync interval fires at any time, and the directory of a   *)
(* peer lists any number of peers as online: what starts and stops them is *)
(* not modelled.  A bridge makes a copy of what it exports for each of     *)
(* them, and hands them all to the one manager of channels it has.  Nobody *)
(* looks at whom an envelope is for: all that arrive, arrive at the other  *)
(* end of the connection.                                                  *)
(***************************************************************************)
EXTENDS GraphSync, ProvenanceGraph, FiniteSets

CONSTANTS MaxOnline,    \* how many peers a directory lists as online, at most
          MaxRecords    \* bound of the model

ASSUME PurposeAssumption == {"provenance", "sync"} \subseteq Purpose
ASSUME RecordsAssumption == MaxRecords \in Nat
ASSUME OnlineAssumption  == MaxOnline \in Nat

\* exported and arrived are the model's: the copies a peer has made, and those of
\* them the other end has imported.
VARIABLES graph, anchors, pending,  \* localGraph, state.anchors, state.pendingExports
          exported, arrived

bridgeVars   == <<graph, anchors, pending, exported, arrived>>
exchangeVars == <<channelVars, syncVars, bridgeVars>>

Bases    == {id[1] : id \in UNION {DOMAIN graph[p].nodes : p \in Peer}}

ExchangeInit ==
  /\ SyncInit
  /\ graph   = [p \in Peer |-> EmptyGraph]
  /\ anchors = [p \in Peer |-> {}]
  /\ pending = [p \in Peer |-> <<>>]
  /\ exported = [p \in Peer |-> {}]
  /\ arrived  = [p \in Peer |-> {}]

Node(intent, actor, runtime, parents) ==
  [entity |-> "entity", intent |-> intent, actor |-> actor, authorization |-> "delegated",
   runtime |-> runtime, parents |-> parents]

\* recordLocal: its causes are nodes the peer knows.
RecordLocal(p, parents) ==
  LET base == Cardinality(Bases) + 1
  IN /\ base <= MaxRecords
     /\ parents \subseteq DOMAIN graph[p].nodes
     /\ graph' = [graph EXCEPT ![p] = RecordProvenance(@, <<base, 0>>, Node(base, p, p, parents))]
     /\ pending' = [pending EXCEPT ![p] = Append(@, <<base, 0>>)]
     /\ UNCHANGED <<channelVars, syncVars, anchors, exported, arrived>>

\* What is pending, in the envelope for the k-th peer.
EnvelopeFor(p, k) ==
  [purpose |-> "provenance", copies |-> ToSet(pending[p]) \X {k},
   nodes |-> [n \in DOMAIN pending[p] |->
                [id |-> pending[p][n], node |-> graph[p].nodes[pending[p][n]]]]]

\* syncPendingProvenance: to each peer that is online, to nobody (copy 0) if none
\* is, and pending no more.
SyncPendingProvenance(p) ==
  /\ pending[p] # <<>>
  /\ \/ /\ GiveUp(p, ToSet(pending[p]) \X {0})
        /\ exported' = [exported EXCEPT ![p] = @ \cup (ToSet(pending[p]) \X {0})]
        /\ UNCHANGED <<channels, buffer, wire>>
     \/ \E online \in 1..MaxOnline :
          /\ SendAll(p, "provenance", [k \in 1..online |-> EnvelopeFor(p, k)])
          /\ exported' = [exported EXCEPT ![p] = @ \cup (ToSet(pending[p]) \X (1..online))]
  /\ pending' = [pending EXCEPT ![p] = <<>>]
  /\ UNCHANGED <<syncVars, graph, anchors, arrived>>

Remote(id) == <<id[1], id[2] + 1>>

\* Mutant: the parents keep the ids the sender knows them by.
ImportWithParents(g, sender, item) ==
  RecordProvenance(g, Remote(item.id),
                   Node(item.node.intent, item.node.actor, sender, item.node.parents))

\* A remote node under its own id, its parents under theirs.
Import(g, sender, item) ==
  RecordProvenance(g, Remote(item.id),
                   Node(item.node.intent, item.node.actor, sender, {Remote(q) : q \in item.node.parents}))

ImportAll(g, sender, items) ==
  LET after[n \in 0..Len(items)] == IF n = 0 THEN g ELSE Import(after[n - 1], sender, items[n])
  IN after[Len(items)]

\* handleRemoteProvenance at the other peer.
HandleRemoteProvenance(p) ==
  LET receiver == Other(p)
      e == Head(wire[p]["provenance"])
  IN /\ Receive(p, "provenance")
     /\ graph' = [graph EXCEPT ![receiver] = ImportAll(@, p, e.nodes)]
     /\ anchors' = [anchors EXCEPT ![receiver] = @ \cup {[local |-> Remote(x.id), remote |-> x.id] : x \in ToSet(e.nodes)}]
     /\ arrived' = [arrived EXCEPT ![p] = @ \cup e.copies]
     /\ UNCHANGED <<syncVars, pending, exported>>

BridgeStep(p) ==
  \/ \E parents \in {{}} \cup {{id} : id \in DOMAIN graph[p].nodes} : RecordLocal(p, parents)
  \/ SyncPendingProvenance(p) \/ HandleRemoteProvenance(p)

GraphStep(p) == SyncStep(p) /\ UNCHANGED bridgeVars

ChannelStep(p) ==
  /\ \/ \E u \in Purpose : RegisterChannel(p, u) \/ UnregisterChannel(p, u) \/ Lose(p, u)
     \/ CloseAll(p)
  /\ UNCHANGED <<syncVars, bridgeVars>>

ExchangeNext == \E p \in Peer : BridgeStep(p) \/ GraphStep(p) \/ ChannelStep(p)

ExchangeSpec == ExchangeInit /\ [][ExchangeNext]_exchangeVars

-----------------------------------------------------------------------------
(* CrossRuntimeCausalWalker                                                *)

\* findNode: the id itself, or what it is behind one prefix.
FindNode(g, id) ==
  IF id \in DOMAIN g.nodes THEN {g.nodes[id]}
  ELSE IF id[2] > 0 /\ <<id[1], id[2] - 1>> \in DOMAIN g.nodes THEN {g.nodes[<<id[1], id[2] - 1>>]}
  ELSE {}

\* The causes of an id, and what its anchor leads to.
Causes(g, links, id) ==
  IF FindNode(g, id) = {} THEN {}
  ELSE (UNION {node.parents : node \in FindNode(g, id)})
         \cup {Remote(l.remote) : l \in {l \in links : l.local = id \/ l.remote = id}}

\* walk: the ids reached in at most depth steps at which a node is found.
Walk(g, links, id, depth) ==
  LET reach[d \in 0..depth] ==
        IF d = 0 THEN {id}
        ELSE reach[d - 1] \cup UNION {Causes(g, links, x) : x \in reach[d - 1]}
  IN {x \in reach[depth] : FindNode(g, x) # {}}

-----------------------------------------------------------------------------

Recorded(p) == {id \in DOMAIN graph[p].nodes : id[2] = 0}

IdsOf(copies) == {c[1] : c \in copies}

\* The places a copy made at p can be in.
Fates(p, c) ==
  {f \in {"on the way", "arrived", "lost"} :
     \/ f = "on the way" /\ c \in OnTheWay(p)
     \/ f = "arrived"    /\ c \in arrived[p]
     \/ f = "lost"       /\ c \in lost[p]}

(***************************************************************************)
(* A node recorded at a peer is waiting to be exported or was, once.  Of   *)
(* what was exported every copy is on its way, has arrived, or is lost for *)
(* a cause this model names: nobody was online, the buffer was full, the   *)
(* channels were closed, the network gave up.  No copy is in two of these  *)
(* places and none in no place: the buffer copies share with other traffic *)
(* forgets nothing.  And the other end knows a node if and only if a copy  *)
(* of it has arrived.  It may know it twice over: with several peers       *)
(* online, several copies go out on one channel.                           *)
(***************************************************************************)
ExactlyOneFate ==
  \A p \in Peer :
    /\ \A id \in Recorded(p) : id \in ToSet(pending[p]) <=> id \notin IdsOf(exported[p])
    /\ \A c \in exported[p] : \E f \in Fates(p, c) : Fates(p, c) = {f}
    /\ \A id \in Recorded(p) :
         Remote(id) \in DOMAIN graph[Other(p)].nodes <=> id \in IdsOf(arrived[p])

Own(p, id) == {x \in Walk(graph[p], anchors[p], id, MaxRecords) : x[2] = 0}

(***************************************************************************)
(* The walk finds at the receiver the causes the sender's walk finds among *)
(* its own nodes, when the receiver has them.  Only a cause that came from *)
(* the receiver is out of reach: it comes back behind two prefixes.        *)
(***************************************************************************)
ChainsAgree ==
  \A p \in Peer : \A id \in Recorded(p) :
    LET copies == {Remote(x) : x \in Own(p, id)}
    IN copies \subseteq DOMAIN graph[Other(p)].nodes
       => copies \subseteq Walk(graph[Other(p)], anchors[Other(p)], Remote(id), MaxRecords)

=============================================================================
