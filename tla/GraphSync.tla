----------------------------- MODULE GraphSync -----------------------------
(***************************************************************************)
(* FederatedGraph and SyncProtocol (federation/src/graph) of two peers     *)
(* over their data channels: a Yjs document per peer, and a session per    *)
(* peer it has begun to sync with or has heard from.                       *)
(*                                                                         *)
(* A full snapshot is sent as the decimal digits of its bytes and decoded  *)
(* as if each character were a byte: Y.applyUpdate throws on what comes    *)
(* out, so that the handler ends there and neither document nor session    *)
(* changes.  The patches of a local change are not looked at.  What the    *)
(* envelopes hold is left out, as nothing reads it.                        *)
(***************************************************************************)
EXTENDS DataChannels, FiniteSets

CONSTANTS Entity, Value,
          MaxVersion     \* bound of the model

\* The two ends of the connection the channels lead to: a manager has one channel
\* for a purpose, whatever peers its directory lists.  A graph holds what it was
\* given so far.
ASSUME PeerAssumption   == \E p \in Peer : \E q \in Peer : q # p /\ Peer = {p, q}
ASSUME EntityAssumption == IsFiniteSet(Entity)

VARIABLES doc,           \* nodesMap, by id, and the version of metaMap
          sessions       \* the phase of the session with the other peer

syncVars == <<doc, sessions>>

Other(p) == CHOOSE q \in Peer : q # p

SyncInit ==
  /\ ChannelsInit
  /\ doc = [p \in Peer |-> [nodes |-> <<>>, version |-> 0]]
  /\ sessions = [p \in Peer |-> "none"]

SyncEnvelope(op) == [purpose |-> "sync", op |-> op, copies |-> {}, nodes |-> <<>>]

InitiateSync(p) ==
  /\ sessions' = [sessions EXCEPT ![p] = "awaiting_state_vector"]
  /\ SendAll(p, "sync", <<SyncEnvelope("fullSnapshot")>>)
  /\ UNCHANGED doc

RemoveSession(p) ==
  /\ sessions' = [sessions EXCEPT ![p] = "none"]
  /\ UNCHANGED <<doc, channelVars>>

\* A transaction on the document notifies its observers once for each key of
\* nodesMap that comes or goes and once for metaMap: broadcastLocalChanges runs
\* each time, with all there is in the graph against an empty base.
Transact(p, nodes, version) ==
  LET keys  == (DOMAIN nodes \ DOMAIN doc[p].nodes) \cup (DOMAIN doc[p].nodes \ DOMAIN nodes)
  IN /\ version <= MaxVersion
     /\ doc' = [doc EXCEPT ![p] = [nodes |-> nodes, version |-> version]]
     /\ IF sessions[p] = "none" THEN UNCHANGED channelVars
        ELSE SendAll(p, "sync", [n \in 1..Cardinality(keys) + 1 |-> SyncEnvelope("patches")])
     /\ UNCHANGED sessions

SetNodes(p, new) ==
  [e \in DOMAIN new \cup DOMAIN doc[p].nodes |-> IF e \in DOMAIN new THEN new[e] ELSE doc[p].nodes[e]]

AddEntity(p, e, v) == Transact(p, SetNodes(p, [x \in {e} |-> v]), doc[p].version + 1)

\* The version moves even if there is no such entity.
RemoveEntity(p, e) ==
  Transact(p, [x \in DOMAIN doc[p].nodes \ {e} |-> doc[p].nodes[x]], doc[p].version + 1)

UpdateEntity(p, e, v) ==
  /\ e \in DOMAIN doc[p].nodes
  /\ Transact(p, SetNodes(p, [x \in {e} |-> v]), doc[p].version + 1)

\* importGraph sets its nodes and version and leaves other nodes where they are.
ImportGraph(p, nodes, version) == Transact(p, SetNodes(p, nodes), version)

HandleSyncMessage(p) ==
  /\ Receive(p, "sync")
  /\ sessions' = [sessions EXCEPT ![Other(p)] = IF @ = "none" THEN "idle" ELSE @]
  /\ UNCHANGED doc

SyncStep(p) ==
  \/ InitiateSync(p) \/ RemoveSession(p) \/ HandleSyncMessage(p)
  \/ \E e \in Entity, v \in Value : AddEntity(p, e, v) \/ UpdateEntity(p, e, v)
  \/ \E e \in Entity : RemoveEntity(p, e)
  \/ \E v \in Value, version \in 0..MaxVersion : ImportGraph(p, [e \in Entity |-> v], version)

=============================================================================
