--------------------------- MODULE ProvenanceGraph ---------------------------
(***************************************************************************)
(* The provenance graph of packages/protocol as a value: the nodes by      *)
(* their provenance id and the three indexes recordProvenance keeps beside *)
(* them.  A node is reduced to what the store and its callers read: the    *)
(* intent, the actor's key ("agent:<id>" in the code), the entity and the  *)
(* authorization.  Hashes, diffs, rationales, times and causalParents are  *)
(* left out.  A relation change would index more entities, but computeDiff *)
(* reports a relation list, never a string, so that branch is not reached. *)
(***************************************************************************)
EXTENDS Naturals, Sequences, SequencesExt

Authorizations == {"pending", "delegated", "approved", "rejected"}
Decisions      == {"approved", "rejected"}

EmptyGraph == [nodes |-> <<>>, byEntity |-> <<>>, byIntent |-> <<>>, byActor |-> <<>>]

\* map.set(key, value)
Put(map, key, value) ==
  [k \in DOMAIN map \cup {key} |-> IF k = key THEN value ELSE map[k]]

\* Mutant: the list of the key is made anew for every node.
PushToNew(index, key, id) == Put(index, key, <<id>>)

\* The list of the key is made on its first use, and id appended.
PushTo(index, key, id) ==
  Put(index, key, Append(IF key \in DOMAIN index THEN index[key] ELSE <<>>, id))

RecordProvenance(g, id, node) ==
  [nodes    |-> Put(g.nodes, id, node),
   byEntity |-> PushTo(g.byEntity, node.entity, id),
   byIntent |-> Put(g.byIntent, node.intent, id),
   byActor  |-> PushTo(g.byActor, node.actor, id)]

\* Mutant: decisions are taken on any node, decided ones included.
IsPendingOrDecided(g, id) == id \in DOMAIN g.nodes /\ g.nodes[id].authorization # "delegated"

\* approve() and reject() return null for any other id and change nothing.
IsPending(g, id) == id \in DOMAIN g.nodes /\ g.nodes[id].authorization = "pending"

Decide(g, id, decision) ==
  [nodes    |-> Put(g.nodes, id, [g.nodes[id] EXCEPT !.authorization = decision]),
   byEntity |-> g.byEntity,
   byIntent |-> g.byIntent,
   byActor  |-> g.byActor]

NodesWith(g, field, value) == {id \in DOMAIN g.nodes : g.nodes[id][field] = value}

\* The list is a listing of the ids, each once.
Lists(list, ids) == IsInjective(list) /\ ToSet(list) = ids

\* The indexes list the nodes of their key, each once.
IndexesListTheNodes(g) ==
  /\ \A e \in DOMAIN g.byEntity : Lists(g.byEntity[e], NodesWith(g, "entity", e))
  /\ \A a \in DOMAIN g.byActor  : Lists(g.byActor[a], NodesWith(g, "actor", a))
  /\ \A id \in DOMAIN g.nodes :
       /\ g.nodes[id].entity \in DOMAIN g.byEntity
       /\ g.nodes[id].actor  \in DOMAIN g.byActor
       /\ g.nodes[id].intent \in DOMAIN g.byIntent
  /\ \A i \in DOMAIN g.byIntent : g.byIntent[i] \in NodesWith(g, "intent", i)

Precedes(list, x, y) == \E m, n \in DOMAIN list : m < n /\ list[m] = x /\ list[n] = y

\* Of two nodes of an entity the later one is later for their actor too, and
\* the earlier one is not what byIntent names for an intent both have.
SameOrder(g) ==
  \A e \in DOMAIN g.byEntity : \A x, y \in DOMAIN g.nodes :
    Precedes(g.byEntity[e], x, y) =>
      /\ g.nodes[x].actor = g.nodes[y].actor => Precedes(g.byActor[g.nodes[y].actor], x, y)
      /\ g.nodes[x].intent = g.nodes[y].intent => g.byIntent[g.nodes[y].intent] # x

\* The indexes name the nodes of their key, in one order.
IndexesAgreeIn(g) == IndexesListTheNodes(g) /\ SameOrder(g)

\* Everything in g is in h, and what was decided in g is decided so in h.
KeptIn(g, h) ==
  \A id \in DOMAIN g.nodes :
    /\ id \in DOMAIN h.nodes
    /\ \/ h.nodes[id] = g.nodes[id]
       \/ /\ g.nodes[id].authorization = "pending"
          /\ \E d \in Decisions : h.nodes[id] = [g.nodes[id] EXCEPT !.authorization = d]

=============================================================================
