--------------------------- MODULE SemanticGraph ---------------------------
(***************************************************************************)
(* The semantic graph of packages/protocol (src/graph/index.ts): entities  *)
(* with their adjacency, the edges, and the indexes by role and source.    *)
(* Then what the federation computes from two of them or from one: the     *)
(* diff and its application (federation/src/snapshot), the trimmed graph   *)
(* of a cold snapshot (federation/src/graph/snapshot-engine.ts), and who   *)
(* wins a conflict (conflict-resolver.ts).                                 *)
(*                                                                         *)
(* An entity is its role, its source, the targets of its relations and its *)
(* time of update, for which the version stands; the other fields behave   *)
(* like the role.  Lists of ids are sets.                                  *)
(***************************************************************************)
EXTENDS Integers, FiniteSets, SequencesExt

CONSTANTS EntityId, EntityRole, Source,
          MaxGraphVersion    \* bound of the model

ASSUME EntityIdAssumption == IsFiniteSet(EntityId)

VARIABLES g,                 \* the graph
          base               \* a copy of it at an earlier moment

graphVars == <<g, base>>

EmptySemanticGraph ==
  [nodes |-> <<>>, edges |-> {}, version |-> 0,
   byRole |-> [r \in EntityRole |-> {}], bySource |-> [s \in Source |-> {}]]

GraphInit == g = EmptySemanticGraph /\ base = EmptySemanticGraph

\* Mutant: an entity that is there already is not indexed again.
IndexedIfNew(index, key, id) ==
  IF \E k \in DOMAIN index : id \in index[k] THEN index ELSE [index EXCEPT ![key] = @ \cup {id}]

Indexed(index, key, id) == [index EXCEPT ![key] = @ \cup {id}]

\* addEntity: the node is made anew, also one that is there, whose neighbours
\* and whose place in another role's index stay as they were.
AddToGraph(id, role, source, rels) ==
  LET entity == [role |-> role, source |-> source, rels |-> rels, at |-> g.version + 1]
      placed == [x \in DOMAIN g.nodes \cup {id} |->
                   IF x = id THEN [entity |-> entity, out |-> rels, in |-> {}] ELSE g.nodes[x]]
  IN /\ g.version < MaxGraphVersion
     /\ g' = [nodes    |-> [x \in DOMAIN placed |->
                              IF x \in rels THEN [placed[x] EXCEPT !.in = @ \cup {id}] ELSE placed[x]],
              edges    |-> g.edges \cup rels,
              version  |-> g.version + 1,
              byRole   |-> Indexed(g.byRole, role, id),
              bySource |-> Indexed(g.bySource, source, id)]
     /\ UNCHANGED base

RemoveFromGraph(id) ==
  /\ id \in DOMAIN g.nodes /\ g.version < MaxGraphVersion
  /\ g' = [nodes    |-> [x \in DOMAIN g.nodes \ {id} |->
                           [g.nodes[x] EXCEPT !.out = @ \ {id}, !.in = @ \ {id}]],
           edges    |-> g.edges \ {id},
           version  |-> g.version + 1,
           byRole   |-> [g.byRole EXCEPT ![g.nodes[id].entity.role] = @ \ {id}],
           bySource |-> [g.bySource EXCEPT ![g.nodes[id].entity.source] = @ \ {id}]]
  /\ UNCHANGED base

TakeBase == base # g /\ base' = g /\ UNCHANGED g

GraphNext ==
  \/ \E id \in EntityId : \/ \E r \in EntityRole, s \in Source, rels \in SUBSET EntityId : AddToGraph(id, r, s, rels)
                          \/ RemoveFromGraph(id)
  \/ TakeBase

GraphSpec == GraphInit /\ [][GraphNext]_graphVars

\* One round of bfs: the head of the queue is visited, if it was not, and what it
\* points at is queued behind the others.
BfsStep(graph, maxDepth, s) ==
  LET at   == Head(s.queue)
      next == IF at.depth >= maxDepth \/ at.id \notin DOMAIN graph.nodes THEN {}
              ELSE graph.nodes[at.id].out \ (s.visited \cup {at.id})
  IN IF at.id \in s.visited THEN [s EXCEPT !.queue = Tail(@)]
     ELSE [queue   |-> Tail(s.queue) \o SetToSeq({[id |-> x, depth |-> at.depth + 1] : x \in next}),
           visited |-> s.visited \cup {at.id}]

\* bfs: what the visitor is shown, at most maxDepth steps from start.  A node is
\* expanded once, so that the queue is empty after this many rounds.
Bfs(graph, start, maxDepth) ==
  LET Rounds == 1 + Cardinality(EntityId) * Cardinality(EntityId)
      walk[n \in 0..Rounds] ==
        IF n = 0 THEN [queue |-> <<[id |-> start, depth |-> 0]>>, visited |-> {}]
        ELSE IF walk[n - 1].queue = <<>> THEN walk[n - 1]
        ELSE BfsStep(graph, maxDepth, walk[n - 1])
  IN walk[Rounds].visited

-----------------------------------------------------------------------------
(* federation/src/snapshot, snapshot-engine and conflict-resolver          *)

Fields == {"role", "source", "rels", "at"}
Changed(old, new) == {f \in Fields : old[f] # new[f]}

\* Mutant: an entity that has changed is reported only if its role has.
DiffOfRoles(from, to) ==
  [added   |-> [x \in DOMAIN to.nodes \ DOMAIN from.nodes |-> to.nodes[x].entity],
   removed |-> DOMAIN from.nodes \ DOMAIN to.nodes,
   updated |-> [x \in {y \in DOMAIN from.nodes \cap DOMAIN to.nodes :
                         from.nodes[y].entity.role # to.nodes[y].entity.role} |-> to.nodes[x].entity],
   version |-> to.version]

\* computeDiff, without the addEdge patches: they name no source, so that
\* applyDiff finds none and does nothing.
ComputeDiff(from, to) ==
  [added   |-> [x \in DOMAIN to.nodes \ DOMAIN from.nodes |-> to.nodes[x].entity],
   removed |-> DOMAIN from.nodes \ DOMAIN to.nodes,
   updated |-> LET both == DOMAIN from.nodes \cap DOMAIN to.nodes
                   differ == {x \in both : Changed(from.nodes[x].entity, to.nodes[x].entity) # {}}
               IN [x \in differ |-> [f \in Changed(from.nodes[x].entity, to.nodes[x].entity) |->
                                       to.nodes[x].entity[f]]],
   version |-> to.version]

\* applyDiff leaves edges, adjacency and indexes as they are.
ApplyDiff(graph, diff) ==
  [graph EXCEPT
     !.version = diff.version,
     !.nodes = [x \in (DOMAIN graph.nodes \cup DOMAIN diff.added) \ diff.removed |->
        IF x \in DOMAIN diff.added THEN [entity |-> diff.added[x], out |-> {}, in |-> {}]
        ELSE IF x \in DOMAIN diff.updated
          THEN [graph.nodes[x] EXCEPT !.entity =
                  [f \in Fields |-> IF f \in DOMAIN diff.updated[x] THEN diff.updated[x][f] ELSE @[f]]]
        ELSE graph.nodes[x]]]

Entities(graph) == [x \in DOMAIN graph.nodes |-> graph.nodes[x].entity]

\* trimGraph: the max nodes updated last; times differ.
Trim(graph, max) ==
  IF Cardinality(DOMAIN graph.nodes) <= max THEN graph
  ELSE LET Newer(x) == {y \in DOMAIN graph.nodes : graph.nodes[y].entity.at > graph.nodes[x].entity.at}
           kept == {x \in DOMAIN graph.nodes : Cardinality(Newer(x)) < max}
       IN [nodes    |-> [x \in kept |-> graph.nodes[x]],
           edges    |-> graph.edges \cap kept,
           version  |-> graph.version,
           byRole   |-> [r \in EntityRole |-> {x \in kept : graph.nodes[x].entity.role = r}],
           bySource |-> [s \in Source |-> {x \in kept : graph.nodes[x].entity.source = s}]]

\* resolve for a change of a node, and shouldAcceptRemoteChange of its result.
Resolve(priority, remoteIsAuthority, localIsAuthority, preferLocal) ==
  CASE priority          -> [strategy |-> "intent_priority", winner |-> "remote"]
    [] ~priority /\ remoteIsAuthority -> [strategy |-> "authority_wins", winner |-> "remote"]
    [] ~priority /\ ~remoteIsAuthority /\ localIsAuthority
                         -> [strategy |-> "authority_wins", winner |-> "local"]
    [] OTHER             -> [strategy |-> "lww", winner |-> IF preferLocal THEN "local" ELSE "remote"]

ShouldAcceptRemoteChange(resolution) ==
  resolution.strategy = "lww" \/ resolution.winner # "local"

-----------------------------------------------------------------------------

\* Each node is in the index of its role and of its source.
IsIndexed(graph) ==
  \A x \in DOMAIN graph.nodes : /\ x \in graph.byRole[graph.nodes[x].entity.role]
                                /\ x \in graph.bySource[graph.nodes[x].entity.source]

\* The ids that a path of at most depth steps leads to.
Ball(graph, start, depth) ==
  LET ball[d \in 0..depth] ==
        IF d = 0 THEN {start}
        ELSE ball[d - 1] \cup UNION {graph.nodes[x].out : x \in ball[d - 1] \cap DOMAIN graph.nodes}
  IN ball[depth]

(***************************************************************************)
(* However the graph has changed since the copy was taken, the copy with   *)
(* the diff applied has its entities and its version: what came, went, or  *)
(* went and came back with other fields.                                   *)
(***************************************************************************)
DiffRestores ==
  LET copy == ApplyDiff(base, ComputeDiff(base, g))
  IN Entities(copy) = Entities(g) /\ copy.version = g.version

(***************************************************************************)
(* Although the adjacency is rebuilt in part whenever an entity is added   *)
(* again or removed, the walk visits what a path of at most maxDepth steps *)
(* leads to and nothing else: never too early, and so never cut short.     *)
(***************************************************************************)
BfsVisitsTheBall ==
  \A x \in EntityId : \A depth \in 0..2 : Bfs(g, x, depth) = Ball(g, x, depth)

(***************************************************************************)
(* What the federation computes from graphs agrees with them: a diff with  *)
(* the state it leads to, a walk with the paths there are.                 *)
(***************************************************************************)
GraphsAgree == DiffRestores /\ BfsVisitsTheBall

=============================================================================
