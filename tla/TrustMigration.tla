--------------------------- MODULE TrustMigration ---------------------------
(***************************************************************************)
(* TrustMigration (federation/src/provenance-bridge/trust-migration.ts):   *)
(* which runtimes are trusted, and the provenance chain a migration        *)
(* request is judged by.  The nodes are those of the bridge's local graph, *)
(* where new ones appear as they are recorded or imported; each has its    *)
(* causal parents in the order of the list.  Times are left out, but that  *)
(* a request may come too late.                                            *)
(***************************************************************************)
EXTENDS Integers, FiniteSets, Lists, SequencesExt

CONSTANTS Runtime, NodeId,
          MaxParents,      \* bound of the model: the causal parents of a node
          NodesOf,         \* id -> the nodes that may come to be known under it
          Policies,        \* the policies a runtime may be given
          ScoreValues,
          None

ActorType == {"user", "agent", "system"}
AuthorizationType == {"approved", "delegated", "pending", "rejected"}
TrustNode ==
  [actor : ActorType, signed : BOOLEAN, authorization : AuthorizationType, parents : Seq(NodeId)]

ASSUME PolicyAssumption ==
  \A P \in Policies : P.maxDepth \in Nat /\ P.allowed \subseteq ActorType

ASSUME TrustAssumption ==
  /\ IsFiniteSet(NodeId) /\ MaxParents \in Nat /\ ScoreValues \subseteq Int
  /\ \A id \in NodeId : \A node \in NodesOf[id] : node \in TrustNode

VARIABLES nodes,           \* id -> {node}
          policies,        \* runtime -> {policy}, {} where the default holds
          trusted, scores, \* scores: runtime -> {score}
          pendingMigrations

trustVars == <<nodes, policies, trusted, scores, pendingMigrations>>

\* getDefaultPolicy
DefaultPolicy ==
  [signature |-> FALSE, maxDepth |-> 50, allowed |-> ActorType,
   approval |-> FALSE, minimum |-> None]

TrustInit ==
  /\ nodes = [id \in NodeId |-> {}]
  /\ policies = [r \in Runtime |-> {}]
  /\ trusted = {}
  /\ scores = [r \in Runtime |-> {}]
  /\ pendingMigrations = {}

Present == {id \in NodeId : nodes[id] # {}}
NodeOf(id) == CHOOSE n \in nodes[id] : TRUE
PolicyOf(r) == IF policies[r] = {} THEN DefaultPolicy ELSE CHOOSE P \in policies[r] : TRUE

\* Mutant: the chain is the node itself.
NodeOnly(id, P) == IF NodeOf(id).actor \in P.allowed /\ P.maxDepth > 0 THEN <<id>> ELSE <<>>

\* A round of buildChain: nodes whose actor is not allowed are passed through
\* and do not count.
ChainStep(s, P) ==
  LET at   == Head(s.queue)
      rest == Tail(s.queue)
  IN IF at \in s.visited \/ at \notin Present
       THEN [s EXCEPT !.queue = rest, !.visited = @ \cup {at}]
       ELSE [queue   |-> rest \o Only(NodeOf(at).parents, NodeId \ (s.visited \cup {at})),
             visited |-> s.visited \cup {at},
             chain   |-> IF NodeOf(at).actor \in P.allowed THEN Append(s.chain, at) ELSE s.chain]

\* buildChain: breadth first, until the chain is as long as the policy lets it
\* grow.  A node is expanded once, so that the queue is empty after this many
\* rounds.
BuildChain(id, P) ==
  LET Rounds == 1 + Cardinality(NodeId) * MaxParents
      walk[n \in 0..Rounds] ==
        IF n = 0 THEN [queue |-> <<id>>, visited |-> {}, chain |-> <<>>]
        ELSE LET s == walk[n - 1]
             IN IF s.queue = <<>> \/ Len(s.chain) >= P.maxDepth THEN s ELSE ChainStep(s, P)
  IN walk[Rounds].chain

\* What verifyChain asks of each node.  That its actor is allowed always holds.
Meets(id, P) ==
  /\ P.signature => NodeOf(id).signed
  /\ P.approval => ~(NodeOf(id).actor = "agent" /\ NodeOf(id).authorization # "approved")

VerifyChain(chain, P) == chain # <<>> /\ \A id \in ToSet(chain) : Meets(id, P)

\* A score that is not known stands in nobody's way.
ScoreAllows(r, P) ==
  P.minimum # None => \A score \in scores[r] : score >= P.minimum

Verified(r, id) ==
  LET P == PolicyOf(r) IN VerifyChain(BuildChain(id, P), P) /\ ScoreAllows(r, P)

\* requestMigration: a request whose node is not known stays among the pending
\* ones for good; one that comes too late changes nothing.
RequestMigration(r, id) ==
  /\ IF id \in Present
       THEN /\ trusted' = IF Verified(r, id) THEN trusted \cup {r} ELSE trusted
            /\ pendingMigrations' = pendingMigrations \ {<<r, id>>}
       ELSE /\ pendingMigrations' = pendingMigrations \cup {<<r, id>>}
            /\ UNCHANGED trusted
  /\ UNCHANGED <<nodes, policies, scores>>

SetTrustPolicy(r, P) ==
  policies' = [policies EXCEPT ![r] = {P}] /\ UNCHANGED <<nodes, trusted, scores, pendingMigrations>>

AddTrustedRuntime(r) ==
  trusted' = trusted \cup {r} /\ UNCHANGED <<nodes, policies, scores, pendingMigrations>>

RemoveTrustedRuntime(r) ==
  trusted' = trusted \ {r} /\ UNCHANGED <<nodes, policies, scores, pendingMigrations>>

SetTrustScore(r, score) ==
  /\ scores' = [scores EXCEPT ![r] = {IF score > 100 THEN 100 ELSE IF score < 0 THEN 0 ELSE score}]
  /\ UNCHANGED <<nodes, policies, trusted, pendingMigrations>>

AddNode(id, node) ==
  /\ id \notin Present /\ Len(node.parents) <= MaxParents
  /\ nodes' = [nodes EXCEPT ![id] = {node}]
  /\ UNCHANGED <<policies, trusted, scores, pendingMigrations>>

Approve(id) == nodes' = [nodes EXCEPT ![id] = {[NodeOf(id) EXCEPT !.authorization = "approved"]}]

ApproveNode(id) ==
  id \in Present /\ Approve(id) /\ UNCHANGED <<policies, trusted, scores, pendingMigrations>>

\* chainApproval: on the word of a runtime that is trusted.
ChainApproval(id, r) ==
  id \in Present /\ r \in trusted /\ Approve(id) /\ UNCHANGED <<policies, trusted, scores, pendingMigrations>>

\* The steps at which a runtime is trusted because a request for id was verified.
MigratesBy(r, id) == r \in trusted' \ trusted /\ RequestMigration(r, id)

TrustNext ==
  \/ \E id \in NodeId :
       \/ \E node \in NodesOf[id] : AddNode(id, node)
       \/ ApproveNode(id)
       \/ \E r \in Runtime : RequestMigration(r, id) \/ ChainApproval(id, r)
  \/ \E r \in Runtime :
       \/ AddTrustedRuntime(r) \/ RemoveTrustedRuntime(r)
       \/ \E P \in Policies : SetTrustPolicy(r, P)
       \/ \E score \in ScoreValues : SetTrustScore(r, score)

TrustSpec == TrustInit /\ [][TrustNext]_trustVars

-----------------------------------------------------------------------------

Parents(ids) == UNION {ToSet(NodeOf(id).parents) : id \in ids \cap Present}

\* The nodes that led to id, as far as they are here.
Ancestry(id) ==
  LET up[n \in 0..Cardinality(NodeId)] == IF n = 0 THEN {id} ELSE up[n - 1] \cup Parents(up[n - 1])
  IN up[Cardinality(NodeId)] \cap Present

Counted(id, P) == {x \in Ancestry(id) : NodeOf(x).actor \in P.allowed}

(***************************************************************************)
(* A runtime that becomes trusted without being configured so has named a  *)
(* node of which some ancestor counts, every ancestor that counts meets    *)
(* its policy unless there are more than the policy has looked at, and its *)
(* score, if known, is high enough.                                        *)
(***************************************************************************)
TrustIsEarned ==
  [][\A r \in Runtime, id \in NodeId : MigratesBy(r, id) =>
       LET P == PolicyOf(r)
       IN /\ Counted(id, P) # {}
          /\ \A x \in Counted(id, P) : Meets(x, P) \/ Cardinality(Counted(id, P)) > P.maxDepth
          /\ P.minimum # None => \A score \in scores[r] : score >= P.minimum]_trustVars

=============================================================================
