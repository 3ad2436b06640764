---------------------------- MODULE AgentDispatch ----------------------------
(***************************************************************************)
(* A2UDispatcher.dispatch(), the gate between worker agents and the        *)
(* executor, with the trust classifier that decides what runs unasked, the *)
(* provenance store it logs to, and the user who approves or rejects what  *)
(* is pending.                                                             *)
(*                                                                         *)
(* Any number of dispatch() calls are under way at once: each suspends for *)
(* the hashes of record(), for record() itself and for execute().  The     *)
(* executor is not modelled again: it is PlanExecution, which              *)
(* TopologicalExecutor implements, given the one-step plan that            *)
(* executeImmediate() builds.  One call of dispatch() records one node, so *)
(* the call's name stands for the node's random provenance id.             *)
(***************************************************************************)
EXTENDS ProvenanceGraph

CONSTANTS
  Call,           \* calls of dispatch()
  Intent,         \* intent ids
  Worker,         \* agentState.workerId
  Envelope        \* the envelopes that may be dispatched

Urgency == {"background", "checkpoint", "blocker"}

\* What TrustClassifier tells apart by intent.type: read-only intents, the
\* reversible mutations, the irreversible ones, and every other type.
Kind == {"read", "edit", "irreversible", "other"}

EnvelopeType ==
  [intent    : Intent,
   kind      : Kind,
   confident : BOOLEAN,           \* agentState.confidence >= 0.85
   urgency   : Urgency,
   worker    : Worker,
   dependsOn : SUBSET Intent]

ASSUME EnvelopeAssumption == Envelope \subseteq EnvelopeType

VARIABLES
  sent,           \* sent[c]: the envelope the call is made with
  phase,          \* phase[c]: where the call is suspended
  answer,         \* answer[c]: the status it resolved with
  graph,          \* the ProvenanceStore's graph
  saved,          \* what ProvenanceStore.save() wrote last
  status,         \* status[c][i], outcome[c]: the executor's state of the
  outcome         \* plan of the call

dispatchVars == <<sent, phase, answer, graph, saved, status, outcome>>

\* The plan of executeImmediate(): one step, named by the intent id, with the
\* dependencies of the intent.
PlanFor(e) ==
  [steps    |-> {e.intent},
   deps     |-> [i \in Intent |-> IF i = e.intent THEN e.dependsOn ELSE {}],
   optional |-> [i \in Intent |-> FALSE]]

E == INSTANCE PlanExecution WITH
       Run <- Call, Step <- Intent, Plan <- {PlanFor(e) : e \in Envelope},
       plan <- [c \in Call |-> PlanFor(sent[c])]

Phases  == {"idle", "hashing", "logged", "executing", "answered", "lost"}
Answers == {"none", "executed", "queued", "pending-approval", "blocked", "threw"}

\* Mutant: a low confidence asks for approval of every kind but the reads,
\* a high one of none.
AsksWhenUnsure(e) == e.kind # "read" /\ ~e.confident

\* TrustClassifier.classify(intent, confidence).requiresApproval
RequiresApproval(e) ==
  \/ e.kind = "edit" /\ ~e.confident
  \/ e.kind \in {"irreversible", "other"}

\* The node record() builds; both entities it is given have the id ''.
NodeFor(e) ==
  [intent        |-> e.intent,
   actor         |-> e.worker,
   entity        |-> "",
   authorization |-> IF RequiresApproval(e) THEN "pending" ELSE "delegated"]

\* Mutant: the urgency is looked at before the trust.
AnswerByUrgency(e) ==
  LET asked == [background |-> "queued", checkpoint |-> "pending-approval", blocker |-> "blocked"]
  IN  IF e.urgency = "background" \/ RequiresApproval(e) THEN asked[e.urgency] ELSE "executing"

\* Where dispatch() sends the envelope.
RouteOf(e) ==
  LET asked == [background |-> "queued", checkpoint |-> "pending-approval", blocker |-> "blocked"]
  IN  IF RequiresApproval(e) THEN asked[e.urgency] ELSE "executing"

-----------------------------------------------------------------------------
DispatchInit ==
  /\ sent \in [Call -> Envelope]
  /\ phase = [c \in Call |-> "idle"]
  /\ answer = [c \in Call |-> "none"]
  /\ graph = EmptyGraph
  /\ saved = EmptyGraph
  /\ status = [c \in Call |-> [i \in Intent |-> "pending"]]
  /\ outcome = [c \in Call |-> "idle"]

ExecutorIdle == UNCHANGED <<status, outcome>>
StoreIdle    == UNCHANGED <<graph, saved>>

\* dispatch(): the envelope is classified, and record() waits for two hashes.
Dispatch(c) ==
  /\ phase[c] = "idle"
  /\ phase' = [phase EXCEPT ![c] = "hashing"]
  /\ UNCHANGED <<sent, answer>> /\ StoreIdle /\ ExecutorIdle

\* The hashes are there: record() adds the node.
Record(c) ==
  /\ phase[c] = "hashing"
  /\ phase' = [phase EXCEPT ![c] = "logged"]
  /\ graph' = RecordProvenance(graph, c, NodeFor(sent[c]))
  /\ UNCHANGED <<sent, answer, saved>> /\ ExecutorIdle

\* Mutant: record() is not awaited, so the routing goes on at once.
MayRouteUnlogged(c) == phase[c] \in {"hashing", "logged"}

\* Mutant: dispatch() holds its answer back until the user has decided.
MayRouteDecided(c) == phase[c] = "logged" /\ ~IsPending(graph, c)

\* dispatch() goes on only when record() has resolved.
MayRoute(c) == phase[c] = "logged"

\* dispatch() calls execute(), which runs up to its first await.
RouteToExecutor(c) ==
  /\ MayRoute(c)
  /\ RouteOf(sent[c]) = "executing"
  /\ phase' = [phase EXCEPT ![c] = "executing"]
  /\ UNCHANGED <<sent, answer>> /\ StoreIdle
  /\ E!Open(c)

\* dispatch() answers with a waypoint for the user.
RouteToUser(c) ==
  /\ MayRoute(c)
  /\ RouteOf(sent[c]) # "executing"
  /\ phase' = [phase EXCEPT ![c] = "answered"]
  /\ answer' = [answer EXCEPT ![c] = RouteOf(sent[c])]
  /\ UNCHANGED sent /\ StoreIdle /\ ExecutorIdle

\* The executor at work on the plan of the call.
RunStep(c) ==
  /\ phase[c] = "executing"
  /\ UNCHANGED <<sent, phase, answer>> /\ StoreIdle
  /\ \E i \in Intent : E!Begin(c, i) \/ E!End(c, i)

ExecutorThrows(c) ==
  /\ phase[c] = "executing"
  /\ UNCHANGED <<sent, phase, answer>> /\ StoreIdle
  /\ E!GiveUp(c)

\* execute() settled: dispatch() answers "executed", or throws what it threw.
Return(c) ==
  /\ phase[c] = "executing"
  /\ outcome[c] \in {"result", "error"}
  /\ phase' = [phase EXCEPT ![c] = "answered"]
  /\ answer' = [answer EXCEPT ![c] = IF outcome[c] = "result" THEN "executed" ELSE "threw"]
  /\ UNCHANGED sent /\ StoreIdle /\ ExecutorIdle

\* ProvenanceStore.approve() and reject().  Neither tells the dispatcher.
UserDecides(id, decision) ==
  /\ IsPending(graph, id)
  /\ graph' = Decide(graph, id, decision)
  /\ UNCHANGED <<sent, phase, answer, saved>> /\ ExecutorIdle

Save ==
  /\ saved # graph
  /\ saved' = graph
  /\ UNCHANGED <<sent, phase, answer, graph>> /\ ExecutorIdle

\* Mutant: the maps are written as they are, and JSON has no maps.
LoadedWithoutEntries(g, s) == EmptyGraph

\* load(): the graph is replaced, whatever was recorded since.
Loaded(g, s) == s

\* The process ends, and a new one loads the file.  A call that was made is of
\* the past: what it had reached stays in the other variables.
Restart ==
  /\ phase' = [c \in Call |-> IF phase[c] = "idle" THEN "idle" ELSE "lost"]
  /\ graph' = Loaded(graph, saved)
  /\ UNCHANGED <<sent, answer, saved>> /\ ExecutorIdle

DispatchNext ==
  \/ \E c \in Call : \/ Dispatch(c) \/ Record(c) \/ RouteToExecutor(c) \/ RouteToUser(c)
                     \/ RunStep(c) \/ ExecutorThrows(c) \/ Return(c)
                     \/ \E decision \in Decisions : UserDecides(c, decision)
  \/ Save \/ Restart

DispatchSpec == DispatchInit /\ [][DispatchNext]_dispatchVars

\* The event loop: hashes are computed, promises settle in their turn, and the
\* executor's tools answer.
DispatchFairness ==
  \A c \in Call : /\ WF_dispatchVars(Record(c)) /\ WF_dispatchVars(RouteToExecutor(c))
                  /\ WF_dispatchVars(RouteToUser(c)) /\ WF_dispatchVars(RunStep(c)) /\ WF_dispatchVars(Return(c))

DispatchFairSpec == DispatchSpec /\ DispatchFairness

-----------------------------------------------------------------------------
NodeType ==
  [intent : Intent, actor : Worker, entity : {""}, authorization : Authorizations]

\* Type correctness of the dispatcher, its store and the calls.
DispatchTypeOK ==
  /\ sent \in [Call -> Envelope]
  /\ phase \in [Call -> Phases]
  /\ answer \in [Call -> Answers]
  /\ status \in [Call -> [Intent -> E!Statuses]]
  /\ outcome \in [Call -> E!Outcomes]
  /\ \A g \in {graph, saved} :
       /\ DOMAIN g.nodes \subseteq Call
       /\ \A id \in DOMAIN g.nodes : g.nodes[id] \in NodeType

\* MASTER-SPEC.md:163, "the agent never mutates state without an entry in the
\* provenance log": whatever the order in which concurrent record() calls get
\* their hashes, a step the executor has begun is in the log of this process,
\* under the worker and the intent it runs for and as permitted; an
\* irreversible one only as approved by the user.
RunIsAuthorized ==
  \A c \in Call : \A i \in Intent :
    (phase[c] # "lost" /\ status[c][i] # "pending") =>
      \E id \in DOMAIN graph.nodes :
        /\ graph.nodes[id].intent = i
        /\ graph.nodes[id].actor = sent[c].worker
        /\ graph.nodes[id].authorization = "approved"
             \/ (graph.nodes[id].authorization = "delegated" /\ sent[c].kind # "irreversible")

\* What dispatch() answered is what the log says: an envelope reported as
\* executed was logged as delegated, and one handed to the user is in the log
\* for the user to decide, or decided.
AnswerMatchesLog ==
  \A c \in DOMAIN graph.nodes :
    /\ answer[c] \in {"executed", "threw"} => graph.nodes[c].authorization = "delegated"
    /\ answer[c] \in {"queued", "pending-approval", "blocked"} =>
         graph.nodes[c].authorization # "delegated"

\* recordProvenance keeps four maps in step, while nodes arrive in the order
\* the hashes complete and not in that of the calls.
IndexesAgree == IndexesAgreeIn(graph)

\* A restart gives back everything that was saved: no node of the file, and no
\* decision in it, is missing from the store or different there.
SavedIsKept == KeptIn(saved, graph)

\* As long as the process lives no node is lost and a decision of the user is
\* final: a second approve() or reject() does not change it.
DecisionsStand == [][graph' # Loaded(graph, saved) => KeptIn(graph, graph')]_graph

\* Every dispatch() call is answered, or thrown out of, unless the process ends.
EveryDispatchAnswered ==
  \A c \in Call : (phase[c] = "hashing") ~> (phase[c] \in {"answered", "lost"})

\* The intents c waits for have all been done, on behalf of other calls.
DependenciesDone(c) ==
  \A d \in sent[c].dependsOn : \E other \in Call : status[other][d] = "done"

\* docs/semantic-horizon/04-agentic-delegation.md:109, "the dispatcher executes
\* the intent immediately" when no approval is needed, and the dependencies of
\* an intent are there "for topological execution" (protocol/intents:66): an
\* intent whose dependencies are all done is run, not returned at once as
\* executed with nothing begun.
ExecutedMeansRun ==
  [][\A c \in Call : (RouteToExecutor(c) /\ DependenciesDone(c)) => outcome'[c] # "result"]_dispatchVars

=============================================================================
