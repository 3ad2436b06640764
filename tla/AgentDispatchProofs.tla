------------------------- MODULE AgentDispatchProofs -------------------------
(***************************************************************************)
(* Proofs about AgentDispatch for any number of calls, intents, workers    *)
(* and envelopes.  DispatchSpec implies []LogInv, and LogInv implies the safety    *)
(* properties.  What makes LogInv inductive is that every node, in the     *)
(* store and in the file, is still recognisably that of the envelope it    *)
(* was recorded for, and that the node of a call that was not recorded yet *)
(* is in neither.                                                          *)
(***************************************************************************)
EXTENDS AgentDispatch, TLAPS

\* Node n is what record() made of envelope e, decided or not.
IsNodeOf(n, e) ==
  /\ n \in NodeType
  /\ n.intent = e.intent
  /\ n.actor = e.worker
  /\ n.authorization = "delegated" <=> ~RequiresApproval(e)

GraphType(g) ==
  /\ DOMAIN g.nodes \subseteq Call
  /\ \A id \in DOMAIN g.nodes : g.nodes[id] \in NodeType

TypedStore == \A g \in {graph, saved} : GraphType(g)

\* The nodes of g are those of the calls, and none is there before record().
GraphOfCalls(g) ==
  \A id \in DOMAIN g.nodes :
    /\ IsNodeOf(g.nodes[id], sent[id])
    /\ phase[id] \notin {"idle", "hashing"}

NodeIsThere ==
  \A c \in Call :
    phase[c] \in {"logged", "executing", "answered"} => c \in DOMAIN graph.nodes

OnlyPermittedRuns ==
  \A c \in Call :
    /\ phase[c] = "executing" => ~RequiresApproval(sent[c])
    /\ \A i \in Intent :
         status[c][i] # "pending" =>
           /\ phase[c] \in {"executing", "answered", "lost"}
           /\ i = sent[c].intent
           /\ ~RequiresApproval(sent[c])

AnswersOfTheGate ==
  \A c \in Call :
    /\ answer[c] \in {"executed", "threw"} => ~RequiresApproval(sent[c])
    /\ answer[c] \in {"queued", "pending-approval", "blocked"} => RequiresApproval(sent[c])

LogInv ==
  /\ DispatchTypeOK
  /\ GraphOfCalls(graph) /\ GraphOfCalls(saved)
  /\ NodeIsThere
  /\ OnlyPermittedRuns
  /\ AnswersOfTheGate
  /\ SavedIsKept

-----------------------------------------------------------------------------
\* KeptIn is reflexive.
LEMMA KeptReflexive == ASSUME NEW g PROVE KeptIn(g, g)
BY DEF KeptIn

\* KeptIn is transitive on graphs of typed nodes: a decided node is not
\* pending, so no second decision follows the first.
LEMMA KeptTransitive ==
  ASSUME NEW g, NEW h, NEW k, GraphType(g), KeptIn(g, h), KeptIn(h, k)
  PROVE  KeptIn(g, k)
<1> SUFFICES ASSUME NEW id \in DOMAIN g.nodes
             PROVE  /\ id \in DOMAIN k.nodes
                    /\ \/ k.nodes[id] = g.nodes[id]
                       \/ /\ g.nodes[id].authorization = "pending"
                          /\ \E d \in Decisions : k.nodes[id] = [g.nodes[id] EXCEPT !.authorization = d]
  BY DEF KeptIn
<1> DEFINE a == g.nodes[id]
           b == h.nodes[id]
           c == k.nodes[id]
<1>1. a \in NodeType BY DEF GraphType
<1>2. /\ id \in DOMAIN h.nodes
      /\ \/ b = a
         \/ /\ a.authorization = "pending"
            /\ \E d \in Decisions : b = [a EXCEPT !.authorization = d]
  BY DEF KeptIn
<1>3. /\ id \in DOMAIN k.nodes
      /\ \/ c = b
         \/ /\ b.authorization = "pending"
            /\ \E d \in Decisions : c = [b EXCEPT !.authorization = d]
  BY <1>2 DEF KeptIn
<1>4. ASSUME NEW d \in Decisions, b = [a EXCEPT !.authorization = d]
      PROVE  b.authorization # "pending"
  BY <1>1, <1>4 DEF NodeType, Decisions
<1> QED BY <1>2, <1>3, <1>4

\* record() adds the node of its call and keeps every other.
LEMMA RecordFacts ==
  ASSUME NEW g, NEW c, NEW n, c \notin DOMAIN g.nodes,
         NEW h, h = RecordProvenance(g, c, n)
  PROVE  /\ DOMAIN h.nodes = DOMAIN g.nodes \cup {c}
         /\ h.nodes[c] = n
         /\ \A id \in DOMAIN g.nodes : h.nodes[id] = g.nodes[id]
         /\ KeptIn(g, h)
<1>1. h.nodes = Put(g.nodes, c, n) BY DEF RecordProvenance
<1>2. PICK m : m = g.nodes OBVIOUS
<1>3. /\ DOMAIN h.nodes = DOMAIN m \cup {c}
      /\ h.nodes[c] = n
      /\ \A id \in DOMAIN m : id # c => h.nodes[id] = m[id]
  BY <1>1, <1>2 DEF Put
<1>4. \A id \in DOMAIN g.nodes : id \in DOMAIN h.nodes /\ h.nodes[id] = g.nodes[id]
  BY <1>2, <1>3
<1> QED BY <1>2, <1>3, <1>4 DEF KeptIn

\* A decision changes the authorization of one pending node, and only that.
LEMMA DecideFacts ==
  ASSUME NEW g, NEW c, NEW d \in Decisions, IsPending(g, c),
         NEW h, h = Decide(g, c, d)
  PROVE  /\ DOMAIN h.nodes = DOMAIN g.nodes
         /\ g.nodes[c].authorization = "pending"
         /\ h.nodes[c] = [g.nodes[c] EXCEPT !.authorization = d]
         /\ \A id \in DOMAIN g.nodes : id # c => h.nodes[id] = g.nodes[id]
         /\ KeptIn(g, h)
<1>1. PICK m : m = g.nodes OBVIOUS
<1>2. PICK n : n = [m[c] EXCEPT !.authorization = d] OBVIOUS
<1>3. h.nodes = Put(m, c, n) BY <1>1, <1>2 DEF Decide
<1>4. c \in DOMAIN m /\ m[c].authorization = "pending"
  BY <1>1 DEF IsPending
<1>5. /\ DOMAIN h.nodes = DOMAIN m
      /\ h.nodes[c] = n
      /\ \A id \in DOMAIN m : id # c => h.nodes[id] = m[id]
  BY <1>3, <1>4 DEF Put
<1>6. KeptIn(g, h) BY <1>1, <1>2, <1>4, <1>5 DEF KeptIn
<1> QED BY <1>1, <1>2, <1>4, <1>5, <1>6

\* An envelope goes to the executor exactly when no approval is needed, and to
\* the user otherwise.
LEMMA RouteFacts ==
  ASSUME NEW e \in EnvelopeType
  PROVE  /\ RouteOf(e) = "executing" <=> ~RequiresApproval(e)
         /\ RequiresApproval(e) => RouteOf(e) \in {"queued", "pending-approval", "blocked"}
<1>1. e.urgency = "background" \/ e.urgency = "checkpoint" \/ e.urgency = "blocker"
  BY DEF EnvelopeType, Urgency
<1> QED BY <1>1 DEF RouteOf

\* record() makes of an envelope a node of that envelope.
LEMMA NodeForFacts ==
  ASSUME NEW e \in EnvelopeType
  PROVE  IsNodeOf(NodeFor(e), e)
BY DEF EnvelopeType, IsNodeOf, NodeFor, NodeType, Authorizations

\* What an executor's step on the plan of a call changes: the statuses of that
\* call, and a step that was pending only if it is the plan's one step.
LEMMA StepOfPlan ==
  ASSUME DispatchTypeOK, NEW c \in Call, NEW i \in Intent, E!Begin(c, i) \/ E!End(c, i)
  PROVE  /\ status' \in [Call -> [Intent -> E!Statuses]]
         /\ outcome' \in [Call -> E!Outcomes]
         /\ \A d \in Call, j \in Intent :
              status'[d][j] # "pending" =>
                status[d][j] # "pending" \/ (d = c /\ j = sent[c].intent)
<1>1. status \in [Call -> [Intent -> E!Statuses]] /\ outcome \in [Call -> E!Outcomes]
  BY DEF DispatchTypeOK
<1>2. CASE E!Begin(c, i)
  <2>1. i = sent[c].intent BY <1>2 DEF E!Begin, E!MayBegin, PlanFor
  <2>2. status' = [status EXCEPT ![c][i] = "active"] /\ outcome' = outcome
    BY <1>2 DEF E!Begin
  <2> QED BY <1>1, <2>1, <2>2 DEF E!Statuses
<1>3. CASE E!End(c, i)
  <2>1. status[c][i] = "active" BY <1>3 DEF E!End
  <2>2. PICK end \in {"done", "failed"} : status' = [status EXCEPT ![c][i] = end]
    BY <1>3 DEF E!End
  <2>3. outcome' \in [Call -> E!Outcomes]
    BY <1>1, <1>3 DEF E!End, E!Resolve, E!Outcomes
  <2> QED BY <1>1, <2>1, <2>2, <2>3 DEF E!Statuses
<1> QED BY <1>2, <1>3

\* execute() and its throwing change the outcome of the call alone.
LEMMA OpenAndGiveUp ==
  ASSUME DispatchTypeOK, NEW c \in Call, E!Open(c) \/ E!GiveUp(c)
  PROVE  status' = status /\ outcome' \in [Call -> E!Outcomes]
<1>1. outcome \in [Call -> E!Outcomes] BY DEF DispatchTypeOK
<1>2. CASE E!Open(c) BY <1>1, <1>2 DEF E!Open, E!Resolve, E!Outcomes
<1>3. CASE E!GiveUp(c) BY <1>1, <1>3 DEF E!GiveUp, E!Outcomes
<1> QED BY <1>2, <1>3

-----------------------------------------------------------------------------
\* LogInv holds initially.
LEMMA LogInvInit == DispatchInit => LogInv
<1> SUFFICES ASSUME DispatchInit PROVE LogInv OBVIOUS
<1>1. DOMAIN graph.nodes = {} /\ DOMAIN saved.nodes = {}
  BY DEF DispatchInit, EmptyGraph
<1>2. DispatchTypeOK
  BY <1>1 DEF DispatchInit, DispatchTypeOK, Phases, Answers, E!Statuses, E!Outcomes
<1>3. GraphOfCalls(graph) /\ GraphOfCalls(saved) /\ SavedIsKept
  BY <1>1 DEF GraphOfCalls, SavedIsKept, KeptIn
<1>4. NodeIsThere /\ OnlyPermittedRuns /\ AnswersOfTheGate
  BY DEF DispatchInit, NodeIsThere, OnlyPermittedRuns, AnswersOfTheGate
<1> QED BY <1>2, <1>3, <1>4 DEF LogInv

\* A step that leaves the store alone, and in which no call goes back to before
\* its record(), keeps what is said of the store.
LEMMA StoreUntouched ==
  ASSUME LogInv, UNCHANGED <<sent, graph, saved>>,
         \A c \in Call : phase[c] \notin {"idle", "hashing"} => phase'[c] \notin {"idle", "hashing"}
  PROVE  /\ GraphOfCalls(graph)' /\ GraphOfCalls(saved)' /\ SavedIsKept'
         /\ TypedStore'
<1>1. TypedStore
  BY DEF LogInv, DispatchTypeOK, TypedStore, GraphType
<1>2. graph' = graph /\ saved' = saved /\ sent' = sent OBVIOUS
<1>3. GraphOfCalls(graph)' BY <1>1, <1>2 DEF LogInv, GraphOfCalls, TypedStore, GraphType
<1>4. GraphOfCalls(saved)' BY <1>1, <1>2 DEF LogInv, GraphOfCalls, TypedStore, GraphType
<1>5. SavedIsKept' BY <1>2 DEF LogInv, SavedIsKept
<1>6. TypedStore' BY <1>1, <1>2 DEF TypedStore
<1> QED BY <1>3, <1>4, <1>5, <1>6

\* LogInv is preserved by the steps of a dispatch() call.
LEMMA LogInvCall ==
  ASSUME LogInv, NEW c \in Call,
         Dispatch(c) \/ RouteToExecutor(c) \/ RouteToUser(c)
           \/ RunStep(c) \/ ExecutorThrows(c) \/ Return(c)
  PROVE  LogInv'
<1> USE DEF LogInv
<1>e. sent[c] \in EnvelopeType
  BY EnvelopeAssumption DEF DispatchTypeOK
<1>s. UNCHANGED <<sent, graph, saved>>
  BY DEF Dispatch, RouteToExecutor, RouteToUser, RunStep, ExecutorThrows, Return, StoreIdle
<1>t. /\ phase \in [Call -> Phases] /\ answer \in [Call -> Answers]
      /\ status \in [Call -> [Intent -> E!Statuses]]
      /\ sent \in [Call -> Envelope]
  BY DEF DispatchTypeOK
<1>1. CASE Dispatch(c)
  <2>1. /\ phase[c] = "idle" /\ phase' = [phase EXCEPT ![c] = "hashing"]
        /\ answer' = answer /\ status' = status /\ outcome' = outcome
    BY <1>1 DEF Dispatch, ExecutorIdle
  <2>2. /\ GraphOfCalls(graph)' /\ GraphOfCalls(saved)' /\ SavedIsKept'
        /\ TypedStore'
    BY <2>1, <1>s, <1>t, StoreUntouched
  <2>3. DispatchTypeOK' BY <2>1, <2>2, <1>s, <1>t DEF DispatchTypeOK, TypedStore, GraphType, Phases
  <2>4. NodeIsThere' BY <2>1, <1>s, <1>t DEF NodeIsThere
  <2>5. OnlyPermittedRuns' BY <2>1, <1>s, <1>t DEF OnlyPermittedRuns
  <2>6. AnswersOfTheGate' BY <2>1, <1>s DEF AnswersOfTheGate
  <2> QED BY <2>2, <2>3, <2>4, <2>5, <2>6
<1>2. CASE RouteToExecutor(c)
  <2>1. /\ phase[c] = "logged" /\ phase' = [phase EXCEPT ![c] = "executing"]
        /\ answer' = answer /\ RouteOf(sent[c]) = "executing"
        /\ E!Open(c)
    BY <1>2 DEF RouteToExecutor, MayRoute
  <2>2. status' = status /\ outcome' \in [Call -> E!Outcomes]
    BY <2>1, OpenAndGiveUp
  <2>3. ~RequiresApproval(sent[c]) BY <2>1, <1>e, RouteFacts
  <2>4. /\ GraphOfCalls(graph)' /\ GraphOfCalls(saved)' /\ SavedIsKept'
        /\ TypedStore'
    BY <2>1, <1>s, <1>t, StoreUntouched
  <2>5. DispatchTypeOK' BY <2>1, <2>2, <2>4, <1>s, <1>t DEF DispatchTypeOK, TypedStore, GraphType, Phases
  <2>6. NodeIsThere' BY <2>1, <1>s, <1>t DEF NodeIsThere
  <2>7. OnlyPermittedRuns' BY <2>1, <2>2, <2>3, <1>s, <1>t DEF OnlyPermittedRuns
  <2>8. AnswersOfTheGate' BY <2>1, <1>s DEF AnswersOfTheGate
  <2> QED BY <2>4, <2>5, <2>6, <2>7, <2>8
<1>3. CASE RouteToUser(c)
  <2>1. /\ phase[c] = "logged" /\ phase' = [phase EXCEPT ![c] = "answered"]
        /\ answer' = [answer EXCEPT ![c] = RouteOf(sent[c])]
        /\ RouteOf(sent[c]) # "executing"
        /\ status' = status /\ outcome' = outcome
    BY <1>3 DEF RouteToUser, MayRoute, ExecutorIdle
  <2>2. /\ RequiresApproval(sent[c])
        /\ RouteOf(sent[c]) \in {"queued", "pending-approval", "blocked"}
    BY <2>1, <1>e, RouteFacts
  <2>3. /\ GraphOfCalls(graph)' /\ GraphOfCalls(saved)' /\ SavedIsKept'
        /\ TypedStore'
    BY <2>1, <1>s, <1>t, StoreUntouched
  <2>4. DispatchTypeOK' BY <2>1, <2>2, <2>3, <1>s, <1>t DEF DispatchTypeOK, TypedStore, GraphType, Phases, Answers
  <2>5. NodeIsThere' BY <2>1, <1>s, <1>t DEF NodeIsThere
  <2>6. OnlyPermittedRuns' BY <2>1, <1>s, <1>t DEF OnlyPermittedRuns
  <2>7. AnswersOfTheGate' BY <2>1, <2>2, <1>s, <1>t DEF AnswersOfTheGate
  <2> QED BY <2>3, <2>4, <2>5, <2>6, <2>7
<1>4. CASE RunStep(c)
  <2>1. PICK i \in Intent : E!Begin(c, i) \/ E!End(c, i)
    BY <1>4 DEF RunStep
  <2>2. phase[c] = "executing" /\ phase' = phase /\ answer' = answer
    BY <1>4 DEF RunStep
  <2>3. /\ status' \in [Call -> [Intent -> E!Statuses]]
        /\ outcome' \in [Call -> E!Outcomes]
        /\ \A d \in Call, j \in Intent :
             status'[d][j] # "pending" =>
               status[d][j] # "pending" \/ (d = c /\ j = sent[c].intent)
    BY <2>1, StepOfPlan
  <2>4. /\ GraphOfCalls(graph)' /\ GraphOfCalls(saved)' /\ SavedIsKept'
        /\ TypedStore'
    BY <2>2, <1>s, <1>t, StoreUntouched
  <2>5. DispatchTypeOK' BY <2>2, <2>3, <2>4, <1>s, <1>t DEF DispatchTypeOK, TypedStore, GraphType
  <2>6. NodeIsThere' BY <2>2, <1>s DEF NodeIsThere
  <2>7. OnlyPermittedRuns' BY <2>2, <2>3, <1>s DEF OnlyPermittedRuns
  <2>8. AnswersOfTheGate' BY <2>2, <1>s DEF AnswersOfTheGate
  <2> QED BY <2>4, <2>5, <2>6, <2>7, <2>8
<1>5. CASE ExecutorThrows(c)
  <2>1. phase' = phase /\ answer' = answer /\ E!GiveUp(c)
    BY <1>5 DEF ExecutorThrows
  <2>2. status' = status /\ outcome' \in [Call -> E!Outcomes]
    BY <2>1, OpenAndGiveUp
  <2>3. /\ GraphOfCalls(graph)' /\ GraphOfCalls(saved)' /\ SavedIsKept'
        /\ TypedStore'
    BY <2>1, <1>s, <1>t, StoreUntouched
  <2>4. DispatchTypeOK' BY <2>1, <2>2, <2>3, <1>s, <1>t DEF DispatchTypeOK, TypedStore, GraphType
  <2>5. NodeIsThere' BY <2>1, <1>s DEF NodeIsThere
  <2>6. OnlyPermittedRuns' BY <2>1, <2>2, <1>s DEF OnlyPermittedRuns
  <2>7. AnswersOfTheGate' BY <2>1, <1>s DEF AnswersOfTheGate
  <2> QED BY <2>3, <2>4, <2>5, <2>6, <2>7
<1>6. CASE Return(c)
  <2>1. /\ phase[c] = "executing" /\ phase' = [phase EXCEPT ![c] = "answered"]
        /\ answer' = [answer EXCEPT ![c] = IF outcome[c] = "result" THEN "executed" ELSE "threw"]
        /\ status' = status /\ outcome' = outcome
    BY <1>6 DEF Return, ExecutorIdle
  <2>2. ~RequiresApproval(sent[c]) BY <2>1 DEF OnlyPermittedRuns
  <2>3. /\ GraphOfCalls(graph)' /\ GraphOfCalls(saved)' /\ SavedIsKept'
        /\ TypedStore'
    BY <2>1, <1>s, <1>t, StoreUntouched
  <2>4. DispatchTypeOK' BY <2>1, <2>3, <1>s, <1>t DEF DispatchTypeOK, TypedStore, GraphType, Phases, Answers
  <2>5. NodeIsThere' BY <2>1, <1>s, <1>t DEF NodeIsThere
  <2>6. OnlyPermittedRuns' BY <2>1, <1>s, <1>t DEF OnlyPermittedRuns
  <2>7. AnswersOfTheGate' BY <2>1, <2>2, <1>s, <1>t DEF AnswersOfTheGate
  <2> QED BY <2>3, <2>4, <2>5, <2>6, <2>7
<1> QED BY <1>1, <1>2, <1>3, <1>4, <1>5, <1>6

\* LogInv is preserved when record() adds a node.
LEMMA LogInvRecord ==
  ASSUME LogInv, NEW c \in Call, Record(c)
  PROVE  LogInv'
<1> USE DEF LogInv
<1>1. /\ phase[c] = "hashing" /\ phase' = [phase EXCEPT ![c] = "logged"]
      /\ graph' = RecordProvenance(graph, c, NodeFor(sent[c]))
      /\ sent' = sent /\ answer' = answer /\ saved' = saved
      /\ status' = status /\ outcome' = outcome
  BY DEF Record, ExecutorIdle
<1>2. /\ phase \in [Call -> Phases] /\ sent \in [Call -> Envelope]
      /\ GraphType(graph) /\ GraphType(saved)
  BY DEF DispatchTypeOK, GraphType
<1>3. c \notin DOMAIN graph.nodes /\ c \notin DOMAIN saved.nodes
  BY <1>1 DEF GraphOfCalls
<1>4. /\ DOMAIN graph'.nodes = DOMAIN graph.nodes \cup {c}
      /\ graph'.nodes[c] = NodeFor(sent[c])
      /\ \A id \in DOMAIN graph.nodes : graph'.nodes[id] = graph.nodes[id]
      /\ KeptIn(graph, graph')
  BY <1>1, <1>3, RecordFacts
<1>5. IsNodeOf(graph'.nodes[c], sent[c])
  BY <1>2, <1>4, EnvelopeAssumption, NodeForFacts
<1>6. GraphType(graph')
  BY <1>2, <1>4, <1>5 DEF GraphType, IsNodeOf
<1>7. DispatchTypeOK' BY <1>1, <1>2, <1>6 DEF DispatchTypeOK, GraphType, Phases
<1>8. GraphOfCalls(graph)' BY <1>1, <1>2, <1>4, <1>5 DEF GraphOfCalls, GraphType
<1>9. GraphOfCalls(saved)' BY <1>1, <1>2, <1>3 DEF GraphOfCalls, GraphType
<1>10. SavedIsKept' BY <1>1, <1>2, <1>4, KeptTransitive DEF SavedIsKept
<1>11. NodeIsThere' BY <1>1, <1>2, <1>4 DEF NodeIsThere
<1>12. OnlyPermittedRuns' BY <1>1, <1>2 DEF OnlyPermittedRuns
<1>13. AnswersOfTheGate' BY <1>1 DEF AnswersOfTheGate
<1> QED BY <1>7, <1>8, <1>9, <1>10, <1>11, <1>12, <1>13

\* LogInv is preserved by the user's decisions.
LEMMA LogInvDecides ==
  ASSUME LogInv, NEW c \in Call, NEW d \in Decisions, UserDecides(c, d)
  PROVE  LogInv'
<1> USE DEF LogInv
<1>1. /\ IsPending(graph, c) /\ graph' = Decide(graph, c, d)
      /\ sent' = sent /\ phase' = phase /\ answer' = answer /\ saved' = saved
      /\ status' = status /\ outcome' = outcome
  BY DEF UserDecides, ExecutorIdle
<1>2. GraphType(graph) /\ GraphType(saved) BY DEF DispatchTypeOK, GraphType
<1>3. /\ DOMAIN graph'.nodes = DOMAIN graph.nodes
      /\ graph.nodes[c].authorization = "pending"
      /\ graph'.nodes[c] = [graph.nodes[c] EXCEPT !.authorization = d]
      /\ \A id \in DOMAIN graph.nodes : id # c => graph'.nodes[id] = graph.nodes[id]
      /\ KeptIn(graph, graph')
  BY <1>1, DecideFacts
<1>4. c \in DOMAIN graph.nodes /\ IsNodeOf(graph.nodes[c], sent[c])
  BY <1>1 DEF IsPending, GraphOfCalls
<1>5. IsNodeOf(graph'.nodes[c], sent[c])
  BY <1>3, <1>4 DEF IsNodeOf, NodeType, Decisions, Authorizations
<1>6. GraphType(graph') BY <1>2, <1>3, <1>5 DEF GraphType, IsNodeOf
<1>7. DispatchTypeOK' BY <1>1, <1>6 DEF DispatchTypeOK, GraphType
<1>8. GraphOfCalls(graph)' BY <1>1, <1>3, <1>5 DEF GraphOfCalls
<1>9. GraphOfCalls(saved)' BY <1>1 DEF GraphOfCalls
<1>10. SavedIsKept' BY <1>1, <1>2, <1>3, KeptTransitive DEF SavedIsKept
<1>11. NodeIsThere' BY <1>1, <1>3 DEF NodeIsThere
<1>12. OnlyPermittedRuns' /\ AnswersOfTheGate'
  BY <1>1 DEF OnlyPermittedRuns, AnswersOfTheGate
<1> QED BY <1>7, <1>8, <1>9, <1>10, <1>11, <1>12

\* LogInv is preserved when the graph is saved, and when a new process loads it.
LEMMA LogInvFile ==
  ASSUME LogInv, Save \/ Restart
  PROVE  LogInv'
<1> USE DEF LogInv
<1>1. CASE Save
  <2>1. /\ saved' = graph /\ graph' = graph /\ sent' = sent /\ phase' = phase
        /\ answer' = answer /\ status' = status /\ outcome' = outcome
    BY <1>1 DEF Save, ExecutorIdle
  <2>2. DispatchTypeOK' BY <2>1 DEF DispatchTypeOK
  <2>3. GraphOfCalls(graph)' /\ GraphOfCalls(saved)' BY <2>1 DEF GraphOfCalls
  <2>4. SavedIsKept' BY <2>1, KeptReflexive DEF SavedIsKept
  <2>5. NodeIsThere' /\ OnlyPermittedRuns' /\ AnswersOfTheGate'
    BY <2>1 DEF NodeIsThere, OnlyPermittedRuns, AnswersOfTheGate
  <2> QED BY <2>2, <2>3, <2>4, <2>5
<1>2. CASE Restart
  <2>1. /\ graph' = saved /\ saved' = saved /\ sent' = sent
        /\ phase' = [c \in Call |-> IF phase[c] = "idle" THEN "idle" ELSE "lost"]
        /\ answer' = answer /\ status' = status /\ outcome' = outcome
    BY <1>2 DEF Restart, Loaded, ExecutorIdle
  <2>2. GraphType(saved) BY DEF DispatchTypeOK, GraphType
  <2>3. DispatchTypeOK' BY <2>1 DEF DispatchTypeOK, Phases
  <2>4. GraphOfCalls(graph)' /\ GraphOfCalls(saved)'
    BY <2>1, <2>2 DEF GraphOfCalls, GraphType
  <2>5. SavedIsKept' BY <2>1, KeptReflexive DEF SavedIsKept
  <2>6. NodeIsThere' /\ OnlyPermittedRuns' /\ AnswersOfTheGate'
    BY <2>1 DEF NodeIsThere, OnlyPermittedRuns, AnswersOfTheGate
  <2> QED BY <2>3, <2>4, <2>5, <2>6
<1> QED BY <1>1, <1>2

\* LogInv is inductive.
LEMMA LogInvStep == LogInv /\ [DispatchNext]_dispatchVars => LogInv'
<1> SUFFICES ASSUME LogInv, [DispatchNext]_dispatchVars PROVE LogInv' OBVIOUS
<1>1. ASSUME NEW c \in Call,
             Dispatch(c) \/ RouteToExecutor(c) \/ RouteToUser(c)
               \/ RunStep(c) \/ ExecutorThrows(c) \/ Return(c)
      PROVE  LogInv'
  BY <1>1, LogInvCall
<1>2. ASSUME NEW c \in Call, Record(c) PROVE LogInv' BY <1>2, LogInvRecord
<1>3. ASSUME NEW c \in Call, NEW d \in Decisions, UserDecides(c, d) PROVE LogInv'
  BY <1>3, LogInvDecides
<1>4. CASE Save \/ Restart BY <1>4, LogInvFile
<1>5. CASE UNCHANGED dispatchVars
  BY <1>5 DEF dispatchVars, LogInv, DispatchTypeOK, GraphOfCalls, NodeIsThere, OnlyPermittedRuns,
              AnswersOfTheGate, SavedIsKept
<1> QED BY <1>1, <1>2, <1>3, <1>4, <1>5 DEF DispatchNext

\* The log invariant holds of every behaviour.
THEOREM LogInvariant == DispatchSpec => []LogInv
<1>1. DispatchInit => LogInv BY LogInvInit
<1>2. LogInv /\ [DispatchNext]_dispatchVars => LogInv' BY LogInvStep
<1> QED BY <1>1, <1>2, PTL DEF DispatchSpec

\* Type correctness of the dispatcher, for any calls, intents and envelopes.
THEOREM TypeCorrect == DispatchSpec => []DispatchTypeOK
<1>1. LogInv => DispatchTypeOK BY DEF LogInv
<1> QED BY <1>1, LogInvariant, PTL

\* RunIsAuthorized: a step that was begun is that of a call whose envelope
\* needs no approval, and the node of that call is in the log as delegated.
THEOREM Authorized == DispatchSpec => []RunIsAuthorized
<1>1. LogInv => RunIsAuthorized
  <2> SUFFICES ASSUME LogInv, NEW c \in Call, NEW i \in Intent,
                      phase[c] # "lost", status[c][i] # "pending"
               PROVE  /\ c \in DOMAIN graph.nodes
                      /\ graph.nodes[c].intent = i
                      /\ graph.nodes[c].actor = sent[c].worker
                      /\ graph.nodes[c].authorization = "delegated"
                      /\ sent[c].kind # "irreversible"
    BY DEF RunIsAuthorized
  <2>1. /\ phase[c] \in {"executing", "answered"} /\ i = sent[c].intent
        /\ ~RequiresApproval(sent[c])
    BY DEF LogInv, OnlyPermittedRuns
  <2>2. c \in DOMAIN graph.nodes BY <2>1 DEF LogInv, NodeIsThere
  <2>3. IsNodeOf(graph.nodes[c], sent[c]) BY <2>2 DEF LogInv, GraphOfCalls
  <2> QED BY <2>1, <2>2, <2>3 DEF IsNodeOf, RequiresApproval
<1> QED BY <1>1, LogInvariant, PTL

\* AnswerMatchesLog: the answer and the node were made of one classification.
THEOREM AnswersAgree == DispatchSpec => []AnswerMatchesLog
<1>1. LogInv => AnswerMatchesLog
  BY DEF LogInv, AnswersOfTheGate, GraphOfCalls, IsNodeOf, AnswerMatchesLog, DispatchTypeOK
<1> QED BY <1>1, LogInvariant, PTL

\* SavedIsKept: a restart gives back all that was saved.
THEOREM Kept == DispatchSpec => []SavedIsKept
<1>1. LogInv => SavedIsKept BY DEF LogInv
<1> QED BY <1>1, LogInvariant, PTL

\* DecisionsStand: the steps that change the graph are record(), the user's
\* decisions and the load of a restart; the first two keep what is there.
THEOREM Stand == DispatchSpec => DecisionsStand
<1>1. LogInv /\ [DispatchNext]_dispatchVars => [graph' # Loaded(graph, saved) => KeptIn(graph, graph')]_graph
  <2> SUFFICES ASSUME LogInv, [DispatchNext]_dispatchVars, graph' # graph, graph' # Loaded(graph, saved)
               PROVE  KeptIn(graph, graph')
    OBVIOUS
  <2>1. ASSUME NEW c \in Call, Record(c) PROVE KeptIn(graph, graph')
    <3>1. c \notin DOMAIN graph.nodes BY <2>1 DEF LogInv, GraphOfCalls, Record
    <3> QED BY <2>1, <3>1, RecordFacts DEF Record
  <2>2. ASSUME NEW c \in Call, NEW d \in Decisions, UserDecides(c, d)
        PROVE  KeptIn(graph, graph')
    BY <2>2, DecideFacts DEF UserDecides
  <2>3. ASSUME NEW c \in Call,
               Dispatch(c) \/ RouteToExecutor(c) \/ RouteToUser(c)
                 \/ RunStep(c) \/ ExecutorThrows(c) \/ Return(c)
        PROVE  FALSE
    BY <2>3 DEF Dispatch, RouteToExecutor, RouteToUser, RunStep, ExecutorThrows,
                Return, StoreIdle
  <2>4. ~Save /\ ~Restart BY DEF Save, Restart
  <2>5. ~UNCHANGED dispatchVars BY DEF dispatchVars
  <2> QED BY <2>1, <2>2, <2>3, <2>4, <2>5 DEF DispatchNext
<1> QED BY <1>1, LogInvariant, PTL DEF DispatchSpec, DecisionsStand

-----------------------------------------------------------------------------
\* The indexes are lists of calls.
IndexType(g) ==
  /\ \A e \in DOMAIN g.byEntity : g.byEntity[e] \in Seq(Call)
  /\ \A a \in DOMAIN g.byActor : g.byActor[a] \in Seq(Call)

IndexInv == \A g \in {graph, saved} : IndexType(g) /\ IndexesAgreeIn(g)

LEMMA AppendToListing ==
  ASSUME NEW S, NEW list \in Seq(S), NEW ids, Lists(list, ids), NEW c \in S, c \notin ids
  PROVE  /\ Append(list, c) \in Seq(S)
         /\ Lists(Append(list, c), ids \cup {c})
         /\ \A x, y : Precedes(Append(list, c), x, y) <=> Precedes(list, x, y) \/ (x \in ids /\ y = c)
<1> DEFINE longer == Append(list, c)
<1>1. /\ longer \in Seq(S) /\ Len(longer) = Len(list) + 1
      /\ DOMAIN list = 1..Len(list) /\ DOMAIN longer = 1..(Len(list) + 1)
      /\ \A i \in DOMAIN list : longer[i] = list[i]
      /\ longer[Len(list) + 1] = c
      /\ Len(list) \in Nat
  OBVIOUS
<1>2. /\ \A i, j \in DOMAIN list : list[i] = list[j] => i = j
      /\ \A i \in DOMAIN list : list[i] \in ids
      /\ \A x \in ids : \E i \in DOMAIN list : x = list[i]
  BY DEF Lists, IsInjective, ToSet
<1> HIDE DEF longer
<1>3. \A i, j \in DOMAIN longer : longer[i] = longer[j] => i = j
  BY <1>1, <1>2
<1>4. {longer[i] : i \in DOMAIN longer} = ids \cup {c}
  BY <1>1, <1>2
<1>5. Lists(longer, ids \cup {c})
  BY <1>3, <1>4 DEF Lists, IsInjective, ToSet
<1>6. ASSUME NEW x, NEW y
      PROVE  Precedes(longer, x, y) <=> Precedes(list, x, y) \/ (x \in ids /\ y = c)
  <2>1. ASSUME Precedes(longer, x, y)
        PROVE  Precedes(list, x, y) \/ (x \in ids /\ y = c)
    <3>1. PICK m, n \in DOMAIN longer : m < n /\ longer[m] = x /\ longer[n] = y
      BY <2>1 DEF Precedes
    <3>2. m \in DOMAIN list BY <1>1, <3>1
    <3>3. CASE n \in DOMAIN list BY <1>1, <3>1, <3>2, <3>3 DEF Precedes
    <3>4. CASE n = Len(list) + 1 BY <1>1, <1>2, <3>1, <3>2, <3>4
    <3> QED BY <1>1, <3>3, <3>4
  <2>2. ASSUME Precedes(list, x, y) PROVE Precedes(longer, x, y)
    BY <1>1, <2>2 DEF Precedes
  <2>3. ASSUME x \in ids, y = c PROVE Precedes(longer, x, y)
    <3>1. PICK i \in DOMAIN list : x = list[i] BY <1>2, <2>3
    <3>2. /\ i \in DOMAIN longer /\ Len(list) + 1 \in DOMAIN longer /\ i < Len(list) + 1
          /\ longer[i] = x /\ longer[Len(list) + 1] = y
      BY <1>1, <2>3, <3>1
    <3> QED BY <3>2 DEF Precedes
  <2> QED BY <2>1, <2>2, <2>3
<1> QED BY <1>1, <1>5, <1>6 DEF longer

\* An empty list lists nothing.
LEMMA EmptyListing ==
  ASSUME NEW S
  PROVE  <<>> \in Seq(S) /\ Lists(<<>>, {})
<1>1. DOMAIN <<>> = {} OBVIOUS
<1> QED BY <1>1 DEF Lists, IsInjective, ToSet

\* The index lists the nodes of g by one of their fields.
ListsBy(index, g, field) ==
  /\ \A k \in DOMAIN index : index[k] \in Seq(Call) /\ Lists(index[k], NodesWith(g, field, k))
  /\ \A id \in DOMAIN g.nodes : g.nodes[id][field] \in DOMAIN index

\* h has one node more than g, that of c.
AddsNode(g, h, c) ==
  /\ c \notin DOMAIN g.nodes
  /\ DOMAIN h.nodes = DOMAIN g.nodes \cup {c}
  /\ \A id \in DOMAIN g.nodes : h.nodes[id] = g.nodes[id]

\* The longer index has c behind the ids of the key, and is otherwise as it was.
PutsLast(index, longer, key, ids, c) ==
  /\ DOMAIN longer = DOMAIN index \cup {key}
  /\ \A k \in DOMAIN index : \A x, y : Precedes(index[k], x, y) => Precedes(longer[k], x, y)
  /\ \A k \in DOMAIN longer : \A x, y : Precedes(longer[k], x, y) =>
       \/ k \in DOMAIN index /\ Precedes(index[k], x, y)
       \/ k = key /\ x \in ids /\ y = c
  /\ \A x \in ids : Precedes(longer[key], x, c)

\* PushTo keeps an index a listing of the nodes by one of their fields when the
\* id is that of a node just added, and puts it behind those that are there.
LEMMA PushKeepsListing ==
  ASSUME NEW g, NEW h, NEW c \in Call, AddsNode(g, h, c),
         NEW field, NEW key, key = h.nodes[c][field],
         NEW index, ListsBy(index, g, field),
         NEW longer, longer = PushTo(index, key, c)
  PROVE  ListsBy(longer, h, field) /\ PutsLast(index, longer, key, NodesWith(g, field, key), c)
<1> USE DEF AddsNode, ListsBy
<1> DEFINE old == IF key \in DOMAIN index THEN index[key] ELSE <<>>
           here == NodesWith(g, field, key)
<1>1. old \in Seq(Call) /\ Lists(old, here)
  <2>1. CASE key \in DOMAIN index BY <2>1
  <2>2. CASE key \notin DOMAIN index
    <3>1. here = {} BY <2>2 DEF NodesWith
    <3> QED BY <2>2, <3>1, EmptyListing
  <2> QED BY <2>1, <2>2
<1>2. c \notin here BY DEF NodesWith
<1>3. /\ Append(old, c) \in Seq(Call)
      /\ Lists(Append(old, c), here \cup {c})
      /\ \A x, y : Precedes(Append(old, c), x, y) <=> Precedes(old, x, y) \/ (x \in here /\ y = c)
  <2> HIDE DEF old, here, AddsNode, ListsBy
  <2> QED BY <1>1, <1>2, AppendToListing
<1>4. /\ DOMAIN longer = DOMAIN index \cup {key}
      /\ longer[key] = Append(old, c)
      /\ \A k \in DOMAIN index : k # key => longer[k] = index[k]
  BY DEF PushTo, Put
<1>5. NodesWith(h, field, key) = here \cup {c}
  BY DEF NodesWith
<1>6. \A k : k # key => NodesWith(h, field, k) = NodesWith(g, field, k)
  BY DEF NodesWith
<1>7. key \in DOMAIN index => old = index[key] OBVIOUS
<1>8. key \notin DOMAIN index => \A x, y : ~Precedes(old, x, y)
  <2>1. DOMAIN <<>> = {} OBVIOUS
  <2> QED BY <2>1 DEF Precedes
<1>9. here = NodesWith(g, field, key) OBVIOUS
<1> HIDE DEF old, here
<1>10. \A k \in DOMAIN longer : longer[k] \in Seq(Call) /\ Lists(longer[k], NodesWith(h, field, k))
  BY <1>3, <1>4, <1>5, <1>6
<1>11. ASSUME NEW k \in DOMAIN index, NEW x, NEW y, Precedes(index[k], x, y)
       PROVE  Precedes(longer[k], x, y)
  <2>1. CASE k = key
    <3>1. Precedes(old, x, y) BY <1>7, <1>11, <2>1
    <3> QED BY <1>3, <1>4, <2>1, <3>1
  <2>2. CASE k # key
    <3>1. longer[k] = index[k] BY <1>4, <2>2
    <3> QED BY <1>11, <3>1
  <2> QED BY <2>1, <2>2
<1>12. ASSUME NEW k \in DOMAIN longer, NEW x, NEW y, Precedes(longer[k], x, y)
       PROVE  \/ k \in DOMAIN index /\ Precedes(index[k], x, y)
              \/ k = key /\ y = c /\ x \in NodesWith(g, field, k)
  <2>1. CASE k = key
    <3>1. Precedes(old, x, y) \/ (x \in here /\ y = c) BY <1>3, <1>4, <1>12, <2>1
    <3>2. CASE Precedes(old, x, y)
      <4>1. key \in DOMAIN index BY <1>8, <3>2
      <4>2. old = index[k] BY <1>7, <2>1, <4>1
      <4> QED BY <2>1, <3>2, <4>1, <4>2
    <3> QED BY <1>9, <2>1, <3>1, <3>2
  <2>2. CASE k # key
    <3>1. longer[k] = index[k] /\ k \in DOMAIN index BY <1>4, <2>2
    <3> QED BY <1>12, <3>1
  <2> QED BY <2>1, <2>2
<1>13. ASSUME NEW x \in NodesWith(g, field, key) PROVE Precedes(longer[key], x, c)
  BY <1>3, <1>4, <1>9, <1>13
<1>14. \A id \in DOMAIN h.nodes : h.nodes[id][field] \in DOMAIN longer
  BY <1>4
<1>15. ListsBy(longer, h, field)
  BY <1>10, <1>14 DEF ListsBy
<1>16. PutsLast(index, longer, key, NodesWith(g, field, key), c)
  BY <1>4, <1>11, <1>12, <1>13 DEF PutsLast
<1> QED BY <1>15, <1>16

\* record() keeps the indexes in agreement.
LEMMA RecordAgrees ==
  ASSUME NEW g, IndexType(g), IndexesAgreeIn(g), NEW c \in Call, c \notin DOMAIN g.nodes,
         NEW node, NEW h, h = RecordProvenance(g, c, node)
  PROVE  IndexType(h) /\ IndexesAgreeIn(h)
<1>1. /\ DOMAIN h.nodes = DOMAIN g.nodes \cup {c}
      /\ h.nodes[c] = node
      /\ \A id \in DOMAIN g.nodes : h.nodes[id] = g.nodes[id]
  BY RecordFacts
<1>2. /\ h.byEntity = PushTo(g.byEntity, node.entity, c)
      /\ h.byActor = PushTo(g.byActor, node.actor, c)
      /\ h.byIntent = Put(g.byIntent, node.intent, c)
  BY DEF RecordProvenance
<1>a. AddsNode(g, h, c) BY <1>1 DEF AddsNode
<1>3. /\ ListsBy(h.byEntity, h, "entity")
      /\ PutsLast(g.byEntity, h.byEntity, node.entity, NodesWith(g, "entity", node.entity), c)
  <2>1. ListsBy(g.byEntity, g, "entity")
    BY DEF ListsBy, IndexType, IndexesAgreeIn, IndexesListTheNodes
  <2> QED BY <1>1, <1>2, <1>a, <2>1, PushKeepsListing
<1>4. /\ ListsBy(h.byActor, h, "actor")
      /\ PutsLast(g.byActor, h.byActor, node.actor, NodesWith(g, "actor", node.actor), c)
  <2>1. ListsBy(g.byActor, g, "actor")
    BY DEF ListsBy, IndexType, IndexesAgreeIn, IndexesListTheNodes
  <2> QED BY <1>1, <1>2, <1>a, <2>1, PushKeepsListing
<1>5. /\ DOMAIN h.byIntent = DOMAIN g.byIntent \cup {node.intent}
      /\ h.byIntent[node.intent] = c
      /\ \A i \in DOMAIN g.byIntent : i # node.intent => h.byIntent[i] = g.byIntent[i]
  BY <1>2 DEF Put
<1>6. IndexType(h) BY <1>3, <1>4 DEF IndexType, ListsBy
<1>7. IndexesListTheNodes(h)
  <2>1. \A id \in DOMAIN h.nodes :
          /\ h.nodes[id].entity \in DOMAIN h.byEntity
          /\ h.nodes[id].actor  \in DOMAIN h.byActor
          /\ h.nodes[id].intent \in DOMAIN h.byIntent
    BY <1>1, <1>3, <1>4, <1>5 DEF PutsLast, IndexesAgreeIn, IndexesListTheNodes
  <2>2. \A i \in DOMAIN h.byIntent : h.byIntent[i] \in NodesWith(h, "intent", i)
    BY <1>1, <1>5 DEF IndexesAgreeIn, IndexesListTheNodes, NodesWith
  <2> QED BY <1>3, <1>4, <2>1, <2>2 DEF IndexesListTheNodes, ListsBy
<1>8. SameOrder(h)
  <2> SUFFICES ASSUME NEW e \in DOMAIN h.byEntity, NEW x \in DOMAIN h.nodes, NEW y \in DOMAIN h.nodes,
                      Precedes(h.byEntity[e], x, y)
               PROVE  /\ h.nodes[x].actor = h.nodes[y].actor =>
                           Precedes(h.byActor[h.nodes[y].actor], x, y)
                      /\ h.nodes[x].intent = h.nodes[y].intent =>
                           h.byIntent[h.nodes[y].intent] # x
    BY DEF SameOrder
  <2>1. CASE e \in DOMAIN g.byEntity /\ Precedes(g.byEntity[e], x, y)
    <3>1. \A i \in DOMAIN g.byEntity[e] : g.byEntity[e][i] \in DOMAIN g.nodes
      BY <2>1 DEF IndexesAgreeIn, IndexesListTheNodes, Lists, ToSet, NodesWith
    <3>2. x \in DOMAIN g.nodes /\ y \in DOMAIN g.nodes
      BY <2>1, <3>1 DEF Precedes
    <3>3. /\ g.nodes[x].actor = g.nodes[y].actor => Precedes(g.byActor[g.nodes[y].actor], x, y)
          /\ g.nodes[x].intent = g.nodes[y].intent => g.byIntent[g.nodes[y].intent] # x
          /\ g.nodes[y].actor \in DOMAIN g.byActor
          /\ g.nodes[y].intent \in DOMAIN g.byIntent
      BY <2>1, <3>2 DEF IndexesAgreeIn, SameOrder, IndexesListTheNodes
    <3> QED BY <1>1, <1>4, <1>5, <3>2, <3>3 DEF PutsLast
  <2>2. CASE y = c /\ x \in NodesWith(g, "entity", e)
    <3>1. x \in DOMAIN g.nodes /\ x # c BY <2>2 DEF NodesWith
    <3>2. node.actor = h.nodes[x].actor => x \in NodesWith(g, "actor", node.actor)
      BY <1>1, <3>1 DEF NodesWith
    <3> QED BY <1>1, <1>4, <1>5, <2>2, <3>1, <3>2 DEF PutsLast
  <2>3. \/ e \in DOMAIN g.byEntity /\ Precedes(g.byEntity[e], x, y)
        \/ y = c /\ x \in NodesWith(g, "entity", e)
    BY <1>3 DEF PutsLast
  <2> QED BY <2>1, <2>2, <2>3
<1> QED BY <1>6, <1>7, <1>8 DEF IndexesAgreeIn

\* A decision touches nothing the indexes are about.
LEMMA DecideAgrees ==
  ASSUME NEW g, GraphType(g), IndexType(g), IndexesAgreeIn(g),
         NEW c, NEW d \in Decisions, IsPending(g, c), NEW h, h = Decide(g, c, d)
  PROVE  IndexType(h) /\ IndexesAgreeIn(h)
<1>1. /\ DOMAIN h.nodes = DOMAIN g.nodes
      /\ h.nodes[c] = [g.nodes[c] EXCEPT !.authorization = d]
      /\ \A id \in DOMAIN g.nodes : id # c => h.nodes[id] = g.nodes[id]
  BY DecideFacts
<1>2. h.byEntity = g.byEntity /\ h.byIntent = g.byIntent /\ h.byActor = g.byActor
  BY DEF Decide
<1>3. \A id \in DOMAIN g.nodes : /\ h.nodes[id].entity = g.nodes[id].entity
                                 /\ h.nodes[id].actor = g.nodes[id].actor
                                 /\ h.nodes[id].intent = g.nodes[id].intent
  <2>1. g.nodes[c] \in NodeType BY DEF IsPending, GraphType
  <2> QED BY <1>1, <2>1 DEF NodeType
<1>4. \A v : /\ NodesWith(h, "entity", v) = NodesWith(g, "entity", v)
             /\ NodesWith(h, "actor", v) = NodesWith(g, "actor", v)
             /\ NodesWith(h, "intent", v) = NodesWith(g, "intent", v)
  BY <1>1, <1>3 DEF NodesWith
<1>5. IndexType(h) BY <1>2 DEF IndexType
<1>6. IndexesListTheNodes(h)
  BY <1>1, <1>2, <1>3, <1>4 DEF IndexesAgreeIn, IndexesListTheNodes
<1>7. SameOrder(h) BY <1>1, <1>2, <1>3 DEF IndexesAgreeIn, SameOrder
<1> QED BY <1>5, <1>6, <1>7 DEF IndexesAgreeIn

\* The indexes of the empty graph agree.
LEMMA EmptyAgrees == IndexType(EmptyGraph) /\ IndexesAgreeIn(EmptyGraph)
<1>1. DOMAIN <<>> = {} OBVIOUS
<1> QED BY <1>1 DEF EmptyGraph, IndexType, IndexesAgreeIn, IndexesListTheNodes, SameOrder

\* IndexesAgree: the four maps are in step at all times, in whatever order the
\* nodes are recorded, and so are those of the file a restart loads.
THEOREM Indexed == DispatchSpec => []IndexesAgree
<1>1. DispatchInit => IndexInv BY EmptyAgrees DEF DispatchInit, IndexInv
<1>2. LogInv /\ IndexInv /\ [DispatchNext]_dispatchVars => IndexInv'
  <2> SUFFICES ASSUME LogInv, IndexInv, [DispatchNext]_dispatchVars PROVE IndexInv' OBVIOUS
  <2>1. CASE UNCHANGED <<graph, saved>> BY <2>1 DEF IndexInv, IndexType
  <2>2. ASSUME NEW c \in Call, Record(c) PROVE IndexInv'
    <3>1. c \notin DOMAIN graph.nodes BY <2>2 DEF LogInv, GraphOfCalls, Record
    <3>2. graph' = RecordProvenance(graph, c, NodeFor(sent[c])) /\ saved' = saved
      BY <2>2 DEF Record
    <3>3. /\ IndexType(graph) /\ IndexesAgreeIn(graph)
          /\ IndexType(saved) /\ IndexesAgreeIn(saved)
      BY DEF IndexInv
    <3>4. IndexType(graph') /\ IndexesAgreeIn(graph')
      BY <3>1, <3>2, <3>3, RecordAgrees
    <3> QED BY <3>2, <3>3, <3>4 DEF IndexInv, IndexType
  <2>3. ASSUME NEW c \in Call, NEW d \in Decisions, UserDecides(c, d) PROVE IndexInv'
    <3>1. IsPending(graph, c) /\ graph' = Decide(graph, c, d) /\ saved' = saved
      BY <2>3 DEF UserDecides
    <3>2. /\ IndexType(graph) /\ IndexesAgreeIn(graph)
          /\ IndexType(saved) /\ IndexesAgreeIn(saved)
          /\ GraphType(graph)
      BY DEF IndexInv, LogInv, DispatchTypeOK, GraphType
    <3>3. IndexType(graph') /\ IndexesAgreeIn(graph')
      BY <3>1, <3>2, DecideAgrees
    <3> QED BY <3>1, <3>2, <3>3 DEF IndexInv, IndexType
  <2>4. CASE Save \/ Restart
    <3>1. \A g \in {graph', saved'} : g \in {graph, saved}
      BY <2>4 DEF Save, Restart, Loaded
    <3> QED BY <3>1 DEF IndexInv, IndexType
  <2>5. ASSUME NEW c \in Call,
               Dispatch(c) \/ RouteToExecutor(c) \/ RouteToUser(c)
                 \/ RunStep(c) \/ ExecutorThrows(c) \/ Return(c)
        PROVE  UNCHANGED <<graph, saved>>
    BY <2>5 DEF Dispatch, RouteToExecutor, RouteToUser, RunStep, ExecutorThrows,
                Return, StoreIdle
  <2>6. CASE UNCHANGED dispatchVars BY <2>1, <2>6 DEF dispatchVars
  <2> QED BY <2>1, <2>2, <2>3, <2>4, <2>5, <2>6 DEF DispatchNext
<1>3. IndexInv => IndexesAgree BY DEF IndexInv, IndexesAgree
<1> QED BY <1>1, <1>2, <1>3, LogInvariant, PTL DEF DispatchSpec

=============================================================================
