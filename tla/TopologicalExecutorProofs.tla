--------------------- MODULE TopologicalExecutorProofs ---------------------
(***************************************************************************)
(* Proofs about TopologicalExecutor, for every number of concurrent calls, *)
(* every plan (a DAG or not), every retry limit and breaker option, with   *)
(* callbacks that throw or not.                                            *)
(***************************************************************************)
EXTENDS TopologicalExecutor, TLAPS

-----------------------------------------------------------------------------
(* Types                                                                   *)

LEMMA BreakerType ==
  ASSUME NEW b \in Breaker
  PROVE  /\ NewBreaker \in Breaker
         /\ AfterAllow(b) \in Breaker
         /\ AfterSuccess(b) \in Breaker
         /\ AfterFailure(b) \in Breaker
         /\ AfterCooldown(b) \in Breaker
  <1>1. NewBreaker \in Breaker
    BY DEF NewBreaker, Breaker, CircuitState
  <1>2. AfterAllow(b) \in Breaker
    BY DEF AfterAllow, Breaker, CircuitState
  <1>3. AfterSuccess(b) \in Breaker
    BY DEF AfterSuccess, Breaker, CircuitState
  <1>4. AfterFailure(b) \in Breaker
    BY DEF AfterFailure, Breaker, CircuitState
  <1>5. AfterCooldown(b) \in Breaker
    BY DEF AfterCooldown, Breaker
  <1>6. QED
    BY <1>1, <1>2, <1>3, <1>4, <1>5

LEMMA PlanType ==
  ASSUME TypeOK, NEW r \in Run
  PROVE  /\ Steps(r) \subseteq Step
         /\ \A s \in Step : ToolOf(r, s) \in Tool
         /\ \A s \in Step : plan[r].deps[s] \subseteq Step
         /\ \A ph : Ready(r, ph) \subseteq Step
  <1>1. plan[r] \in Plans
    BY ExecutorAssumption DEF TypeOK
  <1>2. QED
    BY <1>1 DEF Plans, Steps, ToolOf, Ready

\* The part of the loop that a handler runs keeps the types.
LEMMA LoopType ==
  ASSUME TypeOK, NEW r \in Run, NEW ph, Loop(r, ph)
  PROVE  pc' \in [Run -> Controls] /\ batch' \in [Run -> SUBSET Step]
  <1>1. Ready(r, ph) \in SUBSET Step
    BY PlanType
  <1>2. /\ pc \in [Run -> Controls] /\ batch \in [Run -> SUBSET Step]
        /\ "returned" \in Controls /\ "running" \in Controls
    BY DEF TypeOK, Controls
  <1>3. QED
    BY <1>1, <1>2 DEF Loop

LEMMA ReportType ==
  ASSUME TypeOK, NEW r \in Run, NEW s \in Step, NEW res \in Results,
         NEW b2 \in Breaker, Report(r, s, res, b2)
  PROVE  TypeOK'
  <1>1. ToolOf(r, s) \in Tool
    BY PlanType
  <1>2. /\ phase' \in [Run -> [Step -> Phases]]
        /\ result' \in [Run -> [Step -> Results]]
    BY DEF Report, Settle, TypeOK, Phases
  <1>3. breaker' \in [Tool -> Breaker]
    BY <1>1 DEF Report, TypeOK
  <1>4. grant' \in [Run -> [Step -> Grants]]
    <2>1. CASE grant[r][s] \in Live
      <3>1. \A g \in Grants, b \in Breaker : Aged(g, b, b2) \in Grants
        BY DEF Aged, Grants
      <3>2. \A q \in Run, u \in Step : grant[q][u] \in Grants
        BY DEF TypeOK
      <3>3. breaker[ToolOf(r, s)] \in Breaker
        BY <1>1 DEF TypeOK
      <3>4. "done" \in Grants
        BY DEF Grants
      <3>5. GrantsAfter(r, s, b2) \in [Run -> [Step -> Grants]]
        BY <3>1, <3>2, <3>3, <3>4 DEF GrantsAfter
      <3>6. grant' = GrantsAfter(r, s, b2)
        BY <2>1 DEF Report
      <3>7. QED
        BY <3>5, <3>6
    <2>2. CASE grant[r][s] \notin Live
      <3>1. grant' = [grant EXCEPT ![r][s] = "done"]
        BY <2>2 DEF Report
      <3>2. QED
        BY <3>1 DEF TypeOK, Grants
    <2>3. QED
      BY <2>1, <2>2
  <1>5. UNCHANGED <<plan, pc, batch, attempt>>
    BY DEF Report
  <1>6. QED
    BY <1>2, <1>3, <1>4, <1>5 DEF TypeOK

LEMMA RunStepType ==
  ASSUME TypeOK, NEW r \in Run, NEW s \in Step, RunStep(r, s)
  PROVE  TypeOK'
  <1>1. ToolOf(r, s) \in Tool /\ breaker[ToolOf(r, s)] \in Breaker
    BY PlanType DEF TypeOK
  <1>2. CASE Launch(r, s)
    <2>1. GrantOf(breaker[ToolOf(r, s)]) \in Grants
      BY DEF GrantOf, Grants
    <2>2. AfterAllow(breaker[ToolOf(r, s)]) \in Breaker
      BY <1>1, BreakerType
    <2>3. QED
      BY <1>1, <1>2, <2>1, <2>2 DEF Launch, NextInBatch, TypeOK, Phases
  <1>3. CASE Trip(r, s)
    BY <1>3 DEF Trip, NextInBatch, Settle, TypeOK, Phases, Results, Grants
  <1>4. CASE StartThrows(r, s)
    BY <1>4 DEF StartThrows, Settle, TypeOK, Phases, Results, Grants
  <1>5. CASE CallTool(r, s)
    BY <1>5 DEF CallTool, TypeOK, Phases
  <1>6. CASE CannotCall(r, s)
    BY <1>1, <1>6, BreakerType, ReportType DEF CannotCall, Results
  <1>7. CASE ToolSucceeds(r, s)
    BY <1>1, <1>7, BreakerType, ReportType DEF ToolSucceeds, Results
  <1>8. CASE ToolFails(r, s)
    BY <1>1, <1>8, BreakerType, ReportType DEF ToolFails, Results
  <1>9. CASE ToolFailsForNow(r, s)
    BY <1>9, ExecutorAssumption DEF ToolFailsForNow, TypeOK, Phases
  <1>10. QED
    BY <1>2, <1>3, <1>4, <1>5, <1>6, <1>7, <1>8, <1>9 DEF RunStep

LEMMA TypeStep ==
  ASSUME TypeOK, [Next]_vars
  PROVE  TypeOK'
  <1>1. ASSUME NEW r \in Run, Execute(r) PROVE TypeOK'
    BY <1>1, LoopType DEF Execute, TypeOK
  <1>2. ASSUME NEW r \in Run, NEW s \in Step, Collect(r, s) PROVE TypeOK'
    <2>1. phase' \in [Run -> [Step -> Phases]]
      BY <1>2 DEF Collect, TypeOK, Phases
    <2>2. QED
      BY <1>2, <2>1, LoopType DEF Collect, TypeOK
  <1>3. ASSUME NEW r \in Run, NEW s \in Step, Reject(r, s) PROVE TypeOK'
    BY <1>3 DEF Reject, TypeOK, Controls
  <1>4. ASSUME NEW r \in Run, NEW s \in Step, RunStep(r, s) PROVE TypeOK'
    BY <1>4, RunStepType
  <1>5. ASSUME NEW t \in Tool, Cooldown(t) PROVE TypeOK'
    BY <1>5, BreakerType DEF Cooldown, TypeOK
  <1>6. CASE ResetCircuitBreakers
    BY <1>6, BreakerType
       DEF ResetCircuitBreakers, TypeOK, Dropped, Grants, Breaker, NewBreaker,
           CircuitState
  <1>7. CASE UNCHANGED vars
    BY <1>7 DEF vars, TypeOK
  <1>8. QED
    BY <1>1, <1>2, <1>3, <1>4, <1>5, <1>6, <1>7 DEF Next

\* Every value of the variables has its type; in particular no step makes
\* more than MaxRetries + 1 attempts.
THEOREM TypeCorrect == Spec => []TypeOK
  <1>1. Init => TypeOK
    BY BreakerType, ExecutorAssumption
       DEF Init, TypeOK, Controls, Phases, Results, Grants, NewBreaker, Breaker,
           CircuitState
  <1>2. QED
    BY <1>1, TypeStep, PTL DEF Spec

-----------------------------------------------------------------------------
(* What the actions do to the loop.  As far as plan, pc, batch, phase and  *)
(* result go, every step of the executor is one of the following.          *)

\* A step leaves the batch and starts, or fails fast.
LeavesBatch(r, s) ==
  /\ s \in batch[r]
  /\ batch' = [batch EXCEPT ![r] = @ \ {s}]
  /\ \E p \in {"attempting", "settled"} : phase' = [phase EXCEPT ![r][s] = p]
  /\ \E x \in Results : result' = [result EXCEPT ![r][s] = x]
  /\ UNCHANGED <<plan, pc>>

\* A step that runs goes on, or settles.
GoesOn(r, s) ==
  /\ phase[r][s] \in {"attempting", "calling", "sleeping"}
  /\ \E p \in {"calling", "sleeping", "settled"} :
       phase' = [phase EXCEPT ![r][s] = p]
  /\ \E x \in Results : result' = [result EXCEPT ![r][s] = x]
  /\ UNCHANGED <<plan, pc, batch>>

\* The loop does not move.
LoopRests == UNCHANGED <<plan, pc, batch, phase, result>>

LEMMA RunStepMoves ==
  ASSUME TypeOK, NEW r \in Run, NEW s \in Step, RunStep(r, s)
  PROVE  LeavesBatch(r, s) \/ GoesOn(r, s)
  <1>1. result[r][s] \in Results /\ result = [result EXCEPT ![r][s] = result[r][s]]
    BY DEF TypeOK
  <1>2. CASE Launch(r, s)
    BY <1>1, <1>2 DEF Launch, NextInBatch, LeavesBatch
  <1>3. CASE Trip(r, s)
    BY <1>3 DEF Trip, NextInBatch, Settle, LeavesBatch, Results
  <1>4. CASE StartThrows(r, s)
    BY <1>4 DEF StartThrows, Settle, GoesOn, Results
  <1>5. CASE CallTool(r, s)
    BY <1>1, <1>5 DEF CallTool, AttemptBegins, GoesOn
  <1>6. CASE CannotCall(r, s)
    BY <1>6 DEF CannotCall, AttemptBegins, Report, Settle, GoesOn, Results
  <1>7. CASE ToolSucceeds(r, s)
    BY <1>7 DEF ToolSucceeds, Report, Settle, GoesOn, Results
  <1>8. CASE ToolFails(r, s)
    BY <1>8 DEF ToolFails, Report, Settle, GoesOn, Results
  <1>9. CASE ToolFailsForNow(r, s)
    BY <1>1, <1>9 DEF ToolFailsForNow, GoesOn
  <1>10. QED
    BY <1>2, <1>3, <1>4, <1>5, <1>6, <1>7, <1>8, <1>9 DEF RunStep

LEMMA EveryMove ==
  ASSUME TypeOK, [Next]_vars
  PROVE  \/ \E r \in Run : Execute(r)
         \/ \E r \in Run, s \in Step : \/ Collect(r, s) \/ Reject(r, s)
                                       \/ LeavesBatch(r, s) \/ GoesOn(r, s)
         \/ LoopRests
  <1>1. ASSUME NEW t \in Tool, Cooldown(t) PROVE LoopRests
    BY <1>1 DEF Cooldown, LoopRests
  <1>2. ResetCircuitBreakers \/ UNCHANGED vars => LoopRests
    BY DEF ResetCircuitBreakers, vars, LoopRests
  <1>3. QED
    BY <1>1, <1>2, RunStepMoves DEF Next

-----------------------------------------------------------------------------
(* Collected steps stay collected, so what is satisfied stays satisfied.   *)

Kept ==
  /\ plan' = plan
  /\ \A q \in Run, u \in Step :
       phase[q][u] = "collected" =>
         phase'[q][u] = "collected" /\ result'[q][u] = result[q][u]

LEMMA SatisfiedStays ==
  ASSUME TypeOK, Kept, NEW q \in Run, NEW u \in Step,
         Satisfied(q, u, phase[q])
  PROVE  Satisfied(q, u, phase[q])'
  <1>1. plan'[q] = plan[q] /\ Steps(q) \subseteq Step /\ plan[q].deps[u] \subseteq Step
    BY PlanType DEF Kept
  <1>2. QED
    BY <1>1 DEF Kept, Satisfied, Completed, Failed, Steps

LEMMA NextKeeps ==
  ASSUME TypeOK, [Next]_vars,
         \A r \in Run : \A s \in batch[r] : phase[r][s] = "waiting"
  PROVE  Kept
  <1>1. ASSUME NEW r \in Run, Execute(r) PROVE Kept
    BY <1>1 DEF Execute, Kept
  <1>2. ASSUME NEW r \in Run, NEW s \in Step, Collect(r, s) PROVE Kept
    BY <1>2 DEF Collect, Kept, TypeOK
  <1>3. ASSUME NEW r \in Run, NEW s \in Step, Reject(r, s) PROVE Kept
    BY <1>3 DEF Reject, Kept
  <1>4. ASSUME NEW r \in Run, NEW s \in Step, LeavesBatch(r, s) PROVE Kept
    BY <1>4 DEF LeavesBatch, Kept, TypeOK
  <1>5. ASSUME NEW r \in Run, NEW s \in Step, GoesOn(r, s) PROVE Kept
    BY <1>5 DEF GoesOn, Kept, TypeOK
  <1>6. CASE LoopRests
    BY <1>6 DEF LoopRests, Kept
  <1>7. QED
    BY <1>1, <1>2, <1>3, <1>4, <1>5, <1>6, EveryMove

-----------------------------------------------------------------------------
(* The inductive invariant                                                 *)

\* A batch holds steps of the plan that were not launched.
BatchWaits ==
  \A r \in Run : \A s \in batch[r] : s \in Steps(r) /\ phase[r][s] = "waiting"

\* Only a running call launches.
OnlyRunningLaunches ==
  \A r \in Run : pc[r] # "running" =>
    batch[r] = {} /\ \A s \in Step : phase[r][s] # "attempting"

\* A call that returned has nothing in flight and nothing ready: the loop
\* was left with NothingLeft, and what was not ready then never is.
ReturnedIsOver ==
  \A r \in Run : pc[r] = "returned" => NothingLeft(r, phase[r])

LoopInv ==
  /\ TypeOK
  /\ BatchWaits
  /\ OnlyRunningLaunches
  /\ DependencyOrder
  /\ ReturnedIsOver

LEMMA LoopInvInit == Init => LoopInv
  <1> SUFFICES ASSUME Init PROVE LoopInv
    OBVIOUS
  <1>1. TypeOK
    BY BreakerType, ExecutorAssumption
       DEF Init, TypeOK, Controls, Phases, Results, Grants, NewBreaker, Breaker,
           CircuitState
  <1>2. BatchWaits /\ OnlyRunningLaunches /\ ReturnedIsOver
    BY DEF Init, BatchWaits, OnlyRunningLaunches, ReturnedIsOver
  <1>3. DependencyOrder
    BY <1>1, PlanType DEF Init, DependencyOrder
  <1>4. QED
    BY <1>1, <1>2, <1>3 DEF LoopInv

\* The loop moves one call and leaves the others alone.
LEMMA OthersRest ==
  ASSUME TypeOK, NEW r \in Run, NEW s \in Step,
         Execute(r) \/ Collect(r, s) \/ Reject(r, s) \/ LeavesBatch(r, s)
           \/ GoesOn(r, s),
         NEW q \in Run, q # r
  PROVE  /\ pc'[q] = pc[q] /\ batch'[q] = batch[q]
         /\ phase'[q] = phase[q] /\ result'[q] = result[q]
         /\ plan' = plan
  <1>1. CASE Execute(r)
    BY <1>1 DEF Execute, Loop, TypeOK
  <1>2. CASE Collect(r, s)
    BY <1>2 DEF Collect, Loop, TypeOK
  <1>3. CASE Reject(r, s)
    BY <1>3 DEF Reject, TypeOK
  <1>4. CASE LeavesBatch(r, s)
    BY <1>4 DEF LeavesBatch, TypeOK
  <1>5. CASE GoesOn(r, s)
    BY <1>5 DEF GoesOn, TypeOK
  <1>6. QED
    BY <1>1, <1>2, <1>3, <1>4, <1>5

LEMMA BatchWaitsStep ==
  ASSUME LoopInv, [Next]_vars
  PROVE  BatchWaits'
  <1> USE DEF LoopInv, BatchWaits
  <1>1. ASSUME NEW r \in Run, Execute(r) PROVE BatchWaits'
    <2>1. /\ UNCHANGED <<plan, phase>> /\ batch \in [Run -> SUBSET Step]
          /\ batch' = batch \/ batch' = [batch EXCEPT ![r] = Ready(r, phase[r])]
      BY <1>1 DEF Execute, Loop, TypeOK
    <2>2. QED
      BY <2>1 DEF Ready, Steps
  <1>2. ASSUME NEW r \in Run, NEW s \in Step, Collect(r, s) PROVE BatchWaits'
    BY <1>2 DEF Collect, Loop, Ready, Steps, TypeOK
  <1>3. ASSUME NEW r \in Run, NEW s \in Step, Reject(r, s) PROVE BatchWaits'
    BY <1>3 DEF Reject, Steps
  <1>4. ASSUME NEW r \in Run, NEW s \in Step, LeavesBatch(r, s) PROVE BatchWaits'
    BY <1>4 DEF LeavesBatch, Steps, TypeOK
  <1>5. ASSUME NEW r \in Run, NEW s \in Step, GoesOn(r, s) PROVE BatchWaits'
    BY <1>5 DEF GoesOn, Steps, TypeOK
  <1>6. CASE LoopRests
    BY <1>6 DEF LoopRests, Steps
  <1>7. QED
    BY <1>1, <1>2, <1>3, <1>4, <1>5, <1>6, EveryMove

LEMMA OnlyRunningLaunchesStep ==
  ASSUME LoopInv, [Next]_vars
  PROVE  OnlyRunningLaunches'
  <1> USE DEF LoopInv, OnlyRunningLaunches
  <1>1. ASSUME NEW r \in Run, Execute(r) PROVE OnlyRunningLaunches'
    BY <1>1 DEF Execute, Loop, TypeOK
  <1>2. ASSUME NEW r \in Run, NEW s \in Step, Collect(r, s)
        PROVE  OnlyRunningLaunches'
    BY <1>2 DEF Collect, Quiet, Held, Loop, TypeOK
  <1>3. ASSUME NEW r \in Run, NEW s \in Step, Reject(r, s)
        PROVE  OnlyRunningLaunches'
    BY <1>3 DEF Reject, Quiet, Held, TypeOK
  <1>4. ASSUME NEW r \in Run, NEW s \in Step, LeavesBatch(r, s)
        PROVE  OnlyRunningLaunches'
    BY <1>4 DEF LeavesBatch, TypeOK
  <1>5. ASSUME NEW r \in Run, NEW s \in Step, GoesOn(r, s)
        PROVE  OnlyRunningLaunches'
    BY <1>5 DEF GoesOn, TypeOK
  <1>6. CASE LoopRests
    BY <1>6 DEF LoopRests
  <1>7. QED
    BY <1>1, <1>2, <1>3, <1>4, <1>5, <1>6, EveryMove

\* What was begun stays satisfied; what enters a batch was found ready.
LEMMA DependencyOrderStep ==
  ASSUME LoopInv, [Next]_vars
  PROVE  DependencyOrder'
  <1>1. TypeOK /\ Kept /\ plan' = plan
    BY NextKeeps DEF LoopInv, BatchWaits, Kept
  <1> SUFFICES ASSUME NEW q \in Run, NEW u \in Steps(q),
                      u \in batch'[q] \/ phase'[q][u] # "waiting"
               PROVE  Satisfied(q, u, phase[q])'
    BY <1>1 DEF DependencyOrder, Steps
  <1>2. u \in Step
    BY <1>1, PlanType
  <1>3. CASE u \in batch[q] \/ phase[q][u] # "waiting"
    <2>1. Satisfied(q, u, phase[q])
      BY <1>3 DEF LoopInv, DependencyOrder
    <2>2. QED
      BY <1>1, <1>2, <2>1, SatisfiedStays
  <1>4. CASE ~(u \in batch[q] \/ phase[q][u] # "waiting")
    <2>1. CASE Execute(q)
      BY <1>1, <1>2, <1>4, <2>1
         DEF Execute, Loop, Ready, Satisfied, Completed, Failed, Steps, TypeOK
    <2>2. ASSUME NEW s \in Step, Collect(q, s)
          PROVE  Satisfied(q, u, phase[q])'
      <3>1. phase'[q][u] = "waiting"
        BY <1>1, <1>2, <1>4, <2>2 DEF Collect, TypeOK
      <3>2. u \in Ready(q, phase'[q])
        BY <1>1, <1>4, <2>2, <3>1 DEF Collect, Loop, TypeOK
      <3>3. QED
        BY <2>2, <3>2 DEF Collect, Ready, Satisfied, Completed, Failed, Steps
    <2>3. ASSUME NEW s \in Step, Reject(q, s) PROVE FALSE
      BY <1>4, <2>3 DEF Reject
    <2>4. ASSUME NEW s \in Step, LeavesBatch(q, s) PROVE FALSE
      BY <1>1, <1>2, <1>4, <2>4 DEF LeavesBatch, TypeOK
    <2>5. ASSUME NEW s \in Step, GoesOn(q, s) PROVE FALSE
      BY <1>1, <1>2, <1>4, <2>5 DEF GoesOn, TypeOK
    <2>6. ASSUME NEW r \in Run \ {q}, NEW s \in Step,
                 Execute(r) \/ Collect(r, s) \/ Reject(r, s) \/ LeavesBatch(r, s)
                   \/ GoesOn(r, s)
          PROVE  FALSE
      BY <1>1, <1>4, <2>6, OthersRest
    <2>7. CASE LoopRests
      BY <1>4, <2>7 DEF LoopRests
    <2>8. QED
      BY <1>1, <1>2, <2>1, <2>2, <2>3, <2>4, <2>5, <2>6, <2>7, EveryMove
  <1>5. QED
    BY <1>3, <1>4

\* A returned call does not move any more; a call that returns had nothing
\* left, for AllSettled leaves nothing either.
LEMMA ReturnedIsOverStep ==
  ASSUME LoopInv, [Next]_vars
  PROVE  ReturnedIsOver'
  <1>1. TypeOK /\ Kept /\ plan' = plan
    BY NextKeeps DEF LoopInv, BatchWaits, Kept
  <1> SUFFICES ASSUME NEW q \in Run, pc'[q] = "returned"
               PROVE  NothingLeft(q, phase[q])'
    BY DEF ReturnedIsOver
  <1>2. Steps(q) \subseteq Step
    BY <1>1, PlanType
  <1>3. ASSUME NEW ph, AllSettled(q, ph) \/ NothingLeft(q, ph)
        PROVE  NothingLeft(q, ph)
    BY <1>3 DEF AllSettled, NothingLeft, Ready, InFlight
  <1>4. CASE pc[q] = "returned"
    <2>1. /\ NothingLeft(q, phase[q]) /\ batch[q] = {}
      BY <1>4 DEF LoopInv, ReturnedIsOver, OnlyRunningLaunches
    <2>2. \A u \in Steps(q) : phase[q][u] \in {"waiting", "collected"}
      BY <1>1, <1>2, <2>1 DEF NothingLeft, InFlight, TypeOK
    <2>3. \A u \in Steps(q) :
            phase'[q][u] = phase[q][u] /\ result'[q][u] = result[q][u]
      <3>1. ASSUME Execute(q) \/ \E s \in Step : Collect(q, s) \/ Reject(q, s)
            PROVE  FALSE
        BY <1>4, <3>1 DEF Execute, Collect, Reject
      <3>2. ASSUME NEW s \in Step, LeavesBatch(q, s) PROVE FALSE
        BY <2>1, <3>2 DEF LeavesBatch
      <3>3. ASSUME NEW s \in Step, GoesOn(q, s), NEW u \in Steps(q)
            PROVE  phase'[q][u] = phase[q][u] /\ result'[q][u] = result[q][u]
        <4>1. u # s
          BY <2>2, <3>3 DEF GoesOn
        <4>2. QED
          BY <1>1, <1>2, <3>3, <4>1 DEF GoesOn, TypeOK
      <3>4. ASSUME NEW r \in Run \ {q}, NEW s \in Step,
                   Execute(r) \/ Collect(r, s) \/ Reject(r, s)
                     \/ LeavesBatch(r, s) \/ GoesOn(r, s)
            PROVE  phase'[q] = phase[q] /\ result'[q] = result[q]
        BY <1>1, <3>4, OthersRest
      <3>5. CASE LoopRests
        BY <3>5 DEF LoopRests
      <3>6. CASE \E r \in Run : Execute(r)
        BY <3>6, <3>1, <1>1 DEF Execute
      <3>7. CASE \E r \in Run, s \in Step : \/ Collect(r, s) \/ Reject(r, s)
                                            \/ LeavesBatch(r, s) \/ GoesOn(r, s)
        BY <3>7, <3>1, <3>2, <3>3, <3>4
      <3>8. QED
        BY <1>1, <3>5, <3>6, <3>7, EveryMove
    <2>4. QED
      BY <1>1, <2>1, <2>3
         DEF NothingLeft, Ready, Satisfied, Completed, Failed, Steps
  <1>5. CASE pc[q] # "returned"
    <2>1. CASE Execute(q)
      <3>1. NothingLeft(q, phase[q])
        BY <1>1, <1>3, <2>1 DEF Execute, Loop, TypeOK
      <3>2. QED
        BY <2>1, <3>1
           DEF Execute, NothingLeft, Ready, Satisfied, Completed, Failed, Steps
    <2>2. ASSUME NEW s \in Step, Collect(q, s)
          PROVE  NothingLeft(q, phase[q])'
      <3>1. NothingLeft(q, phase'[q])
        BY <1>1, <1>3, <2>2 DEF Collect, Loop, TypeOK
      <3>2. QED
        BY <2>2, <3>1
           DEF Collect, NothingLeft, Ready, Satisfied, Completed, Failed, Steps
    <2>3. ASSUME NEW s \in Step, Reject(q, s) PROVE FALSE
      BY <1>1, <2>3 DEF Reject, TypeOK
    <2>4. ASSUME NEW s \in Step, LeavesBatch(q, s) \/ GoesOn(q, s) PROVE FALSE
      BY <1>5, <2>4 DEF LeavesBatch, GoesOn
    <2>5. ASSUME NEW r \in Run \ {q}, NEW s \in Step,
                 Execute(r) \/ Collect(r, s) \/ Reject(r, s) \/ LeavesBatch(r, s)
                   \/ GoesOn(r, s)
          PROVE  FALSE
      BY <1>1, <1>5, <2>5, OthersRest
    <2>6. CASE LoopRests
      BY <1>5, <2>6 DEF LoopRests
    <2>7. ASSUME NEW r \in Run \ {q}, Execute(r) PROVE FALSE
      BY <1>5, <2>7, <1>1 DEF Execute, Loop, TypeOK
    <2>8. QED
      BY <1>1, <2>1, <2>2, <2>3, <2>4, <2>5, <2>6, <2>7, EveryMove
  <1>6. QED
    BY <1>4, <1>5

THEOREM LoopInvariant == Spec => []LoopInv
  <1>1. LoopInv /\ [Next]_vars => LoopInv'
    <2> SUFFICES ASSUME LoopInv, [Next]_vars PROVE LoopInv'
      OBVIOUS
    <2>1. TypeOK'
      BY TypeStep DEF LoopInv
    <2>2. QED
      BY <2>1, BatchWaitsStep, OnlyRunningLaunchesStep, DependencyOrderStep,
         ReturnedIsOverStep
         DEF LoopInv
  <1>2. QED
    BY <1>1, LoopInvInit, PTL DEF Spec

-----------------------------------------------------------------------------
(* The safety properties                                                   *)

\* Whatever the shape of the plan and however the steps interleave, nothing
\* is begun before what it waits for.
THEOREM Ordered == Spec => []DependencyOrder
  <1>1. LoopInv => DependencyOrder
    BY DEF LoopInv
  <1>2. QED
    BY <1>1, LoopInvariant, PTL

\* A result is final: nothing is in flight any more, and a step that was not
\* run has a dependency to show for it.
THEOREM Final == Spec => []ReturnIsFinal
  <1>1. LoopInv => ReturnIsFinal
    <2> SUFFICES ASSUME LoopInv, NEW r \in Run, pc[r] = "returned",
                        NEW s \in Steps(r), phase[r][s] # "collected"
                 PROVE  /\ phase[r][s] = "waiting"
                        /\ \E d \in plan[r].deps[s] :
                             \/ d \notin Steps(r)
                             \/ phase[r][d] = "waiting"
                             \/ d \in Failed(r, phase[r]) /\ ~plan[r].optional[s]
      BY DEF ReturnIsFinal
    <2>1. TypeOK /\ NothingLeft(r, phase[r]) /\ Steps(r) \subseteq Step
      BY PlanType DEF LoopInv, ReturnedIsOver
    <2>2. \A u \in Steps(r) : phase[r][u] \in {"waiting", "collected"}
      BY <2>1 DEF NothingLeft, InFlight, TypeOK
    <2>3. phase[r][s] = "waiting" /\ ~Satisfied(r, s, phase[r])
      BY <2>1, <2>2 DEF NothingLeft, Ready
    <2>4. QED
      BY <2>2, <2>3 DEF Satisfied, Completed, Failed
  <1>2. QED
    BY <1>1, LoopInvariant, PTL

\* For a DAG, success means that the whole plan was carried out.  The steps
\* that were not run would be a set without a first one.
THEOREM Done == Spec => []SuccessMeansDone
  <1>1. LoopInv => SuccessMeansDone
    <2> SUFFICES ASSUME LoopInv, NEW r \in Run, pc[r] = "returned",
                        IsDAG(plan[r]), Failed(r, phase[r]) = {}
                 PROVE  Completed(r, phase[r]) = Steps(r)
      BY DEF SuccessMeansDone
    <2> DEFINE Unrun == {s \in Steps(r) : phase[r][s] = "waiting"}
    <2>1. TypeOK /\ NothingLeft(r, phase[r]) /\ Steps(r) \subseteq Step
      BY PlanType DEF LoopInv, ReturnedIsOver
    <2>2. \A u \in Steps(r) : phase[r][u] \in {"waiting", "collected"}
      BY <2>1 DEF NothingLeft, InFlight, TypeOK
    <2>3. Steps(r) \ Unrun = Completed(r, phase[r])
      BY <2>2 DEF Completed, Failed
    <2>4. ASSUME Unrun # {} PROVE FALSE
      <3>1. PICK s \in Unrun : plan[r].deps[s] \intersect Unrun = {}
        BY <2>4 DEF IsDAG, Steps
      <3>2. plan[r].deps[s] \subseteq Steps(r) \ Unrun
        BY <3>1 DEF IsDAG, Steps
      <3>3. Satisfied(r, s, phase[r])
        BY <2>3, <3>2 DEF Satisfied
      <3>4. QED
        BY <2>1, <3>1, <3>3 DEF NothingLeft, Ready
    <2>5. QED
      BY <2>3, <2>4
  <1>2. QED
    BY <1>1, LoopInvariant, PTL

\* However calls, timers and resets interleave, a step that is over is never
\* run again and its result never changes.
THEOREM AtMostOnce == Spec => RunAtMostOnce
  <1>1. ASSUME LoopInv, [Next]_vars, NEW q \in Run, NEW u \in Step,
               phase[q][u] \in {"settled", "collected"}
        PROVE  /\ phase'[q][u] \in {"settled", "collected"}
               /\ result'[q][u] = result[q][u]
    <2>1. TypeOK /\ BatchWaits
      BY <1>1 DEF LoopInv
    <2>2. ASSUME NEW r \in Run, Execute(r) PROVE phase' = phase /\ result' = result
      BY <2>2 DEF Execute
    <2>3. ASSUME NEW r \in Run, NEW s \in Step, Reject(r, s)
          PROVE  phase' = phase /\ result' = result
      BY <2>3 DEF Reject
    <2>4. ASSUME NEW r \in Run, NEW s \in Step, Collect(r, s)
          PROVE  /\ phase'[q][u] \in {"settled", "collected"}
                 /\ result'[q][u] = result[q][u]
      BY <1>1, <2>1, <2>4 DEF Collect, TypeOK
    <2>5. ASSUME NEW r \in Run, NEW s \in Step, LeavesBatch(r, s) \/ GoesOn(r, s)
          PROVE  phase'[q][u] = phase[q][u] /\ result'[q][u] = result[q][u]
      <3>1. r # q \/ s # u
        BY <1>1, <2>1, <2>5 DEF LeavesBatch, GoesOn, BatchWaits
      <3>2. QED
        BY <2>1, <2>5, <3>1 DEF LeavesBatch, GoesOn, TypeOK
    <2>6. CASE LoopRests
      BY <1>1, <2>6 DEF LoopRests
    <2>7. QED
      BY <1>1, <2>1, <2>2, <2>3, <2>4, <2>5, <2>6, EveryMove
  <1>2. LoopInv /\ [Next]_vars =>
          [\A r \in Run, s \in Step :
             phase[r][s] \in {"settled", "collected"} =>
               /\ phase'[r][s] \in {"settled", "collected"}
               /\ result'[r][s] = result[r][s]]_vars
    BY <1>1
  <1>3. QED
    BY <1>2, LoopInvariant, PTL DEF Spec, RunAtMostOnce

-----------------------------------------------------------------------------
(* TopologicalExecutor implements PlanExecution: every step of the         *)
(* executor is a step of the abstract specification or leaves its          *)
(* variables alone.                                                        *)

\* The statuses of r's steps when their phases are ph.
StatusBy(r, ph) ==
  [s \in Step |->
     IF ph[s] = "waiting" THEN "pending"
     ELSE IF ph[s] \in InFlight THEN "active"
     ELSE IF result[r][s] = "success" THEN "done" ELSE "failed"]

LEMMA StatusIs ==
  ASSUME NEW r \in Run, NEW ph \in [Step -> Phases], NEW s \in Step
  PROVE  /\ StatusBy(r, ph)[s] = "pending" <=> ph[s] = "waiting"
         /\ StatusBy(r, ph)[s] = "active" <=> ph[s] \in InFlight
         /\ StatusBy(r, ph)[s] = "done"
              <=> ph[s] = "collected" /\ result[r][s] = "success"
         /\ StatusBy(r, ph)[s] = "failed"
              <=> ph[s] = "collected" /\ result[r][s] # "success"
  <1>1. ph[s] \in Phases
    OBVIOUS
  <1>2. QED
    BY <1>1 DEF StatusBy, Phases, InFlight

LEMMA StatusNow ==
  ASSUME NEW r \in Run
  PROVE  Status[r] = StatusBy(r, phase[r])
  BY DEF Status, StatusBy

\* What the loop finds ready is what may begin.
LEMMA ReadyMayBegin ==
  ASSUME TypeOK, NEW r \in Run, NEW ph \in [Step -> Phases]
  PROVE  Promise!MayBegin(plan[r], StatusBy(r, ph)) = Ready(r, ph)
  <1>1. /\ Steps(r) \subseteq Step /\ Steps(r) = plan[r].steps
        /\ \A s \in Step : plan[r].deps[s] \subseteq Step
    BY PlanType DEF Steps
  <1>2. ASSUME NEW d \in Steps(r)
        PROVE  /\ StatusBy(r, ph)[d] = "done" <=> d \in Completed(r, ph)
               /\ StatusBy(r, ph)[d] = "failed" <=> d \in Failed(r, ph)
               /\ StatusBy(r, ph)[d] = "pending" <=> ph[d] = "waiting"
    BY <1>1, StatusIs DEF Completed, Failed
  <1>3. Completed(r, ph) \subseteq Steps(r) /\ Failed(r, ph) \subseteq Steps(r)
    BY DEF Completed, Failed
  <1>4. QED
    BY <1>1, <1>2, <1>3 DEF Promise!MayBegin, Ready, Satisfied

\* The loop is left exactly when the abstract call is over.
LEMMA LeftWhenOver ==
  ASSUME TypeOK, NEW r \in Run, NEW ph \in [Step -> Phases]
  PROVE  Promise!Over(plan[r], StatusBy(r, ph))
           <=> AllSettled(r, ph) \/ NothingLeft(r, ph)
  <1>1. Steps(r) \subseteq Step /\ Steps(r) = plan[r].steps
    BY PlanType DEF Steps
  <1>2. \A s \in Steps(r) : StatusBy(r, ph)[s] = "active" <=> ph[s] \in InFlight
    BY <1>1, StatusIs
  <1>3. AllSettled(r, ph) => NothingLeft(r, ph)
    BY DEF AllSettled, NothingLeft, Ready, InFlight
  <1>4. QED
    BY <1>1, <1>2, <1>3, ReadyMayBegin DEF Promise!Over, NothingLeft

\* The loop resolves the call as the abstract specification does.
LEMMA LoopResolves ==
  ASSUME TypeOK, NEW r \in Run, NEW ph \in [Step -> Phases], Loop(r, ph)
  PROVE  Promise!Resolve(r, StatusBy(r, ph))
  <1>1. pc' = [pc EXCEPT ![r] = IF Promise!Over(plan[r], StatusBy(r, ph))
                                THEN "returned" ELSE "running"]
    BY LeftWhenOver DEF Loop
  <1>2. QED
    BY <1>1 DEF Promise!Resolve, Outcome, OutcomeOf, TypeOK

\* The phase of step s of r becomes p and its result x.
Moves(r, s, p, x) ==
  /\ phase' = [phase EXCEPT ![r][s] = p]
  /\ result' = [result EXCEPT ![r][s] = x]

\* Where only step s of r moves, only its status may change.
LEMMA StatusChange ==
  ASSUME TypeOK, NEW r \in Run, NEW s \in Step, NEW p, NEW x, Moves(r, s, p, x)
  PROVE  /\ Status' = [Status EXCEPT ![r][s] = Status'[r][s]]
         /\ Status'[r][s] = Status[r][s] => Status' = Status
         /\ p \in InFlight => Status'[r][s] = "active"
         /\ p = "collected" => Status'[r][s] \in {"done", "failed"}
  <1>1. \A q \in Run, u \in Step :
          /\ phase'[q][u] = IF q = r /\ u = s THEN p ELSE phase[q][u]
          /\ result'[q][u] = IF q = r /\ u = s THEN x ELSE result[q][u]
    BY DEF TypeOK, Moves
  <1>2. ASSUME NEW q \in Run, NEW u \in Step, q # r \/ u # s
        PROVE  Status'[q][u] = Status[q][u]
    BY <1>1, <1>2 DEF Status
  <1>3. /\ Status' = [Status EXCEPT ![r][s] = Status'[r][s]]
        /\ Status'[r][s] = Status[r][s] => Status' = Status
    <2>1. /\ Status = [q \in Run |-> [u \in Step |-> Status[q][u]]]
          /\ Status' = [q \in Run |-> [u \in Step |-> Status'[q][u]]]
      BY DEF Status
    <2>2. QED
      BY <1>2, <2>1
  <1>4. phase'[r][s] = p
    BY <1>1
  <1>5. QED
    BY <1>3, <1>4 DEF Status, InFlight

-----------------------------------------------------------------------------

LEMMA ExecuteOpens ==
  ASSUME LoopInv, NEW r \in Run, Execute(r)
  PROVE  Promise!Open(r)
  <1>1. TypeOK /\ phase[r] \in [Step -> Phases]
    BY DEF LoopInv, TypeOK
  <1>2. Promise!Resolve(r, Status[r])
    BY <1>1, LoopResolves, StatusNow DEF Execute
  <1>3. Outcome[r] = "idle" /\ Status' = Status
    BY DEF Execute, Outcome, OutcomeOf, Status
  <1>4. QED
    BY <1>2, <1>3 DEF Execute, Promise!Open

LEMMA CollectEnds ==
  ASSUME LoopInv, NEW r \in Run, NEW s \in Step, Collect(r, s)
  PROVE  Promise!End(r, s)
  <1>1. TypeOK
    BY DEF LoopInv
  <1>2. /\ phase'[r] \in [Step -> Phases] /\ Loop(r, phase'[r])
        /\ UNCHANGED <<plan, result>>
        /\ pc[r] = "running" /\ phase[r][s] = "settled"
    BY <1>1 DEF Collect, TypeOK, Phases
  <1>3. Moves(r, s, "collected", result[r][s])
    BY <1>1 DEF Collect, Moves, TypeOK
  <1>4. Status'[r] = StatusBy(r, phase'[r])
    BY <1>2 DEF StatusBy, Status
  <1>5. Promise!Resolve(r, Status'[r])
    BY <1>1, <1>2, <1>4, LoopResolves
  <1>6. Outcome[r] = "open" /\ Status[r][s] = "active"
    BY <1>2 DEF Outcome, OutcomeOf, Status, InFlight, Phases
  <1>7. /\ Status' = [Status EXCEPT ![r][s] = Status'[r][s]]
        /\ Status'[r][s] \in {"done", "failed"}
    BY <1>1, <1>3, StatusChange
  <1>8. QED
    BY <1>2, <1>5, <1>6, <1>7 DEF Promise!End

LEMMA RejectGivesUp ==
  ASSUME LoopInv, NEW r \in Run, NEW s \in Step, Reject(r, s)
  PROVE  Promise!GiveUp(r)
  <1>1. /\ pc \in [Run -> Controls] /\ pc[r] = "running"
        /\ pc' = [pc EXCEPT ![r] = "rejected"]
    BY DEF LoopInv, TypeOK, Reject
  <1>2. Outcome[r] = "open" /\ Outcome' = [Outcome EXCEPT ![r] = "error"]
    <2>1. OutcomeOf["running"] = "open" /\ OutcomeOf["rejected"] = "error"
      BY DEF OutcomeOf
    <2>2. QED
      BY <1>1, <2>1 DEF Outcome
  <1>3. Status' = Status
    BY DEF Reject, Status
  <1>4. QED
    BY <1>2, <1>3 DEF Reject, Promise!GiveUp

LEMMA LaunchBegins ==
  ASSUME LoopInv, NEW r \in Run, NEW s \in Step, LeavesBatch(r, s)
  PROVE  Promise!Begin(r, s)
  <1>1. /\ TypeOK /\ s \in Steps(r) /\ phase[r][s] = "waiting"
        /\ Satisfied(r, s, phase[r]) /\ pc[r] = "running"
    BY DEF LoopInv, BatchWaits, DependencyOrder, OnlyRunningLaunches, LeavesBatch
  <1>2. phase[r] \in [Step -> Phases] /\ s \in Ready(r, phase[r])
    BY <1>1 DEF Ready, TypeOK
  <1>3. s \in Promise!MayBegin(plan[r], Status[r])
    BY <1>1, <1>2, ReadyMayBegin, StatusNow
  <1>4. PICK p \in {"attempting", "settled"}, x \in Results : Moves(r, s, p, x)
    BY DEF LeavesBatch, Moves
  <1>5. p \in InFlight
    BY DEF InFlight, Phases
  <1>6. Status' = [Status EXCEPT ![r][s] = "active"]
    BY <1>1, <1>4, <1>5, StatusChange
  <1>7. Outcome[r] = "open" /\ Outcome' = Outcome
    BY <1>1 DEF Outcome, OutcomeOf, LeavesBatch
  <1>8. QED
    BY <1>3, <1>6, <1>7 DEF LeavesBatch, Promise!Begin

LEMMA GoingOnStutters ==
  ASSUME LoopInv, NEW r \in Run, NEW s \in Step, GoesOn(r, s)
  PROVE  UNCHANGED Promise!vars
  <1>1. TypeOK /\ Status[r][s] = "active"
    BY DEF LoopInv, GoesOn, Status, InFlight, Phases
  <1>2. PICK p \in {"calling", "sleeping", "settled"}, x \in Results :
          Moves(r, s, p, x)
    BY DEF GoesOn, Moves
  <1>3. p \in InFlight
    BY DEF InFlight, Phases
  <1>4. Status' = Status
    BY <1>1, <1>2, <1>3, StatusChange
  <1>5. QED
    BY <1>4 DEF GoesOn, Promise!vars, Outcome

\* The executor implements PlanExecution: for every plan, every interleaving
\* of calls, retries and breakers, a caller of execute() sees steps begin in
\* dependency order, end once, and a result exactly when nothing is left.
THEOREM Implements == Spec => KeepsThePromise
  <1>1. Init => Promise!Init
    BY DEF Init, Promise!Init, Status, Outcome, OutcomeOf
  <1>2. LoopInv /\ [Next]_vars => [Promise!Next]_(Promise!vars)
    <2> SUFFICES ASSUME LoopInv, [Next]_vars
                 PROVE  Promise!Next \/ UNCHANGED Promise!vars
      OBVIOUS
    <2>1. TypeOK
      BY DEF LoopInv
    <2>2. CASE LoopRests
      BY <2>2 DEF LoopRests, Promise!vars, Status, Outcome
    <2>3. QED
      BY <2>1, <2>2, EveryMove, ExecuteOpens, CollectEnds, RejectGivesUp,
         LaunchBegins, GoingOnStutters
         DEF Promise!Next
  <1>3. QED
    BY <1>1, <1>2, LoopInvariant, PTL DEF Spec, KeepsThePromise, Promise!Spec

-----------------------------------------------------------------------------
(* The breakers.  What a step holds of its breaker goes with where it is,  *)
(* so that each step asks once and reports once.                           *)

\* What a step may hold by where it is.
HeldIn(ph) ==
  IF ph = "waiting" THEN {"none"}
  ELSE IF ph \in {"attempting", "calling", "sleeping"} THEN Live \cup {"detached"}
  ELSE {"refused", "done", "abandoned"}

GrantsFit == \A r \in Run, s \in Step : grant[r][s] \in HeldIn(phase[r][s])

\* A breaker that is HALF_OPEN has a probe out, if callbacks do not throw.
ProbeIsOut ==
  \A t \in Tool : breaker[t].state = "HALF_OPEN" =>
    \E q \in Run, u \in Step : ToolOf(q, u) = t /\ grant[q][u] = "probe"

BreakerInv == LoopInv /\ GrantsFit /\ (~CallbacksThrow => ProbeIsOut)

\* The grants of the other steps after a report age, and only live ones do.
LEMMA ReportedGrants ==
  ASSUME TypeOK, NEW r \in Run, NEW s \in Step, NEW res, NEW b2, Report(r, s, res, b2)
  PROVE  /\ grant'[r][s] = "done"
         /\ \A q \in Run, u \in Step : <<q, u>> # <<r, s>> =>
              \/ grant'[q][u] = grant[q][u]
              \/ grant[q][u] = "probe" /\ grant'[q][u] = "superseded"
  <1>1. CASE grant[r][s] \in Live
    <2>1. grant' = GrantsAfter(r, s, b2)
      BY <1>1 DEF Report
    <2>2. QED
      BY <2>1 DEF GrantsAfter, Aged
  <1>2. CASE grant[r][s] \notin Live
    <2>1. grant' = [grant EXCEPT ![r][s] = "done"]
      BY <1>2 DEF Report
    <2>2. QED
      BY <2>1 DEF TypeOK
  <1>3. QED
    BY <1>1, <1>2

LEMMA ReportKeepsGrants ==
  ASSUME TypeOK, GrantsFit, NEW r \in Run, NEW s \in Step, NEW res, NEW b2,
         Report(r, s, res, b2)
  PROVE  GrantsFit'
  <1>1. phase' = [phase EXCEPT ![r][s] = "settled"]
    BY DEF Report, Settle
  <1>2. ASSUME NEW q \in Run, NEW u \in Step
        PROVE  grant'[q][u] \in HeldIn(phase'[q][u])
    <2>1. CASE q = r /\ u = s
      <3>1. grant'[q][u] = "done" /\ phase'[q][u] = "settled"
        BY <1>1, <2>1, ReportedGrants DEF TypeOK
      <3>2. QED
        BY <3>1 DEF HeldIn
    <2>2. CASE ~(q = r /\ u = s)
      <3>1. phase'[q][u] = phase[q][u] /\ <<q, u>> # <<r, s>>
        BY <1>1, <2>2 DEF TypeOK
      <3>2. grant[q][u] \in HeldIn(phase[q][u])
        BY DEF GrantsFit
      <3>3. grant[q][u] = "probe" => "superseded" \in HeldIn(phase[q][u])
        BY <3>2 DEF HeldIn, Live
      <3>4. QED
        BY <3>1, <3>2, <3>3, ReportedGrants
    <2>3. QED
      BY <2>1, <2>2
  <1>3. QED
    BY <1>2 DEF GrantsFit

LEMMA GrantsFitStep ==
  ASSUME LoopInv, GrantsFit, [Next]_vars
  PROVE  GrantsFit'
  <1> USE DEF LoopInv
  <1>1. ASSUME NEW r \in Run, NEW s \in Step, NEW p, NEW h \in HeldIn(p),
               phase' = [phase EXCEPT ![r][s] = p], grant' = [grant EXCEPT ![r][s] = h]
        PROVE  GrantsFit'
    <2>1. \A q \in Run, u \in Step :
            IF q = r /\ u = s THEN phase'[q][u] = p /\ grant'[q][u] = h
            ELSE phase'[q][u] = phase[q][u] /\ grant'[q][u] = grant[q][u]
      BY <1>1 DEF TypeOK
    <2>2. QED
      BY <1>1, <2>1 DEF GrantsFit
  <1>2. ASSUME NEW r \in Run, NEW s \in Step, RunStep(r, s) PROVE GrantsFit'
    <2>1. CASE Launch(r, s)
      BY <1>1, <2>1 DEF Launch, HeldIn, GrantOf, Live
    <2>2. CASE Trip(r, s)
      BY <1>1, <2>2 DEF Trip, Settle, HeldIn
    <2>3. CASE StartThrows(r, s)
      BY <1>1, <2>3 DEF StartThrows, Settle, HeldIn
    <2>4. ASSUME CallTool(r, s) \/ ToolFailsForNow(r, s) PROVE GrantsFit'
      <3>1. PICK p \in {"calling", "sleeping"} : phase' = [phase EXCEPT ![r][s] = p]
        BY <2>4 DEF CallTool, ToolFailsForNow
      <3>2. phase[r][s] \in {"attempting", "calling", "sleeping"} /\ grant' = grant
        BY <2>4 DEF CallTool, ToolFailsForNow, AttemptBegins
      <3>3. grant[r][s] \in HeldIn(p)
        BY <3>2 DEF HeldIn, GrantsFit
      <3>4. grant' = [grant EXCEPT ![r][s] = grant[r][s]]
        BY <3>2 DEF TypeOK
      <3>5. QED
        BY <1>1, <3>1, <3>3, <3>4
    <2>5. ASSUME CannotCall(r, s) \/ ToolSucceeds(r, s) \/ ToolFails(r, s) PROVE GrantsFit'
      BY <2>5, ReportKeepsGrants DEF CannotCall, ToolSucceeds, ToolFails
    <2>6. QED
      BY <1>2, <2>1, <2>2, <2>3, <2>4, <2>5 DEF RunStep
  <1>3. ASSUME NEW r \in Run, NEW s \in Step, Collect(r, s) PROVE GrantsFit'
    <2>1. /\ phase' = [phase EXCEPT ![r][s] = "collected"] /\ grant' = grant
          /\ phase[r][s] = "settled"
      BY <1>3 DEF Collect
    <2>2. grant[r][s] \in HeldIn("collected") /\ grant' = [grant EXCEPT ![r][s] = grant[r][s]]
      BY <2>1 DEF GrantsFit, HeldIn, TypeOK
    <2>3. QED
      BY <1>1, <2>1, <2>2
  <1>4. CASE ResetCircuitBreakers
    <2>1. phase' = phase /\ grant' = [r \in Run |-> [s \in Step |-> Dropped(grant[r][s])]]
      BY <1>4 DEF ResetCircuitBreakers
    <2>2. ASSUME NEW r \in Run, NEW s \in Step PROVE grant'[r][s] \in HeldIn(phase'[r][s])
      <3>1. grant[r][s] \in HeldIn(phase[r][s])
        BY DEF GrantsFit
      <3>2. QED
        BY <2>1, <3>1 DEF HeldIn, Dropped, Live
    <2>3. QED
      BY <2>2 DEF GrantsFit
  <1>5. CASE UNCHANGED <<phase, grant>>
    BY <1>5 DEF GrantsFit
  <1>6. QED
    BY <1>2, <1>3, <1>4, <1>5 DEF Next, Execute, Reject, Cooldown, vars

\* After a report that is heard, the breaker is not HALF_OPEN.
LEMMA ReportKeepsProbes ==
  ASSUME TypeOK, ProbeIsOut, NEW r \in Run, NEW s \in Step, NEW res, NEW b2,
         b2.state # "HALF_OPEN", Report(r, s, res, b2)
  PROVE  ProbeIsOut'
  <1>1. ToolOf(r, s) \in Tool /\ plan' = plan
    BY PlanType DEF Report
  <1>2. ASSUME NEW t \in Tool, breaker'[t].state = "HALF_OPEN"
        PROVE  \E q \in Run, u \in Step : ToolOf(q, u)' = t /\ grant'[q][u] = "probe"
    <2>1. CASE grant[r][s] \in Live
      <3>1. breaker' = [breaker EXCEPT ![ToolOf(r, s)] = b2] /\ grant' = GrantsAfter(r, s, b2)
        BY <2>1 DEF Report
      <3>2. t # ToolOf(r, s) /\ breaker[t].state = "HALF_OPEN"
        BY <1>1, <1>2, <3>1 DEF TypeOK
      <3>3. PICK q \in Run, u \in Step : ToolOf(q, u) = t /\ grant[q][u] = "probe"
        BY <3>2 DEF ProbeIsOut
      <3>4. grant'[q][u] = "probe"
        BY <3>1, <3>2, <3>3 DEF GrantsAfter
      <3>5. QED
        BY <1>1, <3>3, <3>4 DEF ToolOf
    <2>2. CASE grant[r][s] \notin Live
      <3>1. breaker' = breaker /\ grant' = [grant EXCEPT ![r][s] = "done"]
        BY <2>2 DEF Report
      <3>2. PICK q \in Run, u \in Step : ToolOf(q, u) = t /\ grant[q][u] = "probe"
        BY <1>2, <3>1 DEF ProbeIsOut
      <3>3. ~(q = r /\ u = s)
        BY <2>2, <3>2 DEF Live
      <3>4. grant'[q][u] = "probe"
        BY <3>1, <3>2, <3>3 DEF TypeOK
      <3>5. QED
        BY <1>1, <3>2, <3>4 DEF ToolOf
    <2>3. QED
      BY <2>1, <2>2
  <1>3. QED
    BY <1>2 DEF ProbeIsOut

LEMMA ProbeIsOutStep ==
  ASSUME LoopInv, GrantsFit, ~CallbacksThrow, ProbeIsOut, [Next]_vars
  PROVE  ProbeIsOut'
  <1>0. TypeOK
    BY DEF LoopInv
  <1>1. ASSUME NEW r \in Run, NEW s \in Step, Launch(r, s) PROVE ProbeIsOut'
    <2> DEFINE t == ToolOf(r, s)
    <2>1. /\ t \in Tool /\ plan' = plan /\ grant[r][s] # "probe"
          /\ breaker' = [breaker EXCEPT ![t] = AfterAllow(breaker[t])]
          /\ grant' = [grant EXCEPT ![r][s] = GrantOf(breaker[t])]
      <3>1. phase[r][s] = "waiting"
        BY <1>1 DEF Launch, NextInBatch, LoopInv, BatchWaits
      <3>2. grant[r][s] # "probe"
        BY <3>1 DEF GrantsFit, HeldIn
      <3>3. QED
        BY <1>0, <1>1, <3>2, PlanType DEF Launch
    <2> HIDE DEF t
    <2>2. ASSUME NEW x \in Tool, breaker'[x].state = "HALF_OPEN"
          PROVE  \E q \in Run, u \in Step : ToolOf(q, u)' = x /\ grant'[q][u] = "probe"
      <3>1. CASE x = t /\ breaker[t].state # "CLOSED"
        <4>1. grant'[r][s] = "probe"
          BY <1>0, <2>1, <3>1 DEF GrantOf, TypeOK
        <4>2. QED
          BY <2>1, <3>1, <4>1 DEF ToolOf, t
      <3>2. CASE ~(x = t /\ breaker[t].state # "CLOSED")
        <4>1. breaker[x].state = "HALF_OPEN"
          BY <1>0, <2>1, <2>2, <3>2 DEF AfterAllow, TypeOK
        <4>2. PICK q \in Run, u \in Step : ToolOf(q, u) = x /\ grant[q][u] = "probe"
          BY <4>1 DEF ProbeIsOut
        <4>3. ~(q = r /\ u = s)
          BY <2>1, <4>2
        <4>4. grant'[q][u] = "probe"
          BY <1>0, <2>1, <4>2, <4>3 DEF TypeOK
        <4>5. QED
          BY <2>1, <4>2, <4>4 DEF ToolOf
      <3>3. QED
        BY <3>1, <3>2
    <2>3. QED
      BY <2>2 DEF ProbeIsOut
  <1>2. ASSUME NEW r \in Run, NEW s \in Step, Trip(r, s) PROVE ProbeIsOut'
    <2>1. /\ plan' = plan /\ breaker' = breaker /\ grant[r][s] # "probe"
          /\ grant' = [grant EXCEPT ![r][s] = "refused"]
      <3>1. phase[r][s] = "waiting"
        BY <1>2 DEF Trip, NextInBatch, LoopInv, BatchWaits
      <3>2. grant[r][s] # "probe"
        BY <3>1 DEF GrantsFit, HeldIn
      <3>3. QED
        BY <1>2, <3>2 DEF Trip
    <2>2. \A q \in Run, u \in Step : grant[q][u] = "probe" => grant'[q][u] = "probe"
      BY <1>0, <2>1 DEF TypeOK
    <2>3. QED
      BY <2>1, <2>2 DEF ProbeIsOut, ToolOf
  <1>3. ASSUME NEW r \in Run, NEW s \in Step, StartThrows(r, s) PROVE ProbeIsOut'
    BY <1>3 DEF StartThrows
  <1>4. ASSUME NEW r \in Run, NEW s \in Step,
               CannotCall(r, s) \/ ToolSucceeds(r, s) \/ ToolFails(r, s)
        PROVE  ProbeIsOut'
    <2> DEFINE b == breaker[ToolOf(r, s)]
    <2>1. b \in Breaker
      BY <1>0, PlanType DEF TypeOK
    <2>2. AfterSuccess(b).state # "HALF_OPEN" /\ AfterFailure(b).state # "HALF_OPEN"
      BY <2>1 DEF AfterSuccess, AfterFailure, Breaker
    <2>3. QED
      BY <1>0, <1>4, <2>2, ReportKeepsProbes DEF CannotCall, ToolSucceeds, ToolFails
  <1>5. ASSUME NEW t \in Tool, Cooldown(t) PROVE ProbeIsOut'
    <2>1. \A x \in Tool : breaker'[x].state = breaker[x].state
      <3>1. breaker' = [breaker EXCEPT ![t] = AfterCooldown(breaker[t])]
            /\ breaker[t] \in Breaker
        BY <1>0, <1>5 DEF Cooldown, TypeOK
      <3>2. AfterCooldown(breaker[t]).state = breaker[t].state
        BY <3>1 DEF AfterCooldown, Breaker
      <3>3. QED
        BY <1>0, <3>1, <3>2 DEF TypeOK
    <2>2. plan' = plan /\ grant' = grant
      BY <1>5 DEF Cooldown
    <2>3. QED
      BY <2>1, <2>2 DEF ProbeIsOut, ToolOf
  <1>6. CASE ResetCircuitBreakers
    BY <1>6 DEF ResetCircuitBreakers, NewBreaker, ProbeIsOut
  <1>7. CASE UNCHANGED <<plan, breaker, grant>>
    BY <1>7 DEF ProbeIsOut, ToolOf
  <1>8. QED
    BY <1>1, <1>2, <1>3, <1>4, <1>5, <1>6, <1>7
       DEF Next, Execute, Collect, Reject, RunStep, CallTool, ToolFailsForNow, vars

\* The invariant of steps and breakers.
THEOREM BreakerInvariant == Spec => []BreakerInv
  <1>1. Init /\ LoopInv => BreakerInv
    BY DEF Init, GrantsFit, HeldIn, ProbeIsOut, NewBreaker, BreakerInv
  <1>2. BreakerInv /\ LoopInv' /\ [Next]_vars => BreakerInv'
    BY GrantsFitStep, ProbeIsOutStep DEF BreakerInv
  <1>3. QED
    BY <1>1, <1>2, LoopInvariant, PTL DEF Spec

\* RefusedForAReason: a step that fails fast found its tool cooling down, or
\* another step out probing it; where callbacks do not throw.
THEOREM Refused == ASSUME ~CallbacksThrow PROVE Spec => RefusedForAReason
  <1>1. ASSUME BreakerInv, [Next]_vars, NEW r \in Run, NEW s \in Step,
               result[r][s] = "none", result'[r][s] = "tripped"
        PROVE  \/ Cooling(breaker[ToolOf(r, s)])
               \/ \E q \in Run, u \in Step :
                    /\ ToolOf(q, u) = ToolOf(r, s)
                    /\ grant[q][u] = "probe" /\ phase[q][u] \in InFlight
    <2> DEFINE b == breaker[ToolOf(r, s)]
    <2>0. TypeOK /\ ToolOf(r, s) \in Tool /\ b \in Breaker
      BY <1>1, PlanType DEF BreakerInv, LoopInv, TypeOK
    <2>1. Trip(r, s)
      <3>1. ASSUME NEW q \in Run, NEW u \in Step, NEW res, res # "tripped",
                   Settle(q, u, res)
            PROVE  FALSE
        <4>1. result' = [result EXCEPT ![q][u] = res]
          BY <3>1 DEF Settle
        <4>2. QED
          BY <1>1, <2>0, <3>1, <4>1 DEF TypeOK
      <3>2. result' # result
        BY <1>1
      <3>3. PICK q \in Run, u \in Step : RunStep(q, u)
        BY <1>1, <3>2 DEF Next, Execute, Collect, Reject, Cooldown, ResetCircuitBreakers, vars
      <3>4. Trip(q, u)
        BY <3>1, <3>2, <3>3
           DEF RunStep, Launch, StartThrows, CallTool, CannotCall, ToolSucceeds, ToolFails,
               ToolFailsForNow, Report
      <3>5. result' = [result EXCEPT ![q][u] = "tripped"]
        BY <3>4 DEF Trip, Settle
      <3>6. q = r /\ u = s
        BY <1>1, <2>0, <3>5 DEF TypeOK
      <3>7. QED
        BY <3>4, <3>6
    <2>2. ~Allows(b)
      BY <2>1 DEF Trip
    <2>3. b.state \in CircuitState /\ b.cooled \in BOOLEAN
      BY <2>0 DEF Breaker
    <2>4. CASE b.state = "HALF_OPEN"
      <3>1. PICK q \in Run, u \in Step : ToolOf(q, u) = ToolOf(r, s) /\ grant[q][u] = "probe"
        BY <1>1, <2>0, <2>4 DEF BreakerInv, ProbeIsOut
      <3>2. phase[q][u] \in Phases /\ grant[q][u] \in HeldIn(phase[q][u])
        BY <1>1, <2>0 DEF BreakerInv, GrantsFit, TypeOK
      <3>3. phase[q][u] \in InFlight
        BY <3>1, <3>2 DEF HeldIn, InFlight, Phases
      <3>4. QED
        BY <3>1, <3>3
    <2>5. CASE b.state # "HALF_OPEN"
      BY <2>2, <2>3, <2>5 DEF Allows, Cooling, CircuitState
    <2>6. QED
      BY <2>4, <2>5
  <1>2. BreakerInv /\ [Next]_vars =>
          [\A r \in Run, s \in Step :
             result[r][s] = "none" /\ result'[r][s] = "tripped" =>
               \/ Cooling(breaker[ToolOf(r, s)])
               \/ \E q \in Run, u \in Step :
                    /\ ToolOf(q, u) = ToolOf(r, s)
                    /\ grant[q][u] = "probe" /\ phase[q][u] \in InFlight]_vars
    BY <1>1
  <1>3. QED
    BY <1>2, BreakerInvariant, PTL DEF Spec, RefusedForAReason

-----------------------------------------------------------------------------
(* The steps that use a tool are the callers of one breaker.               *)

\* What the callers of t's breaker hold.
Holdings(t) ==
  [c \in Run \X Step |-> IF ToolOf(c[1], c[2]) = t THEN grant[c[1]][c[2]] ELSE "none"]

\* The names of the instance are those of this module.
LEMMA SameBreaker ==
  ASSUME NEW t \in Tool
  PROVE  /\ OfTool(t)!NewBreaker = NewBreaker
         /\ \A b : /\ OfTool(t)!Allows(b) <=> Allows(b)
                   /\ OfTool(t)!AfterAllow(b) = AfterAllow(b)
                   /\ OfTool(t)!AfterSuccess(b) = AfterSuccess(b)
                   /\ OfTool(t)!AfterFailure(b) = AfterFailure(b)
                   /\ OfTool(t)!AfterCooldown(b) = AfterCooldown(b)
                   /\ OfTool(t)!Cooling(b) <=> Cooling(b)
                   /\ OfTool(t)!GrantOf(b) = GrantOf(b)
         /\ \A h, b, b2 : OfTool(t)!Aged(h, b, b2) = Aged(h, b, b2)
         /\ \A h : OfTool(t)!Dropped(h) = Dropped(h)
         /\ OfTool(t)!Live = Live
  BY DEF OfTool!NewBreaker, NewBreaker, OfTool!Allows, Allows, OfTool!AfterAllow, AfterAllow,
         OfTool!AfterSuccess, AfterSuccess, OfTool!NewBreaker, OfTool!AfterFailure, AfterFailure, OfTool!AfterCooldown, AfterCooldown,
         OfTool!Cooling, Cooling, OfTool!GrantOf, GrantOf, OfTool!Aged, Aged,
         OfTool!Dropped, Dropped, OfTool!Live, Live

\* What the callers of t hold when s of r comes to hold h.
Regrants(r, s, h, t) ==
  Holdings(t)' = IF ToolOf(r, s) = t THEN [Holdings(t) EXCEPT ![<<r, s>>] = h] ELSE Holdings(t)

\* A step that changes its own grant changes what the callers of its tool
\* hold in its place, and nothing for the other tools.
LEMMA HoldingsExcept ==
  ASSUME TypeOK, NEW r \in Run, NEW s \in Step, NEW h, NEW t \in Tool,
         grant' = [grant EXCEPT ![r][s] = h], plan' = plan
  PROVE  Regrants(r, s, h, t)
  <1> DEFINE before(c) == IF ToolOf(c[1], c[2]) = t THEN grant[c[1]][c[2]] ELSE "none"
             after(c)  == IF ToolOf(c[1], c[2])' = t THEN grant'[c[1]][c[2]] ELSE "none"
  <1>1. \A c \in Run \X Step :
          after(c) = IF ToolOf(r, s) = t /\ c = <<r, s>> THEN h ELSE before(c)
    <2>1. \A q \in Run, u \in Step :
            grant'[q][u] = IF q = r /\ u = s THEN h ELSE grant[q][u]
      BY DEF TypeOK
    <2>2. \A c \in Run \X Step : /\ c[1] \in Run /\ c[2] \in Step
                                  /\ c = <<r, s>> <=> c[1] = r /\ c[2] = s
      OBVIOUS
    <2>3. \A q, u : ToolOf(q, u)' = ToolOf(q, u)
      BY DEF ToolOf
    <2>4. QED
      BY <2>1, <2>2, <2>3
  <1>2. Holdings(t) = [c \in Run \X Step |-> before(c)] /\ Holdings(t)' = [c \in Run \X Step |-> after(c)]
    BY DEF Holdings
  <1> HIDE DEF before, after
  <1>3. <<r, s>> \in Run \X Step
    OBVIOUS
  <1>4. CASE ToolOf(r, s) = t
    <2>1. \A c \in Run \X Step : after(c) = IF c = <<r, s>> THEN h ELSE Holdings(t)[c]
      BY <1>1, <1>2, <1>4
    <2>2. [Holdings(t) EXCEPT ![<<r, s>>] = h]
            = [c \in Run \X Step |-> IF c = <<r, s>> THEN h ELSE Holdings(t)[c]]
      BY <1>2
    <2>3. Holdings(t)' = [Holdings(t) EXCEPT ![<<r, s>>] = h]
      BY <1>2, <2>1, <2>2
    <2>4. QED
      BY <1>4, <2>3 DEF Regrants
  <1>5. CASE ToolOf(r, s) # t
    BY <1>1, <1>2, <1>5 DEF Regrants
  <1>6. QED
    BY <1>4, <1>5

LEMMA LaunchOrTripAsks ==
  ASSUME TypeOK, BatchWaits, GrantsFit, NEW r \in Run, NEW s \in Step, NEW t \in Tool,
         Launch(r, s) \/ Trip(r, s)
  PROVE  OfTool(t)!CallersNext \/ UNCHANGED OfTool(t)!callersVars
  <1> DEFINE c == <<r, s>>
  <1>1. /\ plan' = plan /\ c \in Run \X Step /\ ToolOf(r, s) \in Tool
        /\ phase[r][s] = "waiting"
    BY PlanType DEF Launch, Trip, NextInBatch, BatchWaits
  <1>2. grant[r][s] = "none"
    BY <1>1 DEF GrantsFit, HeldIn
  <1>3. CASE ToolOf(r, s) = t
    <2>1. Holdings(t)[c] = "none"
      BY <1>1, <1>2, <1>3 DEF Holdings
    <2>2. CASE Launch(r, s)
      <3>1. /\ Allows(breaker[t]) /\ breaker'[t] = AfterAllow(breaker[t])
            /\ grant' = [grant EXCEPT ![r][s] = GrantOf(breaker[t])]
        BY <1>3, <2>2 DEF Launch, TypeOK
      <3>2. Holdings(t)' = [Holdings(t) EXCEPT ![c] = GrantOf(breaker[t])]
        <4>1. Regrants(r, s, GrantOf(breaker[t]), t)
          BY <1>1, <3>1, HoldingsExcept
        <4>2. QED
          BY <1>3, <4>1 DEF Regrants
      <3>3. OfTool(t)!Admit(c)
        BY <2>1, <3>1, <3>2, SameBreaker DEF OfTool!Admit, Holdings
      <3>4. QED
        BY <1>1, <3>3 DEF OfTool!CallersNext
    <2>3. CASE Trip(r, s)
      <3>1. /\ ~Allows(breaker[t]) /\ breaker' = breaker
            /\ grant' = [grant EXCEPT ![r][s] = "refused"]
        BY <1>3, <2>3 DEF Trip
      <3>2. Holdings(t)' = [Holdings(t) EXCEPT ![c] = "refused"]
        BY <1>1, <1>3, <3>1, HoldingsExcept DEF Regrants
      <3>3. OfTool(t)!Refuse(c)
        BY <2>1, <3>1, <3>2, SameBreaker DEF OfTool!Refuse, Holdings
      <3>4. QED
        BY <1>1, <3>3 DEF OfTool!CallersNext
    <2>4. QED
      BY <2>2, <2>3
  <1>4. CASE ToolOf(r, s) # t
    <2>1. breaker'[t] = breaker[t] /\ \E h : grant' = [grant EXCEPT ![r][s] = h]
      BY <1>4 DEF Launch, Trip, TypeOK
    <2>2. PICK h : grant' = [grant EXCEPT ![r][s] = h]
      BY <2>1
    <2>3. Regrants(r, s, h, t)
      BY <1>1, <2>2, HoldingsExcept
    <2>4. Holdings(t)' = Holdings(t)
      BY <1>4, <2>3 DEF Regrants
    <2>5. QED
      BY <2>1, <2>4 DEF OfTool!callersVars, Holdings
  <1>5. QED
    BY <1>3, <1>4

LEMMA ThrowingAbandons ==
  ASSUME TypeOK, GrantsFit, NEW r \in Run, NEW s \in Step, NEW t \in Tool, StartThrows(r, s)
  PROVE  OfTool(t)!CallersNext \/ UNCHANGED OfTool(t)!callersVars
  <1> DEFINE c == <<r, s>>
  <1>1. /\ plan' = plan /\ breaker' = breaker /\ CallbacksThrow /\ c \in Run \X Step
        /\ grant' = [grant EXCEPT ![r][s] = "abandoned"] /\ phase[r][s] = "attempting"
    BY DEF StartThrows
  <1>2. grant[r][s] \in Live \cup {"detached"}
    BY <1>1 DEF GrantsFit, HeldIn
  <1>3. CASE ToolOf(r, s) = t
    <2>1. Holdings(t)[c] = grant[r][s]
      BY <1>1, <1>3 DEF Holdings
    <2>2. Holdings(t)' = [Holdings(t) EXCEPT ![c] = "abandoned"]
      BY <1>1, <1>3, HoldingsExcept DEF Regrants
    <2>3. OfTool(t)!Abandon(c)
      BY <1>1, <1>2, <2>1, <2>2, SameBreaker DEF OfTool!Abandon, OfTool!Outstanding, Holdings
    <2>4. QED
      BY <1>1, <2>3 DEF OfTool!CallersNext
  <1>4. CASE ToolOf(r, s) # t
    <2>1. Holdings(t)' = Holdings(t)
      BY <1>1, <1>4, HoldingsExcept DEF Regrants
    <2>2. QED
      BY <1>1, <2>1 DEF OfTool!callersVars, Holdings
  <1>5. QED
    BY <1>3, <1>4

LEMMA ReportingReports ==
  ASSUME TypeOK, GrantsFit, NEW r \in Run, NEW s \in Step, NEW t \in Tool,
         CannotCall(r, s) \/ ToolSucceeds(r, s) \/ ToolFails(r, s)
  PROVE  OfTool(t)!CallersNext \/ UNCHANGED OfTool(t)!callersVars
  <1> DEFINE c == <<r, s>>
             b == breaker[ToolOf(r, s)]
  <1>0. PICK b2 \in {AfterSuccess(b), AfterFailure(b)} : \E res : Report(r, s, res, b2)
    BY DEF CannotCall, ToolSucceeds, ToolFails
  <1>1. PICK res : Report(r, s, res, b2)
    BY <1>0
  <1>2. /\ plan' = plan /\ c \in Run \X Step /\ ToolOf(r, s) \in Tool
        /\ phase[r][s] \in {"attempting", "calling", "sleeping"}
    BY <1>1, PlanType DEF Report, CannotCall, ToolSucceeds, ToolFails, AttemptBegins
  <1>3. grant[r][s] \in Live \cup {"detached"}
    BY <1>2 DEF GrantsFit, HeldIn
  <1>4. CASE grant[r][s] \in Live
    <2>1. /\ breaker' = [breaker EXCEPT ![ToolOf(r, s)] = b2]
          /\ grant' = GrantsAfter(r, s, b2)
      BY <1>1, <1>4 DEF Report
    <2>2. \A q \in Run, u \in Step :
            grant'[q][u] = IF q = r /\ u = s THEN "done"
                           ELSE IF ToolOf(q, u) = ToolOf(r, s) THEN Aged(grant[q][u], b, b2)
                           ELSE grant[q][u]
      BY <2>1 DEF GrantsAfter
    <2>3. \A q \in Run, u \in Step : ToolOf(q, u)' = ToolOf(q, u)
      BY <1>2 DEF ToolOf
    <2>4. CASE ToolOf(r, s) = t
      <3>1. Holdings(t)[c] = grant[r][s] /\ breaker'[t] = b2 /\ b = breaker[t]
        BY <1>2, <2>1, <2>4 DEF Holdings, TypeOK
      <3>2. Aged("none", b, b2) = "none"
        BY DEF Aged
      <3>3. Holdings(t)' = [d \in Run \X Step |-> IF d = c THEN "done" ELSE Aged(Holdings(t)[d], b, b2)]
        <4>1. \A d \in Run \X Step : d[1] \in Run /\ d[2] \in Step /\ (d = c <=> d[1] = r /\ d[2] = s)
          OBVIOUS
        <4>2. ASSUME NEW d \in Run \X Step
              PROVE  Holdings(t)'[d] = IF d = c THEN "done" ELSE Aged(Holdings(t)[d], b, b2)
          <5>1. Holdings(t)'[d] = IF ToolOf(d[1], d[2]) = t THEN grant'[d[1]][d[2]] ELSE "none"
            BY <2>3, <4>1 DEF Holdings
          <5>2. Holdings(t)[d] = IF ToolOf(d[1], d[2]) = t THEN grant[d[1]][d[2]] ELSE "none"
            BY DEF Holdings
          <5>3. QED
            BY <2>2, <2>4, <3>2, <4>1, <5>1, <5>2
        <4>3. DOMAIN Holdings(t)' = Run \X Step
              /\ Holdings(t)' = [d \in Run \X Step |-> Holdings(t)'[d]]
          BY DEF Holdings
        <4>4. QED
          BY <4>2, <4>3
      <3>4. Holdings(t)[c] \in OfTool(t)!Live
        BY <1>4, <3>1, SameBreaker
      <3>5. OfTool(t)!Succeed(c) \/ OfTool(t)!Fail(c)
        <4>1. CASE b2 = AfterSuccess(b)
          <5>1. b2 = OfTool(t)!AfterSuccess(breaker[t])
            BY <3>1, <4>1, SameBreaker
          <5>2. OfTool(t)!Succeed(c)
            BY <3>1, <3>3, <3>4, <5>1, SameBreaker
               DEF OfTool!Succeed, OfTool!Report, OfTool!Outstanding, Holdings
          <5>3. QED
            BY <5>2
        <4>2. CASE b2 = AfterFailure(b)
          <5>1. b2 = OfTool(t)!AfterFailure(breaker[t])
            BY <3>1, <4>2, SameBreaker
          <5>2. OfTool(t)!Fail(c)
            BY <3>1, <3>3, <3>4, <5>1, SameBreaker
               DEF OfTool!Fail, OfTool!Report, OfTool!Outstanding, Holdings
          <5>3. QED
            BY <5>2
        <4>3. QED
          BY <1>1, <4>1, <4>2
      <3>6. QED
        BY <1>2, <3>5 DEF OfTool!CallersNext
    <2>5. CASE ToolOf(r, s) # t
      <3>1. breaker'[t] = breaker[t]
        BY <2>1, <2>5 DEF TypeOK
      <3>2. Holdings(t)' = Holdings(t)
        BY <2>2, <2>3, <2>5 DEF Holdings
      <3>3. QED
        BY <3>1, <3>2 DEF OfTool!callersVars, Holdings
    <2>6. QED
      BY <2>4, <2>5
  <1>5. CASE grant[r][s] \notin Live
    <2>1. breaker' = breaker /\ grant' = [grant EXCEPT ![r][s] = "done"] /\ grant[r][s] = "detached"
      BY <1>1, <1>3, <1>5 DEF Report
    <2>2. CASE ToolOf(r, s) = t
      <3>0. Holdings(t)' = [Holdings(t) EXCEPT ![c] = "done"]
        BY <1>2, <2>1, <2>2, HoldingsExcept DEF Regrants
      <3>1. Holdings(t)[c] = "detached"
        BY <1>2, <2>1, <2>2 DEF Holdings
      <3>2. OfTool(t)!ReportDetached(c)
        BY <2>1, <3>0, <3>1 DEF OfTool!ReportDetached, Holdings
      <3>3. QED
        BY <1>2, <3>2 DEF OfTool!CallersNext
    <2>3. CASE ToolOf(r, s) # t
      <3>1. Holdings(t)' = Holdings(t)
        BY <1>2, <2>1, <2>3, HoldingsExcept DEF Regrants
      <3>2. QED
        BY <2>1, <3>1 DEF OfTool!callersVars, Holdings
    <2>4. QED
      BY <2>2, <2>3
  <1>6. QED
    BY <1>4, <1>5

LEMMA CallersStep ==
  ASSUME BreakerInv, [Next]_vars, NEW t \in Tool
  PROVE  OfTool(t)!CallersNext \/ UNCHANGED OfTool(t)!callersVars
  <1>1. TypeOK /\ BatchWaits /\ GrantsFit
    BY DEF BreakerInv, LoopInv
  <1>2. ASSUME UNCHANGED <<plan, breaker, grant>> PROVE UNCHANGED OfTool(t)!callersVars
    BY <1>2 DEF OfTool!callersVars, ToolOf
  <1>3. ASSUME NEW x \in Tool, Cooldown(x) PROVE OfTool(t)!CallersNext \/ UNCHANGED OfTool(t)!callersVars
    <2>1. /\ Cooling(breaker[x]) /\ breaker' = [breaker EXCEPT ![x] = AfterCooldown(breaker[x])]
          /\ Holdings(t)' = Holdings(t)
      BY <1>3 DEF Cooldown, Holdings, ToolOf
    <2>2. CASE x = t
      <3>1. OfTool(t)!Cooldown
        BY <1>1, <2>1, <2>2, SameBreaker DEF OfTool!Cooldown, Holdings, TypeOK
      <3>2. QED
        BY <3>1 DEF OfTool!CallersNext
    <2>3. CASE x # t
      BY <1>1, <2>1, <2>3 DEF OfTool!callersVars, Holdings, TypeOK
    <2>4. QED
      BY <2>2, <2>3
  <1>4. ASSUME ResetCircuitBreakers PROVE OfTool(t)!CallersNext
    <2>1. /\ breaker'[t] = NewBreaker /\ plan' = plan
          /\ grant' = [r \in Run |-> [s \in Step |-> Dropped(grant[r][s])]]
      BY <1>4 DEF ResetCircuitBreakers
    <2>2. Dropped("none") = "none"
      BY DEF Dropped, Live
    <2>3. Holdings(t)' = [c \in Run \X Step |-> Dropped(Holdings(t)[c])]
      BY <2>1, <2>2 DEF Holdings, ToolOf
    <2>4. OfTool(t)!Replace
      BY <2>1, <2>3, SameBreaker DEF OfTool!Replace, Holdings
    <2>5. QED
      BY <2>4 DEF OfTool!CallersNext
  <1>5. ASSUME NEW r \in Run, NEW s \in Step, RunStep(r, s)
        PROVE  OfTool(t)!CallersNext \/ UNCHANGED OfTool(t)!callersVars
    <2>1. CallTool(r, s) \/ ToolFailsForNow(r, s) => UNCHANGED <<plan, breaker, grant>>
      BY DEF CallTool, ToolFailsForNow
    <2>2. QED
      BY <1>1, <1>2, <1>5, <2>1, LaunchOrTripAsks, ThrowingAbandons, ReportingReports DEF RunStep
  <1>6. ASSUME NEW r \in Run, NEW s \in Step, Execute(r) \/ Collect(r, s) \/ Reject(r, s)
        PROVE  UNCHANGED <<plan, breaker, grant>>
    BY <1>6 DEF Execute, Collect, Reject
  <1>7. ASSUME NEW r \in Run, Execute(r) PROVE UNCHANGED <<plan, breaker, grant>>
    BY <1>7 DEF Execute
  <1>8. UNCHANGED vars => UNCHANGED <<plan, breaker, grant>>
    BY DEF vars
  <1>9. QED
    BY <1>2, <1>3, <1>4, <1>5, <1>6, <1>7, <1>8 DEF Next

\* StepsAreBreakerCallers: for every tool, whatever calls run at a time, the
\* steps that use it are callers of one breaker, so that what BreakerCallers
\* promises its callers holds of the steps of all plans.
THEOREM AreCallers == Spec => StepsAreBreakerCallers
  <1>1. Init => \A t \in Tool : OfTool(t)!CallersInit
    <2> SUFFICES ASSUME Init, NEW t \in Tool PROVE OfTool(t)!CallersInit
      OBVIOUS
    <2>1. /\ breaker[t] = NewBreaker /\ \A r \in Run, s \in Step : grant[r][s] = "none"
      BY DEF Init
    <2>2. QED
      BY <2>1, SameBreaker DEF OfTool!CallersInit
  <1>2. BreakerInv /\ [Next]_vars =>
          [\A t \in Tool : [OfTool(t)!CallersNext]_(OfTool(t)!callersVars)]_vars
    BY CallersStep
  <1>3. QED
    BY <1>1, <1>2, BreakerInvariant, PTL DEF Spec, StepsAreBreakerCallers

=============================================================================
