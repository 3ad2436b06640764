------------------------ MODULE TopologicalExecutor ------------------------
(***************************************************************************)
(* The executor of packages/runtime: execute() runs the steps of a plan in *)
(* dependency order, in parallel where it can, retrying each step and      *)
(* passing each step once through the circuit breaker of its tool.  One    *)
(* executor serves several execute() calls at a time (user instructions    *)
(* and agent intents share it), and the breakers are shared by all.        *)
(*                                                                         *)
(* JavaScript runs a handler to its next await before any other.  The part *)
(* of execute() that launches a batch of ready steps is such a stretch: it *)
(* runs each step up to the call of its tool.  It is modelled step by step *)
(* (Launch, then CallTool or CannotCall) with the thread held by the run:  *)
(* see Held and Quiet.                                                     *)
(*                                                                         *)
(* The steps of a plan are a set: the array order only fixes the order in  *)
(* which the ready steps of one batch are launched, and every order of     *)
(* launching is that of some array.  Step ids are distinct, as types.ts    *)
(* says; dependsOn may name ids that are not in the plan.                  *)
(***************************************************************************)
EXTENDS CircuitBreaker, FiniteSets

CONSTANTS
  Run,            \* the calls of execute()
  Step,           \* step ids
  Tool,           \* tool names
  Plan,           \* the plans an execute() call may be given
  MaxRetries,     \* retryConfig.maxRetries
  CallbacksThrow  \* whether onStepStart and onStepComplete may throw

Plans == [steps    : SUBSET Step,
          deps     : [Step -> SUBSET Step],     \* dependsOn
          optional : [Step -> BOOLEAN],
          tool     : [Step -> Tool]]

ASSUME ExecutorAssumption ==
  /\ IsFiniteSet(Run) /\ IsFiniteSet(Step)
  /\ Plan \subseteq Plans
  /\ MaxRetries \in Nat
  /\ CallbacksThrow \in BOOLEAN

VARIABLES
  plan,           \* plan[r]: the argument of the call
  pc,             \* pc[r]: where execute() is
  batch,          \* batch[r]: ready steps the loop has still to launch
  phase,          \* phase[r][s]: where runStep() is
  attempt,        \* attempt[r][s]: the loop variable of runStep()
  result,         \* result[r][s]: the StepResult, once runStep() is over
  breaker,        \* toolCircuitBreakers
  grant           \* grant[r][s]: what the step holds of the breaker it got

vars == <<plan, pc, batch, phase, attempt, result, breaker, grant>>

Controls == {"idle", "running", "returned", "rejected"}
Phases   == {"waiting",     \* not launched
             "attempting",  \* before the call of the tool, thread held
             "calling",     \* awaiting tool.execute()
             "sleeping",    \* awaiting the backoff timer
             "settled",     \* the promise of runStep() is settled
             "collected"}   \* in completed or in failed
InFlight == Phases \ {"waiting", "collected"}       \* the keys of inFlight
Results  == {"none", "success", "failure", "tripped", "threw"}

TypeOK ==
  /\ plan    \in [Run -> Plan]
  /\ pc      \in [Run -> Controls]
  /\ batch   \in [Run -> SUBSET Step]
  /\ phase   \in [Run -> [Step -> Phases]]
  /\ attempt \in [Run -> [Step -> 0..MaxRetries]]
  /\ result  \in [Run -> [Step -> Results]]
  /\ breaker \in [Tool -> Breaker]
  /\ grant   \in [Run -> [Step -> Grants]]

Init ==
  /\ plan    \in [Run -> Plan]
  /\ pc      = [r \in Run |-> "idle"]
  /\ batch   = [r \in Run |-> {}]
  /\ phase   = [r \in Run |-> [s \in Step |-> "waiting"]]
  /\ attempt = [r \in Run |-> [s \in Step |-> 0]]
  /\ result  = [r \in Run |-> [s \in Step |-> "none"]]
  /\ breaker = [t \in Tool |-> NewBreaker]
  /\ grant   = [r \in Run |-> [s \in Step |-> "none"]]

-----------------------------------------------------------------------------
(* The loop of execute()                                                   *)

Steps(r) == plan[r].steps
ToolOf(r, s) == plan[r].tool[s]

Held(r) == batch[r] # {} \/ \E s \in Step : phase[r][s] = "attempting"
Quiet   == \A r \in Run : ~Held(r)

\* The sets completed and failed when the phases of r's steps are ph.
Completed(r, ph) ==
  {s \in Steps(r) : ph[s] = "collected" /\ result[r][s] = "success"}
Failed(r, ph) ==
  {s \in Steps(r) : ph[s] = "collected" /\ result[r][s] # "success"}

\* step.dependsOn.every(...): it is the optional flag of the waiting step
\* that lets it run after a failed dependency.
Satisfied(r, s, ph) ==
  \A d \in plan[r].deps[s] :
    \/ d \in Completed(r, ph)
    \/ plan[r].optional[s] /\ d \in Failed(r, ph)

\* Mutant: a step runs as soon as one of its dependencies was run.
ReadyTooSoon(r, ph) ==
  {s \in Steps(r) :
     /\ ph[s] = "waiting"
     /\ plan[r].deps[s] # {} => plan[r].deps[s] \intersect Completed(r, ph) # {}}

\* Mutant: the filter forgets the steps that are over.
ReadyAgain(r, ph) ==
  {s \in Steps(r) : ph[s] \in {"waiting", "collected"} /\ Satisfied(r, s, ph)}

Ready(r, ph) == {s \in Steps(r) : ph[s] = "waiting" /\ Satisfied(r, s, ph)}

\* Mutant: the loop stops one step short of plan.steps.length.
AllSettledButOne(r, ph) ==
  Cardinality({s \in Steps(r) : ph[s] # "collected"}) <= 1

AllSettled(r, ph) == \A s \in Steps(r) : ph[s] = "collected"
\* Mutant: the loop is left while steps are in flight.
NothingReady(r, ph) == Ready(r, ph) = {}

\* Mutant: the loop is not left when nothing more can run.
NeverStuck(r, ph) == FALSE

NothingLeft(r, ph) ==
  Ready(r, ph) = {} /\ \A s \in Steps(r) : ph[s] \notin InFlight

\* The head of the loop, and the launch of what is ready.
Loop(r, ph) ==
  IF AllSettled(r, ph) \/ NothingLeft(r, ph)
  THEN /\ pc' = [pc EXCEPT ![r] = "returned"]
       /\ UNCHANGED batch
  ELSE /\ pc' = [pc EXCEPT ![r] = "running"]
       /\ batch' = [batch EXCEPT ![r] = Ready(r, ph)]

Execute(r) ==
  /\ Quiet
  /\ pc[r] = "idle"
  /\ Loop(r, phase[r])
  /\ UNCHANGED <<plan, phase, attempt, result, breaker, grant>>

\* Promise.race() yields a settled step; the loop records it and goes on.
Collect(r, s) ==
  /\ Quiet
  /\ pc[r] = "running"
  /\ phase[r][s] = "settled"
  /\ result[r][s] # "threw"
  /\ phase' = [phase EXCEPT ![r][s] = "collected"]
  /\ Loop(r, phase'[r])
  /\ UNCHANGED <<plan, attempt, result, breaker, grant>>

\* onStepStart rejected the promise of runStep(), or onStepComplete throws:
\* execute() rejects and leaves the steps in flight to themselves.
Reject(r, s) ==
  /\ Quiet
  /\ pc[r] = "running"
  /\ phase[r][s] = "settled"
  /\ result[r][s] = "threw" \/ CallbacksThrow
  /\ pc' = [pc EXCEPT ![r] = "rejected"]
  /\ UNCHANGED <<plan, batch, phase, attempt, result, breaker, grant>>

-----------------------------------------------------------------------------
(* runStep()                                                               *)

\* The promise of runStep() settles with res.
Settle(r, s, res) ==
  /\ phase' = [phase EXCEPT ![r][s] = "settled"]
  /\ result' = [result EXCEPT ![r][s] = res]

NextInBatch(r, s) ==
  /\ s \in batch[r]
  /\ \A u \in Step : phase[r][u] # "attempting"
  /\ batch' = [batch EXCEPT ![r] = @ \ {s}]

\* The breaker of the tool lets the step through; its first attempt begins.
Launch(r, s) ==
  LET t == ToolOf(r, s) IN
  /\ NextInBatch(r, s)
  /\ Allows(breaker[t])
  /\ breaker' = [breaker EXCEPT ![t] = AfterAllow(@)]
  /\ grant' = [grant EXCEPT ![r][s] = GrantOf(breaker[t])]
  /\ phase' = [phase EXCEPT ![r][s] = "attempting"]
  /\ UNCHANGED <<plan, pc, attempt, result>>

\* Mutant: a fast failure is reported like one of the tool.
TripReported(r, s) ==
  LET t == ToolOf(r, s) IN
  /\ NextInBatch(r, s)
  /\ ~Allows(breaker[t])
  /\ breaker' = [breaker EXCEPT ![t] = AfterFailure(@)]
  /\ grant' = [grant EXCEPT ![r][s] = "refused"]
  /\ Settle(r, s, "tripped")
  /\ UNCHANGED <<plan, pc, attempt>>

\* The step fails fast, before onStepStart.
Trip(r, s) ==
  /\ NextInBatch(r, s)
  /\ ~Allows(breaker[ToolOf(r, s)])
  /\ grant' = [grant EXCEPT ![r][s] = "refused"]
  /\ Settle(r, s, "tripped")
  /\ UNCHANGED <<plan, pc, attempt, breaker>>

\* onStepStart throws: runStep() rejects without a report to the breaker.
StartThrows(r, s) ==
  /\ CallbacksThrow
  /\ phase[r][s] = "attempting"
  /\ grant' = [grant EXCEPT ![r][s] = "abandoned"]
  /\ Settle(r, s, "threw")
  /\ UNCHANGED <<plan, pc, batch, attempt, breaker>>

\* An attempt begins: at once after Launch, or when the backoff timer fires.
AttemptBegins(r, s) ==
  \/ phase[r][s] = "attempting"
  \/ phase[r][s] = "sleeping" /\ Quiet

CallTool(r, s) ==
  /\ AttemptBegins(r, s)
  /\ phase' = [phase EXCEPT ![r][s] = "calling"]
  /\ UNCHANGED <<plan, pc, batch, attempt, result, breaker, grant>>

\* The grants after s of r has reported and turned its breaker into b2.
GrantsAfter(r, s, b2) ==
  [q \in Run |-> [u \in Step |->
     IF q = r /\ u = s THEN "done"
     ELSE IF ToolOf(q, u) = ToolOf(r, s)
          THEN Aged(grant[q][u], breaker[ToolOf(r, s)], b2)
          ELSE grant[q][u]]]

\* The step is over with res; its report turns the breaker of its tool, if
\* it still holds the one in the map, into b2.
Report(r, s, res, b2) ==
  /\ Settle(r, s, res)
  /\ IF grant[r][s] \in Live
     THEN /\ breaker' = [breaker EXCEPT ![ToolOf(r, s)] = b2]
          /\ grant' = GrantsAfter(r, s, b2)
     ELSE /\ grant' = [grant EXCEPT ![r][s] = "done"]
          /\ UNCHANGED breaker
  /\ UNCHANGED <<plan, pc, batch, attempt>>

\* Mutant: an error that is not retryable is not reported to the breaker.
CannotCallUnreported(r, s) ==
  /\ AttemptBegins(r, s)
  /\ Settle(r, s, "failure")
  /\ grant' = [grant EXCEPT ![r][s] = "abandoned"]
  /\ UNCHANGED <<plan, pc, batch, attempt, breaker>>

\* The tool is not in the registry (any more) or an argument is UNRESOLVED:
\* the error is not retryable.
CannotCall(r, s) ==
  /\ AttemptBegins(r, s)
  /\ Report(r, s, "failure", AfterFailure(breaker[ToolOf(r, s)]))

ToolSucceeds(r, s) ==
  /\ Quiet
  /\ phase[r][s] = "calling"
  /\ Report(r, s, "success", AfterSuccess(breaker[ToolOf(r, s)]))

\* The last attempt failed, or the error is not retryable.
ToolFails(r, s) ==
  /\ Quiet
  /\ phase[r][s] = "calling"
  /\ Report(r, s, "failure", AfterFailure(breaker[ToolOf(r, s)]))

\* Mutant: one retry more than maxRetries.
ToolFailsOnceMore(r, s) ==
  /\ Quiet
  /\ phase[r][s] = "calling"
  /\ attempt[r][s] <= MaxRetries
  /\ attempt' = [attempt EXCEPT ![r][s] = @ + 1]
  /\ phase' = [phase EXCEPT ![r][s] = "sleeping"]
  /\ UNCHANGED <<plan, pc, batch, result, breaker, grant>>

ToolFailsForNow(r, s) ==
  /\ Quiet
  /\ phase[r][s] = "calling"
  /\ attempt[r][s] < MaxRetries
  /\ attempt' = [attempt EXCEPT ![r][s] = @ + 1]
  /\ phase' = [phase EXCEPT ![r][s] = "sleeping"]
  /\ UNCHANGED <<plan, pc, batch, result, breaker, grant>>

RunStep(r, s) ==
  \/ Launch(r, s) \/ Trip(r, s) \/ StartThrows(r, s)
  \/ CallTool(r, s) \/ CannotCall(r, s)
  \/ ToolSucceeds(r, s) \/ ToolFails(r, s) \/ ToolFailsForNow(r, s)

-----------------------------------------------------------------------------
(* Time, and the executor's public reset                                   *)

Cooldown(t) ==
  /\ Cooling(breaker[t])
  /\ breaker' = [breaker EXCEPT ![t] = AfterCooldown(@)]
  /\ UNCHANGED <<plan, pc, batch, phase, attempt, result, grant>>

\* The map is cleared, by anyone: a callback or a tool may do it in the middle
\* of a batch.  Steps in flight keep the objects they hold.
ResetCircuitBreakers ==
  /\ breaker' = [t \in Tool |-> NewBreaker]
  /\ grant' = [r \in Run |-> [s \in Step |-> Dropped(grant[r][s])]]
  /\ UNCHANGED <<plan, pc, batch, phase, attempt, result>>

Next ==
  \/ \E r \in Run : \/ Execute(r)
                    \/ \E s \in Step : Collect(r, s) \/ Reject(r, s)
                                         \/ RunStep(r, s)
  \/ \E t \in Tool : Cooldown(t)
  \/ ResetCircuitBreakers

Spec == Init /\ [][Next]_vars

\* The event loop runs what is runnable, timers fire, and - an assumption
\* about the tools, since the executor sets no deadline - every call settles.
Fairness ==
  /\ \A r \in Run, s \in Step : WF_vars(RunStep(r, s))
  /\ \A r \in Run : WF_vars(\E s \in Step : Collect(r, s) \/ Reject(r, s))

FairSpec == Spec /\ Fairness

-----------------------------------------------------------------------------
(* Safety                                                                  *)

\* No step is begun before the steps it waits for: every step that is in a
\* batch, in flight or over had each dependency completed, or failed where
\* the step itself is optional.  Dependencies are judged by the sets that
\* the loop fills after each Promise.race, while other steps settle.
DependencyOrder ==
  \A r \in Run : \A s \in Steps(r) :
    s \in batch[r] \/ phase[r][s] # "waiting" => Satisfied(r, s, phase[r])

\* When execute() returns a result, no step of the plan is still running
\* behind the caller's back, and each step that was not run waits for a
\* step that failed, was not run or is not in the plan: the loop neither
\* stops too early nor overlooks a step that could run.  That every step is
\* run or failed is not so: see EveryStepSettled.
ReturnIsFinal ==
  \A r \in Run : pc[r] = "returned" =>
    \A s \in Steps(r) :
      \/ phase[r][s] = "collected"
      \/ /\ phase[r][s] = "waiting"
         /\ \E d \in plan[r].deps[s] :
              \/ d \notin Steps(r)
              \/ phase[r][d] = "waiting"
              \/ d \in Failed(r, phase[r]) /\ ~plan[r].optional[s]

\* types.ts: "The DAG of steps".  Every set of steps has one that waits for
\* none of the set, and every dependency is a step of the plan.
IsDAG(p) ==
  /\ \A s \in p.steps : p.deps[s] \subseteq p.steps
  /\ \A S \in SUBSET p.steps \ {{}} : \E s \in S : p.deps[s] \intersect S = {}

\* result.success says "failed.size === 0", which alone does not say that
\* the plan was carried out.  For a DAG it does: if a result with success
\* comes back, every step was run and succeeded.
SuccessMeansDone ==
  \A r \in Run :
    pc[r] = "returned" /\ IsDAG(plan[r]) /\ Failed(r, phase[r]) = {}
      => Completed(r, phase[r]) = Steps(r)

\* A step is run at most once per call, retries aside: once runStep() is
\* over the step is never launched again and its result stands.
RunAtMostOnce ==
  [][ \A r \in Run, s \in Step :
        phase[r][s] \in {"settled", "collected"} =>
          /\ phase'[r][s] \in {"settled", "collected"}
          /\ result'[r][s] = result[r][s] ]_vars

\* A step fails fast only when its tool has lately failed, or while another
\* step is out probing the tool: never because of a probe slot that no one
\* holds any more.  (Not so when callbacks throw.)
RefusedForAReason ==
  [][ \A r \in Run, s \in Step :
        result[r][s] = "none" /\ result'[r][s] = "tripped" =>
          \/ Cooling(breaker[ToolOf(r, s)])
          \/ \E q \in Run, u \in Step :
               /\ ToolOf(q, u) = ToolOf(r, s)
               /\ grant[q][u] = "probe" /\ phase[q][u] \in InFlight ]_vars

\* For each tool, the steps that use it are callers of one circuit breaker:
\* BreakerCallers is what they promise each other.
OfTool(t) == INSTANCE BreakerCallers
  WITH Caller <- Run \X Step, MayAbandon <- CallbacksThrow,
       breaker <- breaker[t],
       grant <- [c \in Run \X Step |->
                   IF ToolOf(c[1], c[2]) = t THEN grant[c[1]][c[2]] ELSE "none"]

StepsAreBreakerCallers ==
  /\ \A t \in Tool : OfTool(t)!CallersInit
  /\ [][ \A t \in Tool : [OfTool(t)!CallersNext]_(OfTool(t)!callersVars) ]_vars

\* The executor keeps the promises of PlanExecution, whatever the breakers,
\* retries and resets do: batches, promises and races come to steps that
\* begin in order and end once, and a result that is not early and not late.
Status ==
  [r \in Run |-> [s \in Step |->
     IF phase[r][s] = "waiting" THEN "pending"
     ELSE IF phase[r][s] \in InFlight THEN "active"
     ELSE IF result[r][s] = "success" THEN "done" ELSE "failed"]]

OutcomeOf == [idle |-> "idle", running |-> "open",
              returned |-> "result", rejected |-> "error"]

Outcome == [r \in Run |-> OutcomeOf[pc[r]]]

Promise == INSTANCE PlanExecution WITH status <- Status, outcome <- Outcome

KeepsThePromise == Promise!Spec

-----------------------------------------------------------------------------
(* Liveness                                                                *)

\* Every call of execute() comes to an end.
ExecuteEnds ==
  \A r \in Run : pc[r] = "running" ~> pc[r] \in {"returned", "rejected"}

\* topological-executor.test.ts:185 "recovers after cooldown when tool starts
\* succeeding": a breaker does not stay HALF_OPEN, where it refuses its tool.
BreakersRecover ==
  \A t \in Tool : breaker[t].state = "HALF_OPEN" ~>
                    breaker[t].state # "HALF_OPEN"

-----------------------------------------------------------------------------
(* What the documentation says and the code does not do.                   *)

\* topological-executor.ts:4-6: "every step is either completed or failed
\* before the plan terminates", and :81, that the loop finds nothing to run
\* "should never happen for a valid plan".
EveryStepSettled ==
  \A r \in Run : pc[r] = "returned" /\ IsDAG(plan[r]) => AllSettled(r, phase[r])

\* router/types.ts:20-21, docs/04-the-runtime.md:157: the failure of an
\* optional step "doesn't abort the plan".
OptionalFailureTolerated ==
  \A r \in Run :
    /\ pc[r] = "returned" /\ IsDAG(plan[r])
    /\ \A s \in Failed(r, phase[r]) : plan[r].optional[s]
    => AllSettled(r, phase[r])

=============================================================================
