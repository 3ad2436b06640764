--------------------------- MODULE PlanExecution ---------------------------
(***************************************************************************)
(* What a caller of execute() may rely on, without breakers, retries and   *)
(* promises: a step is begun only when the steps it waits for have ended   *)
(* in its favour, a begun step ends once, and the result comes back in the *)
(* very step after which nothing is active and nothing more can begin.     *)
(* A call may also end in an error, and then the steps that are active are *)
(* left as they are.                                                       *)
(*                                                                         *)
(* TopologicalExecutor is shown to implement this.                         *)
(***************************************************************************)
CONSTANTS
  Run,            \* the calls
  Step,           \* the step ids
  Plan            \* the plans a call may be given

VARIABLES
  plan,           \* plan[r]: the plan of the call
  status,         \* status[r][s]: what is known of the step
  outcome         \* outcome[r]: what the call has come to

vars == <<plan, status, outcome>>

Statuses == {"pending", "active", "done", "failed"}
Outcomes == {"idle", "open", "result", "error"}

TypeOK ==
  /\ plan \in [Run -> Plan]
  /\ status \in [Run -> [Step -> Statuses]]
  /\ outcome \in [Run -> Outcomes]

\* The steps of plan p that may begin when the steps' statuses are st.
MayBegin(p, st) ==
  {s \in p.steps :
     /\ st[s] = "pending"
     /\ \A d \in p.deps[s] \intersect p.steps :
          st[d] = "done" \/ (st[d] = "failed" /\ p.optional[s])
     /\ p.deps[s] \subseteq p.steps}

Over(p, st) == MayBegin(p, st) = {} /\ \A s \in p.steps : st[s] # "active"

Init ==
  /\ plan \in [Run -> Plan]
  /\ status = [r \in Run |-> [s \in Step |-> "pending"]]
  /\ outcome = [r \in Run |-> "idle"]

Resolve(r, st) ==
  outcome' = [outcome EXCEPT ![r] = IF Over(plan[r], st) THEN "result" ELSE "open"]

Open(r) ==
  /\ outcome[r] = "idle"
  /\ Resolve(r, status[r])
  /\ UNCHANGED <<plan, status>>

Begin(r, s) ==
  /\ outcome[r] = "open"
  /\ s \in MayBegin(plan[r], status[r])
  /\ status' = [status EXCEPT ![r][s] = "active"]
  /\ UNCHANGED <<plan, outcome>>

End(r, s) ==
  /\ outcome[r] = "open"
  /\ status[r][s] = "active"
  /\ \E end \in {"done", "failed"} :
       status' = [status EXCEPT ![r][s] = end]
  /\ Resolve(r, status'[r])
  /\ UNCHANGED plan

GiveUp(r) ==
  /\ outcome[r] = "open"
  /\ outcome' = [outcome EXCEPT ![r] = "error"]
  /\ UNCHANGED <<plan, status>>

Next == \E r \in Run : \/ Open(r) \/ GiveUp(r)
                       \/ \E s \in Step : Begin(r, s) \/ End(r, s)

Spec == Init /\ [][Next]_vars

=============================================================================
