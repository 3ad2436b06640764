--------------------------- MODULE BreakerCallers ---------------------------
(***************************************************************************)
(* One circuit breaker and the calls that pass through it.  A caller asks  *)
(* allowRequest() once and, when it is let through, reports back once with *)
(* recordSuccess() or recordFailure().  Nothing orders the reports: a call *)
(* that was let through while the breaker was CLOSED may report after the  *)
(* breaker opened, cooled down and began to probe.                         *)
(*                                                                         *)
(* This is what the breaker is for every step that runs a given tool;      *)
(* TopologicalExecutor is shown to implement it, tool by tool.             *)
(***************************************************************************)
EXTENDS CircuitBreaker, FiniteSets

CONSTANTS
  Caller,         \* the calls that may be made
  MayAbandon      \* whether a caller that was let through may never report

ASSUME CallersAssumption == IsFiniteSet(Caller) /\ MayAbandon \in BOOLEAN

VARIABLES
  breaker,        \* the CircuitBreaker object of the tool
  grant           \* what each caller holds of it

callersVars == <<breaker, grant>>

Outstanding(c) == grant[c] \in Live

CallersTypeOK ==
  /\ breaker \in Breaker
  /\ grant \in [Caller -> Grants]

CallersInit ==
  /\ breaker = NewBreaker
  /\ grant = [c \in Caller |-> "none"]

Admit(c) ==
  /\ grant[c] = "none"
  /\ Allows(breaker)
  /\ breaker' = AfterAllow(breaker)
  /\ grant' = [grant EXCEPT ![c] = GrantOf(breaker)]

Refuse(c) ==
  /\ grant[c] = "none"
  /\ ~Allows(breaker)
  /\ grant' = [grant EXCEPT ![c] = "refused"]
  /\ UNCHANGED breaker

\* c's report turns the breaker into b2.
Report(c, b2) ==
  /\ Outstanding(c)
  /\ breaker' = b2
  /\ grant' = [d \in Caller |-> IF d = c THEN "done"
                                ELSE Aged(grant[d], breaker, b2)]

Succeed(c) == Report(c, AfterSuccess(breaker))
Fail(c)    == Report(c, AfterFailure(breaker))

\* A caller that holds a dropped object reports to it: nobody reads that
\* object again.
ReportDetached(c) ==
  /\ grant[c] = "detached"
  /\ grant' = [grant EXCEPT ![c] = "done"]
  /\ UNCHANGED breaker

\* The caller throws between allowRequest() and its report.
Abandon(c) ==
  /\ MayAbandon
  /\ Outstanding(c) \/ grant[c] = "detached"
  /\ grant' = [grant EXCEPT ![c] = "abandoned"]
  /\ UNCHANGED breaker

Cooldown ==
  /\ Cooling(breaker)
  /\ breaker' = AfterCooldown(breaker)
  /\ UNCHANGED grant

\* resetCircuitBreakers() drops the object; the next caller makes a new one.
Replace ==
  /\ breaker' = NewBreaker
  /\ grant' = [c \in Caller |-> Dropped(grant[c])]

CallersNext ==
  \/ \E c \in Caller : \/ Admit(c) \/ Refuse(c)
                       \/ Succeed(c) \/ Fail(c) \/ ReportDetached(c)
                       \/ Abandon(c)
  \/ Cooldown
  \/ Replace

CallersSpec == CallersInit /\ [][CallersNext]_callersVars

-----------------------------------------------------------------------------

Probes == {c \in Caller : grant[c] = "probe"}

\* A breaker that lets everything through has not reached its threshold: no
\* order of late successes and failures leaves it CLOSED with the count at
\* or above the limit (recordFailure, recordSuccess).
ClosedBelowThreshold ==
  breaker.state = "CLOSED" => breaker.failureCount < Threshold

\* The counter of accepted probes is the number of probes that are out, so a
\* HALF_OPEN spell never has more than halfOpenMaxRequests of its own, and
\* a breaker that is not HALF_OPEN has none (allowRequest, recordSuccess).
SpellWithinLimit ==
  /\ breaker.state = "HALF_OPEN" =>
       /\ Cardinality(Probes) <= breaker.halfOpenAccepted
       /\ breaker.halfOpenAccepted <= HalfOpenMax
  /\ breaker.state # "HALF_OPEN" => Probes = {}

\* A HALF_OPEN breaker that has used up its probes refuses everything until
\* one of them reports.  There is always one that will, unless a caller left
\* without a report; without it the tool is unusable for the whole session.
SomebodyWillDecide ==
  breaker.state = "HALF_OPEN" => \E c \in Caller : grant[c] \in {"probe", "abandoned"}

\* An open circuit closes only by way of HALF_OPEN, unless the breaker
\* object is replaced: late successes of calls that were let through before
\* the trip do not close it.
NoShortcutToClosed ==
  [][ breaker.state = "OPEN" /\ breaker'.state = "CLOSED"
      => breaker' = NewBreaker /\ \A c \in Caller : ~Outstanding(c)' ]_callersVars

=============================================================================
