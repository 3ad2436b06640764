--------------------------- MODULE CircuitBreaker ---------------------------
(***************************************************************************)
(* The per-tool circuit breaker of packages/runtime, as a value and the    *)
(* functions its methods apply to it.  The class holds no reference to its *)
(* callers, so the value is shared by the modules that model the callers.  *)
(*                                                                         *)
(* lastFailureTime is compared with the clock in one place only, while the *)
(* breaker is OPEN, so it is kept as one bit: "cooled" says that at least  *)
(* cooldownMs passed since the failure that opened the breaker.            *)
(***************************************************************************)
EXTENDS Naturals

CONSTANTS
  Threshold,      \* options.threshold: failures that open the breaker
  HalfOpenMax     \* options.halfOpenMaxRequests: probes of one HALF_OPEN spell

ASSUME OptionsAssumption ==
  /\ Threshold   \in Nat \ {0}
  /\ HalfOpenMax \in Nat \ {0}

CircuitState == {"CLOSED", "OPEN", "HALF_OPEN"}

Breaker == [state            : CircuitState,
            failureCount     : Nat,
            cooled           : BOOLEAN,
            halfOpenAccepted : Nat]

\* new CircuitBreaker(options); reset() returns a breaker to the same value.
NewBreaker == [state |-> "CLOSED", failureCount |-> 0,
               cooled |-> FALSE, halfOpenAccepted |-> 0]

\* Mutant: the HALF_OPEN limit is off by one.
AllowsOneMore(b) ==
  \/ b.state = "CLOSED"
  \/ b.state = "OPEN" /\ b.cooled
  \/ b.state = "HALF_OPEN" /\ b.halfOpenAccepted <= HalfOpenMax

\* The answer of allowRequest().
Allows(b) ==
  \/ b.state = "CLOSED"
  \/ b.state = "OPEN" /\ b.cooled
  \/ b.state = "HALF_OPEN" /\ b.halfOpenAccepted < HalfOpenMax

\* The breaker after allowRequest() answered true.
AfterAllow(b) ==
  IF b.state = "CLOSED" THEN b
  ELSE [state            |-> "HALF_OPEN",
        failureCount     |-> b.failureCount,
        cooled           |-> FALSE,
        halfOpenAccepted |-> IF b.state = "OPEN" THEN 1
                             ELSE b.halfOpenAccepted + 1]

\* Mutant: a success closes the breaker whatever its state.
AfterSuccessCloses(b) == [NewBreaker EXCEPT !.cooled = b.cooled]

AfterSuccess(b) ==
  [state            |-> IF b.state = "HALF_OPEN" THEN "CLOSED" ELSE b.state,
   failureCount     |-> 0,
   cooled           |-> b.cooled,
   halfOpenAccepted |-> 0]

\* Mutant: the breaker opens one failure late.
AfterFailureLate(b) ==
  [state            |-> IF \/ b.failureCount + 1 > Threshold
                           \/ b.state = "HALF_OPEN"
                        THEN "OPEN" ELSE b.state,
   failureCount     |-> b.failureCount + 1,
   cooled           |-> FALSE,
   halfOpenAccepted |-> b.halfOpenAccepted]

\* Mutant: a failed probe below the threshold does not open the breaker.
AfterFailureOfProbe(b) ==
  [state            |-> IF b.failureCount + 1 >= Threshold
                        THEN "OPEN" ELSE b.state,
   failureCount     |-> b.failureCount + 1,
   cooled           |-> FALSE,
   halfOpenAccepted |-> b.halfOpenAccepted]

AfterFailure(b) ==
  [state            |-> IF \/ b.failureCount + 1 >= Threshold
                           \/ b.state = "HALF_OPEN"
                        THEN "OPEN" ELSE b.state,
   failureCount     |-> b.failureCount + 1,
   cooled           |-> FALSE,
   halfOpenAccepted |-> b.halfOpenAccepted]

\* Time passes: the cooldown that began with the last failure is over.
AfterCooldown(b) == [b EXCEPT !.cooled = TRUE]

Cooling(b) == b.state = "OPEN" /\ ~b.cooled

-----------------------------------------------------------------------------
(***************************************************************************)
(* What a caller of allowRequest() holds of the breaker.  The code keeps   *)
(* no such record; it is the history that the properties speak of.         *)
(*                                                                         *)
(* none       not asked yet                                                *)
(* refused    allowRequest() answered false                                *)
(* call       let through while CLOSED, not reported                       *)
(* probe      let through in the present HALF_OPEN spell, not reported     *)
(* superseded let through in an earlier HALF_OPEN spell, not reported      *)
(* detached   holds an object the executor's map has since dropped         *)
(* abandoned  left without reporting                                       *)
(* done       reported                                                     *)
(***************************************************************************)
Grants == {"none", "refused", "call", "probe", "superseded", "detached",
           "abandoned", "done"}

Live == {"call", "probe", "superseded"}      \* the report will be heard

\* The grant that allowRequest() gives in state b.
GrantOf(b) == IF b.state = "CLOSED" THEN "call" ELSE "probe"

\* What becomes of another caller's grant when the breaker turns from b to
\* b2: the probes of a spell that is over are superseded.
Aged(g, b, b2) ==
  IF g = "probe" /\ b.state = "HALF_OPEN" /\ b2.state # "HALF_OPEN"
  THEN "superseded" ELSE g

\* What becomes of a grant when the breaker object is dropped.
Dropped(g) == IF g \in Live THEN "detached" ELSE g

=============================================================================
