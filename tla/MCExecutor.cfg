\* One call of execute() on every dependency relation over three steps, or two
\* calls whose steps share breakers, with retries, throwing callbacks, resets.
SPECIFICATION MCSpec
CONSTANTS
  Threshold = 2
  HalfOpenMax = 1
  Run = {r1, r2}
  Step = {s1, s2, s3}
  Tool = {t1}
  Plan <- ShapesAndUnordered
  MaxRetries = 1
  CallbacksThrow = TRUE
SYMMETRY Symmetry
ACTION_CONSTRAINT AloneWithoutRetries
INVARIANTS
  TypeOK
  DependencyOrder
  ReturnIsFinal
  SuccessMeansDone
PROPERTIES
  KeepsThePromise
  RunAtMostOnce
  StepsAreBreakerCallers
CHECK_DEADLOCK FALSE
