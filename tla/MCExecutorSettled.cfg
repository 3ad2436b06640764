\* A plan of two steps, one of which waits for the other; none may be optional.
SPECIFICATION Spec
CONSTANTS
  Threshold = 9
  HalfOpenMax = 1
  Run = {r1}
  Step = {s1, s2}
  Tool = {t1}
  Plan <- PlainPairs
  MaxRetries = 0
  CallbacksThrow = FALSE
INVARIANT EveryStepSettled
CHECK_DEADLOCK FALSE
