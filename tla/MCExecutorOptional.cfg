SPECIFICATION Spec
CONSTANTS
  Threshold = 9
  HalfOpenMax = 1
  Run = {r1}
  Step = {s1, s2}
  Tool = {t1}
  Plan <- SomePairs
  MaxRetries = 0
  CallbacksThrow = FALSE
INVARIANT OptionalFailureTolerated
CHECK_DEADLOCK FALSE
