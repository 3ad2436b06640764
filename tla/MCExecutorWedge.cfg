SPECIFICATION FairSpec
CONSTANTS
  Threshold = 1
  HalfOpenMax = 1
  Run = {r1, r2}
  Step = {s1, s2}
  Tool = {t1}
  Plan <- Unordered
  MaxRetries = 0
  CallbacksThrow = TRUE
PROPERTY BreakersRecover
CHECK_DEADLOCK FALSE
