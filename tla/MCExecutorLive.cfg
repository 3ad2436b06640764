\* Two calls of execute() on ordered plans: each of them ends, and
\* no step is refused for a probe slot that nobody holds.
SPECIFICATION FairSpec
CONSTANTS
  Threshold = 2
  HalfOpenMax = 1
  Run = {r1, r2}
  Step = {s1, s2}
  Tool = {t1}
  Plan <- FewPairs
  MaxRetries = 1
  CallbacksThrow = FALSE
PROPERTIES
  RefusedForAReason
  ExecuteEnds
  BreakersRecover
CHECK_DEADLOCK FALSE
