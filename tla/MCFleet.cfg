SPECIFICATION FanOutFairSpec
CONSTANTS
  N = 4
  Size = 3
  Parallel = 2
  FailFast = TRUE
  Retries = 1
INVARIANTS EveryHostReported
PROPERTIES ResultIsFinal FanOutEnds
CHECK_DEADLOCK FALSE
