SPECIFICATION FairSpec
CONSTANTS
  a = a
  b = b
  Calls = {a, b}
  None = None
  InitialSize = 1
  MaxSize = 2
  Latencies = {1}
  TimeoutMaxAttempts = 2
  FailoverCooldown = 1
  BackoffBase = 1
  BackoffMax = 1
  Threshold = 1
  CircuitCooldown = 1
  Events = {"rotate", "add"}
INVARIANT BreakerFollowsFailures
PROPERTY LeavesOnlyFailing
PROPERTY EveryCallEnds
