SPECIFICATION FairSpec
CONSTANTS
  r1 = r1
  r2 = r2
  r3 = r3
  r4 = r4
  r5 = r5
  Requests = {r1, r2, r3}
  Priority <- OneUrgent
  WithSignal = {r2}
  Timed = {r1, r2, r3}
  MaxConcurrent = 2
  RequestsPerSecond = 1
  MaxQueueSize = 2
  MaxRetries = 1
  Window = 2
INVARIANT NeverRunsSettled
PROPERTY EveryRequestSettles
