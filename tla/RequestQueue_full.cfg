SPECIFICATION Spec
CONSTANTS
  r1 = r1
  r2 = r2
  r3 = r3
  r4 = r4
  r5 = r5
  Requests = {r1, r2, r3, r4, r5}
  Priority <- OneUrgent
  WithSignal = {r1}
  Timed = {r1}
  MaxConcurrent = 2
  RequestsPerSecond = 2
  MaxQueueSize = 2
  MaxRetries = 0
  Window = 2
SYMMETRY SymmetryButUrgent
INVARIANT WindowBound
INVARIANT NoLostWakeup
INVARIANT FifoWithinPriority
