SPECIFICATION FairSpec
CONSTANTS
  a = a
  b = b
  c = c
  w1 = w1
  n1 = n1
  n2 = n2
  CacheKeys = {a, b, c}
  WillIds = {w1}
  Networks = {n1, n2}
  None = None
  MaxEntries = 1
  Rollback = TRUE
  ZeroTtls = {TRUE, FALSE}
  Document = FALSE
  Stored <- OneCorrupt
  MaxSets = 4
  Asked = {a, b}
  MaxLock = 1
  Events = {"invalidate", "byWill", "all", "clear", "network", "fail", "restart"}
INVARIANT IndexComplete
INVARIANT CapacityBound
PROPERTY HydrationEnds
CHECK_DEADLOCK FALSE
