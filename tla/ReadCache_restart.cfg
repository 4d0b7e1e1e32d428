SPECIFICATION Spec
CONSTANTS
  a = a
  b = b
  c = c
  w1 = w1
  n1 = n1
  n2 = n2
  CacheKeys = {a, b}
  WillIds = {w1}
  Networks = {n1}
  None = None
  MaxEntries = 1
  Rollback = FALSE
  ZeroTtls = {FALSE}
  Document = FALSE
  Stored <- TwoLeft
  MaxSets = 4
  Asked = {a, b}
  MaxLock = 2
  Events = {"invalidate", "byWill", "all", "expire", "fail", "restart"}
INVARIANT InvalidationSurvives
INVARIANT StoreFollowsMemory
INVARIANT NeverOlder
