SPECIFICATION FairSpec
CONSTANTS
  o1 = o1
  o2 = o2
  o3 = o3
  k1 = k1
  k2 = k2
  Ops = {o1, o2, o3}
  Keys = {k1}
  NoKey = NoKey
  None = None
  KeyOf <- TwoAndUntracked
  ArgOf <- OwnArgs
  ExclusiveKeys = {}
  MaxInFlight = 2
  AutoBump = FALSE
  AsyncHooks = TRUE
  MaxLag = 0
  WithSignal = {}
  Events = {"cancel"}
  MaxSeq = 1
PROPERTY EveryCallSettles
PROPERTY EveryLinkEnds
CHECK_DEADLOCK FALSE
