SPECIFICATION Spec
CONSTANTS
  o1 = o1
  o2 = o2
  o3 = o3
  k1 = k1
  k2 = k2
  Ops = {o1, o2}
  Keys = {k1, k2}
  NoKey = NoKey
  None = None
  KeyOf <- OwnKeys
  ArgOf <- OwnArgs
  ExclusiveKeys = {k1}
  MaxInFlight = 1
  AutoBump = TRUE
  AsyncHooks = FALSE
  MaxLag = 1
  WithSignal = {o1}
  Events = {"cancel", "destroy", "other"}
  MaxSeq = 3
INVARIANT AtMostOnce
INVARIANT SuccessMeansLanded
INVARIANT LandsInChainOrder
PROPERTY HandedForAWaitingCaller
PROPERTY ImplementsPromise
CHECK_DEADLOCK FALSE
