SPECIFICATION HungSpec
CONSTANTS
  o1 = o1
  o2 = o2
  o3 = o3
  k1 = k1
  k2 = k2
  Ops = {o1, o2}
  Keys = {k1}
  NoKey = NoKey
  None = None
  KeyOf <- OneKey
  ArgOf <- OwnArgs
  ExclusiveKeys = {}
  MaxInFlight = 2
  AutoBump = FALSE
  AsyncHooks = FALSE
  MaxLag = 0
  WithSignal = {o1}
  Events = {}
  MaxSeq = 1
PROPERTY FreshCall
CHECK_DEADLOCK FALSE
