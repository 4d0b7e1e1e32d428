SPECIFICATION Spec
CONSTANTS
  o1 = o1
  o2 = o2
  o3 = o3
  k1 = k1
  k2 = k2
  Ops = {o1, o2, o3}
  Keys = {k1}
  NoKey = NoKey
  None = None
  KeyOf <- OneKey
  ArgOf <- OwnArgs
  ExclusiveKeys = {k1}
  MaxInFlight = 2
  AutoBump = FALSE
  AsyncHooks = FALSE
  MaxLag = 0
  WithSignal = {}
  Events = {"cancel", "expire"}
  MaxSeq = 3
SYMMETRY Symmetry
INVARIANT ExclusiveAdmission
CHECK_DEADLOCK FALSE
