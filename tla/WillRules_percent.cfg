SPECIFICATION WillSpec
CONSTANTS
  MaxEvents = 4
  Wanted <- Wanted134
  PageSize = 2
  MaxThrows = 1
  MaxBare = 1
  Transports = {"socket", "polling"}
  Submits = {1}
  Autos = {2}
  Original = 0
  NoEnvelope = 9
  MaxFee = 3
  InnerPerOp = 2
  InnerFee = 2
  Cap = 2
  FeeOptions = {"estimate", "fee", "nothing"}
  Length = 3
  MaxRetries = 1
  Policies = {"stop", "continue"}
  Callers = {1, 2}
  Fetches = {1, 2, 3}
  MaxVersion = 2
  SpecTtl = 1
  Queues = {1, 2, 3, 4}
  NoQueue = 0
  Period = 3
  Grace = 1
  TicksPerSecond = 2
  MaxTime = 9
  None = None
  Percent = 100
  MaxBeneficiaries = 3
  Lists <- FractionLists
  BcCalls = {1, 2}
  BcApps = {3}
  BcNetworks = {"ours", "other"}
  BcOurs = "ours"
  BcNone = None
  MsCollectors = {1, 2}
  MsSigners = {1, 2}
  MsThreshold = 2
  MsTimeout = 1
  MsMaxAge = 1
  MsNone = None
  NoAmount = NoAmount
  Absent = Absent
  Malformed = Malformed
  NoCode = NoCode
  KnownCodes = {1}
INVARIANT WrittenIsReadable
CHECK_DEADLOCK FALSE
