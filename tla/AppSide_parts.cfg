SPECIFICATION AppSpec
CONSTANTS
  c1 = c1
  c2 = c2
  c3 = c3
  c4 = c4
  one = one
  list = list
  w1 = w1
  w2 = w2
  short = short
  long = long
  Calls = {c1, c2, c3, c4}
  Queries = {one, list}
  Options = {short, long}
  Wills = {w1, w2}
  None = None
  QueryOf <- MCQueryOf
  OptionsOf <- MCOptionsOf
  Covers <- MCCovers
  Lists = {list}
  WithSignal = {c4}
  MaxAttempts = 2
  Created = {w1}
  Events = {"create", "batch", "expire", "age", "network", "destroy"}
  MaxChanges = 1
  f1 = f1
  f2 = f2
  a1 = a1
  a2 = a2
  n1 = n1
  n2 = n2
  s1 = s1
  s2 = s2
  s3 = s3
  t1 = t1
  t2 = t2
  t3 = t3
  i1 = i1
  i2 = i2
  m1 = m1
  m2 = m2
  FrOps = {f1, f2}
  FrAccounts = {a1, a2}
  FrNetworks = {n1, n2}
  FrExpected = n1
  FrNone = FrNone
  WcOps = {s1, s2, s3}
  WcTopics = {t1, t2, t3}
  WcUnsupported = {t3}
  WcNone = WcNone
  RhInputs = {i1, i2}
  RhNetworks = {m1, m2}
  RhNone = RhNone
  MaxRuns = 4
  MaxClients = 2
  MaxWalletRuns = 1
  h1 = h1
  h2 = h2
  g1 = g1
  g2 = g2
  o1 = o1
  o2 = o2
  o3 = o3
  e1 = e1
  e2 = e2
  HookCalls = {h1, h2}
  HookNames = {g1, g2}
  MaxHooks = 2
  WaKinds = {"injected", "ledger", "lobstr", "albedo"}
  WaOps = {o1, o2, o3}
  WaAccounts = {a1, a2}
  WaNone = WaNone
  StOps = {o1, o2, o3}
  StKeys = {e1, e2}
  StKinds = {"memory", "local", "indexed"}
  StNone = StNone
SYMMETRY Symmetry
INVARIANT CacheFollowsEvents
INVARIANT ReadsAreShared
INVARIANT ConnectionBacked
INVARIANT ShowsWhatIsAsked
INVARIANT StoreIsSerial
PROPERTY PopupAfterCheck
PROPERTY EveryHookOnce
CHECK_DEADLOCK FALSE
