SPECIFICATION Spec
CONSTANTS
  c1 = c1
  c2 = c2
  c3 = c3
  c4 = c4
  c5 = c5
  k1 = k1
  k2 = k2
  k3 = k3
  w1 = w1
  w2 = w2
  Calls = {c1, c2}
  Keys = {k1}
  Wallets = {w1}
  NoWallet = NoWallet
  None = None
  KeyOf <- SharedKey
  WalletArg <- SharedWallet
  MethodOf <- AllTrack
  MaxInFlight = 2
  MaxPerWallet = 2
  MaxNesting = 2
INVARIANT IdleWalletsAreFree
CHECK_DEADLOCK FALSE
