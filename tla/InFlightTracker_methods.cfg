SPECIFICATION Spec
CONSTANTS
  c1 = c1
  c2 = c2
  c3 = c3
  c4 = c4
  c5 = c5
  k1 = k1
  k2 = k2
  k3 = k3
  w1 = w1
  w2 = w2
  Calls = {c1, c2, c3, c4, c5}
  Keys = {k1, k2, k3}
  Wallets = {w1, w2}
  NoWallet = NoWallet
  None = None
  KeyOf <- SharedKey
  WalletArg <- SharedWallet
  MethodOf <- EachMethod
  MaxInFlight = 2
  MaxPerWallet = 1
  MaxNesting = 1
INVARIANT BooksAgree
INVARIANT ReplacedIsAborted
CHECK_DEADLOCK FALSE
