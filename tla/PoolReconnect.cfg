CONSTANTS
  c1 = c1  c2 = c2  nA = nA  nB = nB
  addrA = addrA  addrPool = addrPool
  Conns = {c1, c2}
  Names = {nA, nB}
  EmptyNames = {nB}
  Wallet <- MCWallet
  POOL_ADDRESS = addrPool
  NoAddress = NoAddress
  NoName = NoName
  Broadcaster = Broadcaster
  MaxHistory = 1
  POOL_SHARE_DIFF = 1
  NetDiff <- MCNetDiff
  Diffs = {0}
  StartTime <- MCOneRun
  SessionMod = 4
  MaxTip = 0
  MaxJobCounter = 1
  MaxShares = 0
SPECIFICATION Spec
INVARIANT EveryMinerListed
