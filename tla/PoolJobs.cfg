CONSTANTS
  c1 = c1  c2 = c2  nA = nA  nB = nB
  addrA = addrA  addrPool = addrPool
  Conns = {c1}
  Names = {nA, nB}
  EmptyNames = {nB}
  Wallet <- MCWallet
  POOL_ADDRESS = addrPool
  NoAddress = NoAddress
  NoName = NoName
  Broadcaster = Broadcaster
  MaxHistory = 1
  POOL_SHARE_DIFF = 1
  NetDiff <- MCNetDiff
  Diffs = {0, 3}
  StartTime <- MCTwoRuns
  SessionMod = 4
  MaxTip = 1
  MaxJobCounter = 3
  MaxShares = 1
SPECIFICATION FairSpec
INVARIANTS TypeOK RecentJobsResolve JobIdsUnique JobsPayTheMiner
PROPERTIES BestDiffKept RequestCompletes
