CONSTANTS
  w1 = w1  w2 = w2  n1 = n1
  Workers = {w1, w2}
  Nodes = {n1}
  NoNode = NoNode
  Branches = {0, 1}
  RpcFails = FALSE
  BATCH = 2
  MaxHeight = 2
  MaxReorgs = 1
  MaxRegistrations = 1
  MaxRestarts = 1
SPECIFICATION FairSpec
INVARIANTS TypeOK GapsAreSkips BalanceOfChain
PROPERTY CatchesUp
