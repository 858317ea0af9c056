CONSTANTS
  w1 = w1  w2 = w2  n1 = n1
  Workers = {w1}
  Nodes = {n1}
  NoNode = NoNode
  Branches = {0}
  RpcFails = TRUE
  BATCH = 2
  MaxHeight = 2
  MaxReorgs = 0
  MaxRegistrations = 1
  MaxRestarts = 0
SPECIFICATION Spec
INVARIANT BalanceCorrect
