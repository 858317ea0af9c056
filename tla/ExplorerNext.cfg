CONSTANTS
  Branches = {0, 1}
  MaxHeight = 3
  MaxTips = 3
  COUNT = 3
  MockHeight = 9
  MockHash = MockHash
  Null = Null
SPECIFICATION FairSpec
INVARIANTS KeysDistinct ShownWasActive ListIsTopOfChain
PROPERTY RequestEnds
