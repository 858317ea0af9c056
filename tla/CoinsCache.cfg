CONSTANTS
  o1 = o1  o2 = o2  k1 = k1  k2 = k2
  Outpoints = {o1, o2}
  Coins = {k1, k2}
  NoCoin = NoCoin
SPECIFICATION Spec
INVARIANTS SanityCheck NoLogicError
PROPERTY ImplementsMap
