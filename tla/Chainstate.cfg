CONSTANTS
  g = g  c1 = c1  a2 = a2  a3 = a3  b2 = b2  b3 = b3
  kc1 = kc1  ka2 = ka2  ka3 = ka3  kb2 = kb2  kb3 = kb3  t = t  u = u  v = v
  Blocks <- MCBlocks
  Genesis = g
  Parent <- MCParent
  BlockTxs <- MCBlockTxs
  Txs <- MCTxs
  Inputs <- MCInputs
  NoCoin = NoCoin
  NoBlock = NoBlock
  MaxCrashes = 2
SPECIFICATION Spec
INVARIANTS NeverStuck SameTarget
PROPERTY ImplementsUtxoChain
