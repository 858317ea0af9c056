------------------------------- MODULE MCPow -------------------------------
(***************************************************************************)
(* Pow on short chains: digits to the base 4, an average over 3 blocks, a  *)
(* median over 3, 4 seconds a block.  Timestamps may run backwards.        *)
(***************************************************************************)
EXTENDS Pow

Steps == {-3, 1, 4, 9, 40}

\* powLimit is exactly the genesis target; an interval of `blocks` blocks.
Network(blocks, minDifficulty, noRetargeting, bip94) ==
  [powLimit |-> 31 * 4^4, genesisBits |-> [size |-> 7, word |-> 31],
   nPowTargetSpacing |-> 4, nPowTargetTimespan |-> 4 * blocks,
   fPowAllowMinDifficultyBlocks |-> minDifficulty, fPowNoRetargeting |-> noRetargeting,
   enforce_BIP94 |-> bip94]

Main == Network(8, FALSE, FALSE, FALSE)
Testnet4 == Network(5, TRUE, FALSE, TRUE)
Regtest == Network(4, TRUE, TRUE, FALSE)

\* -signetblocktime: the interval is shorter than the average, or as long.
SlowSignet == Network(2, FALSE, FALSE, FALSE)
BoundarySignet == Network(3, FALSE, FALSE, FALSE)

AllNetworks == {Main, Testnet4, Regtest, SlowSignet}
BoundaryNetworks == {BoundarySignet}
=============================================================================
