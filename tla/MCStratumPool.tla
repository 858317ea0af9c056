--------------------------- MODULE MCStratumPool ---------------------------
(* Values of StratumPool's constants for TLC.                               *)
EXTENDS StratumPool, TLC

CONSTANTS c1, c2, nA, nB, addrA, addrPool

\* nA carries an address, nB none.
MCWallet == nA :> addrA @@ nB :> NoAddress

\* The network difficulty is above the pool's.
MCNetDiff == [h \in 0..MaxTip |-> 2]

\* Starts of the process, seconds apart.
MCOneRun == <<5>>
MCTwoRuns == <<5, 6>>

\* Safety does not tell connections apart.
ConnSymmetry == Permutations(Conns)
=============================================================================
