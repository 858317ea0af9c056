---------------------------- MODULE MCChainstate ----------------------------
(***************************************************************************)
(* A tree of six blocks for Chainstate: g - c1, then branches a2 - a3 and  *)
(* b2 - b3.  Transaction t spends c1's coinbase on both branches, at       *)
(* different heights; on one branch it is spent a block later (u), on the  *)
(* other in the same block (v).                                            *)
(***************************************************************************)
EXTENDS Chainstate, TLC

CONSTANTS g, c1, a2, a3, b2, b3, kc1, ka2, ka3, kb2, kb3, t, u, v

MCBlocks == {g, c1, a2, a3, b2, b3}
MCParent == c1 :> g @@ a2 :> c1 @@ b2 :> c1 @@ a3 :> a2 @@ b3 :> b2
MCTxs == {kc1, ka2, ka3, kb2, kb3, t, u, v}
MCBlockTxs == g :> <<>> @@ c1 :> <<kc1>> @@ a2 :> <<ka2, t>> @@ a3 :> <<ka3, u>>
                @@ b2 :> <<kb2>> @@ b3 :> <<kb3, t, v>>
MCInputs == [x \in MCTxs |->
               CASE x = t -> {kc1} [] x \in {u, v} -> {t} [] OTHER -> {}]
=============================================================================
