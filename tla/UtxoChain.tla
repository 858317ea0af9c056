----------------------------- MODULE UtxoChain ------------------------------
(***************************************************************************)
(* What the chainstate promises: while the node runs, its coins are those  *)
(* of its tip; what was made durable survives a crash, and the node comes  *)
(* back with exactly the coins of the durable block.                       *)
(***************************************************************************)
EXTENDS BlockTree

CONSTANTS NoBlock

VARIABLES running, tip, coins, durable
vars == <<running, tip, coins, durable>>

NoCoins == [o \in Txs |-> NoCoin]

Init == running = TRUE /\ tip = Genesis /\ coins = Utxo(Genesis) /\ durable = Genesis

\* A block is connected or disconnected.
Move(b) ==
  /\ running
  /\ (b # Genesis /\ Parent[b] = tip) \/ (tip # Genesis /\ b = Parent[tip])
  /\ tip' = b /\ coins' = Utxo(b)
  /\ UNCHANGED <<running, durable>>

Persist == running /\ durable' = tip /\ UNCHANGED <<running, tip, coins>>

Crash ==
  /\ running' = FALSE /\ tip' = NoBlock /\ coins' = NoCoins
  /\ UNCHANGED durable

Restart ==
  /\ ~running
  /\ running' = TRUE /\ tip' = durable /\ coins' = Utxo(durable)
  /\ UNCHANGED durable

Next == (\E b \in Blocks : Move(b)) \/ Persist \/ Crash \/ Restart

Spec == Init /\ [][Next]_vars
=============================================================================
