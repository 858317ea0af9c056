----------------------------- MODULE BlockTree ------------------------------
(***************************************************************************)
(* The blocks a node may ever see, and what they do to the coins.  All of  *)
(* them are valid on top of their parent.  A transaction has one output,   *)
(* so an outpoint is a txid; a coin is the height of the block that        *)
(* created it (Coin::nHeight), which tells apart the outputs of one        *)
(* transaction mined on two branches.                                      *)
(***************************************************************************)
EXTENDS Naturals, Sequences, FiniteSets, SequencesExt

CONSTANTS
  Blocks, Genesis,
  Parent,      \* [Blocks \ {Genesis} -> Blocks]
  BlockTxs,    \* [Blocks -> Seq(Txs)], coinbase first
  Txs,
  Inputs,      \* [Txs -> SUBSET Txs], the outpoints a transaction spends
  NoCoin

ASSUME TreeAssumption ==
  /\ Genesis \in Blocks /\ Parent \in [Blocks \ {Genesis} -> Blocks]
  /\ BlockTxs \in [Blocks -> Seq(Txs)] /\ BlockTxs[Genesis] = <<>>
  /\ Inputs \in [Txs -> SUBSET Txs]
  /\ NoCoin \notin Nat

\* The blocks from Genesis to b.
Chain[b \in Blocks] == IF b = Genesis THEN {b} ELSE Chain[Parent[b]] \cup {b}
Height(b) == Cardinality(Chain[b]) - 1

\* Every block descends from Genesis in finitely many steps.
ASSUME RootAssumption ==
  \A b \in Blocks : /\ IsFiniteSet(Chain[b]) /\ Genesis \in Chain[b]
                    /\ b # Genesis => b \notin Chain[Parent[b]]

TxsOf(b) == ToSet(BlockTxs[b])
IsCoinBase(t) == Inputs[t] = {}

\* The transactions of b's chain; those of its parent's chain with the first n of b;
\* what transactions spend.
ChainTxs(b) == UNION {TxsOf(x) : x \in Chain[b]}
TxsUpTo(b, n) == ChainTxs(Parent[b]) \cup {BlockTxs[b][i] : i \in 1..n}
SpentBy(S) == UNION {Inputs[t] : t \in S}

\* CheckTxInputs: a transaction spends outputs that are there at its place in the chain.
\* BIP34: a coinbase holds its height, so that none is mined twice in a chain.
ASSUME ValidAssumption ==
  \A b \in Blocks \ {Genesis} : \A n \in 1..Len(BlockTxs[b]) :
    LET S == TxsUpTo(b, n - 1)
    IN  BlockTxs[b][n] \notin S /\ Inputs[BlockTxs[b][n]] \subseteq S \ SpentBy(S)

(***************************************************************************)
(* The unspent outputs of the chain that ends in b, by definition: created *)
(* by one of its transactions and spent by none.                           *)
(***************************************************************************)
Utxo(b) ==
  [o \in Txs |->
     IF \E y \in Chain[b] : \E t \in TxsOf(y) : o \in Inputs[t] THEN NoCoin
     ELSE IF \E x \in Chain[b] : o \in TxsOf(x)
       THEN Height(CHOOSE x \in Chain[b] : o \in TxsOf(x))
     ELSE NoCoin]
=============================================================================
