----------------------------- MODULE Chainstate -----------------------------
(***************************************************************************)
(* validation.cpp, txdb.cpp: the chain state of a node that may crash at   *)
(* any point.  ConnectTip and DisconnectTip apply a block to a view and    *)
(* flush it into CoinsTip; FlushStateToDisk writes the block index, then   *)
(* the coins in several batches, between which the database holds coins of *)
(* two blocks and says so in its two head blocks; ReplayBlocks repairs     *)
(* that at the next start.  cs_main is held throughout, so only a crash    *)
(* comes between the steps of a flush.                                     *)
(***************************************************************************)
EXTENDS BlockTree

CONSTANTS
  NoBlock,      \* the null hash
  MaxCrashes    \* bound

ASSUME StateAssumption == NoBlock \notin Blocks /\ MaxCrashes \in Nat

CoinHeights == {Height(b) : b \in Blocks}
INSTANCE CoinEntry WITH Coins <- CoinHeights

VARIABLES
  \* on disk
  db,           \* coins database: outpoint -> coin
  bestBlock,    \* DB_BEST_BLOCK or NoBlock
  headBlocks,   \* DB_HEAD_BLOCKS: <<new, old>> or <<>>
  diskIndex,    \* block index database: blocks with data
  diskUndo,     \* blocks with undo data -> the coins they spent
  \* in memory
  pc,           \* "idle", "if_needed", "coins", "replay", "down" or "failed"
  blockIndex, undo,  \* m_block_index
  tip,          \* m_chain.Tip()
  cache,        \* CoinsTip, or the cache of ReplayBlocks: outpoint -> entry
  hashBlock,    \* best block of that cache
  left,         \* BatchWrite: DIRTY outpoints not yet written
  erase,        \* BOOLEAN: Flush, otherwise Sync
  crashes       \* number of crashes so far

coinsDb == <<db, bestBlock, headBlocks>>
indexDb == <<diskIndex, diskUndo>>
vars == <<coinsDb, indexDb, pc, blockIndex, undo, tip, cache, hashBlock, left, erase, crashes>>

Empty == [o \in Txs |-> Absent]

Init ==
  /\ db = [o \in Txs |-> NoCoin] /\ bestBlock = NoBlock /\ headBlocks = <<>>
  /\ diskIndex = {} /\ diskUndo = <<>>
  /\ pc = "idle" /\ blockIndex = {Genesis} /\ undo = <<>>
  /\ tip = Genesis /\ cache = Empty /\ hashBlock = Genesis
  /\ left = {} /\ erase = FALSE /\ crashes = 0

\* What a cache shows over a base.
Shown(entries, base) == [o \in Txs |-> Value(entries[o], base[o])]

-----------------------------------------------------------------------------
(* Blocks applied to a view, transaction by transaction.                    *)

\* The view after spending the outpoints in S.
Spend(view, base, S) == [o \in Txs |-> IF o \in S THEN SpentIn(view[o], base[o]) ELSE view[o]]

\* UpdateCoins: the spent coins become undo data, then AddCoins, where only a
\* coinbase may overwrite.
UpdateCoins(base, s, t, h) ==
  LET spent == [o \in Inputs[t] |-> Fetched(s.view[o], base[o]).coin]
      view == Spend(s.view, base, Inputs[t])
  IN  [view |-> [view EXCEPT ![t] = Added(@, h, IsCoinBase(t))],
       undo |-> [o \in DOMAIN s.undo \cup Inputs[t] |->
                   IF o \in Inputs[t] THEN spent[o] ELSE s.undo[o]]]

\* ConnectBlock: transactions in order.
ConnectBlock(base, b) ==
  LET after[n \in 0..Len(BlockTxs[b])] ==
        IF n = 0 THEN [view |-> Empty, undo |-> <<>>]
        ELSE UpdateCoins(base, after[n - 1], BlockTxs[b][n], Height(b))
  IN  after[Len(BlockTxs[b])]

\* One transaction of DisconnectBlock: its output goes, then ApplyTxInUndo brings
\* back its inputs.  clean: the output was there, the inputs were not.
DisconnectTx(base, s, t, h, undone) ==
  LET gone == Spend(s.view, base, {t})
      have(o) == Value(gone[o], base[o]) # NoCoin
  IN  [view |-> [o \in Txs |-> IF o \in Inputs[t] THEN Added(gone[o], undone[o], have(o)) ELSE gone[o]],
       clean |-> /\ s.clean
                 /\ Fetched(s.view[t], base[t]).coin = h
                 /\ \A o \in Inputs[t] : ~have(o)]

\* DisconnectBlock: transactions in reverse order.
DisconnectBlock(base, view, b, undone) ==
  LET count == Len(BlockTxs[b])
      after[n \in 0..count] ==
        IF n = 0 THEN [view |-> view, clean |-> TRUE]
        ELSE DisconnectTx(base, after[n - 1], BlockTxs[b][count + 1 - n], Height(b), undone)
  IN  after[count]

\* RollforwardBlock: inputs may be gone and outputs may be there already.
RollforwardTx(base, view, t, h) ==
  LET spent == Spend(view, base, Inputs[t])
  IN  [spent EXCEPT ![t] = Added(@, h, Value(spent[t], base[t]) # NoCoin)]

RollforwardBlock(base, view, b) ==
  LET after[n \in 0..Len(BlockTxs[b])] ==
        IF n = 0 THEN view ELSE RollforwardTx(base, after[n - 1], BlockTxs[b][n], Height(b))
  IN  after[Len(BlockTxs[b])]

-----------------------------------------------------------------------------
(* Blocks.                                                                  *)

\* A block arrives: its data is written, its entry in the index is dirty.
AcceptBlock(b) ==
  /\ pc = "idle"
  /\ b \notin blockIndex /\ Parent[b] \in blockIndex
  /\ blockIndex' = blockIndex \cup {b}
  /\ UNCHANGED <<coinsDb, indexDb, pc, undo, tip, cache, hashBlock, left, erase, crashes>>

\* CoinsTip after a view was flushed into it; looking an outpoint up had fetched it.
FlushedInto(view, touched) ==
  [o \in Txs |-> Written(view[o], IF o \in touched THEN Fetched(cache[o], db[o]) ELSE cache[o])]

Touched(b) == TxsOf(b) \cup UNION {Inputs[t] : t \in TxsOf(b)}

\* ConnectTip up to its call of FlushStateToDisk.  Undo data is written once.
ConnectTip(b) ==
  LET s == ConnectBlock(Shown(cache, db), b)
  IN  /\ pc = "idle"
      /\ b \in blockIndex \ {Genesis} /\ Parent[b] = tip
      /\ cache' = FlushedInto(s.view, Touched(b))
      /\ undo' = [x \in DOMAIN undo \cup {b} |-> IF x \in DOMAIN undo THEN undo[x] ELSE s.undo]
      /\ hashBlock' = b /\ pc' = "if_needed"
      /\ UNCHANGED <<coinsDb, indexDb, blockIndex, tip, left, erase, crashes>>

\* DisconnectTip: anything but DISCONNECT_OK is fatal.
DisconnectTip ==
  LET s == DisconnectBlock(Shown(cache, db), Empty, tip, undo[tip])
  IN  /\ pc = "idle"
      /\ tip # Genesis
      /\ IF s.clean
           THEN /\ cache' = FlushedInto(s.view, Touched(tip))
                /\ hashBlock' = Parent[tip] /\ pc' = "if_needed"
           ELSE pc' = "failed" /\ UNCHANGED <<cache, hashBlock>>
      /\ UNCHANGED <<coinsDb, indexDb, blockIndex, undo, tip, left, erase, crashes>>

\* FlushStateToDisk(IF_NEEDED) finds nothing to do; then m_chain.SetTip.
NoFlush ==
  /\ pc = "if_needed"
  /\ tip' = hashBlock /\ pc' = "idle"
  /\ UNCHANGED <<coinsDb, indexDb, blockIndex, undo, cache, hashBlock, left, erase, crashes>>

-----------------------------------------------------------------------------
(* Writing to disk.                                                         *)

Dirty(entries) == {o \in Txs : entries[o].dirty}

\* Slip: the block index is left for later.
FlushStateToDisk_NoIndex(empty_cache) ==
  /\ pc \in {"idle", "if_needed"}
  /\ left' = Dirty(cache) /\ erase' = empty_cache /\ pc' = "coins"
  /\ UNCHANGED <<coinsDb, indexDb, blockIndex, undo, tip, cache, hashBlock, crashes>>

\* FlushStateToDisk: block and undo files, then the block index, then the coins.
FlushStateToDisk(empty_cache) ==
  /\ pc \in {"idle", "if_needed"}
  /\ diskIndex' = blockIndex /\ diskUndo' = undo
  /\ left' = Dirty(cache) /\ erase' = empty_cache /\ pc' = "coins"
  /\ UNCHANGED <<coinsDb, blockIndex, undo, tip, cache, hashBlock, crashes>>

\* Slip: a database in the middle of a replay has no old tip.
OldTip_Best == bestBlock

\* The tip the database was at before this BatchWrite.
OldTip == IF bestBlock = NoBlock /\ headBlocks # <<>> THEN headBlocks[2] ELSE bestBlock

\* A batch that got too large is written before the loop is over.
WritePartialBatch(o) ==
  /\ pc \in {"coins", "replay"}
  /\ o \in left
  /\ db' = [db EXCEPT ![o] = Stored(cache[o], @)]
  /\ headBlocks' = <<hashBlock, OldTip>> /\ bestBlock' = NoBlock
  /\ left' = left \ {o}
  /\ UNCHANGED <<indexDb, pc, blockIndex, undo, tip, cache, hashBlock, erase, crashes>>

\* The last batch; then Flush or Sync returns and the tip is set (ConnectTip,
\* DisconnectTip, and LoadChainTip after a replay).
WriteFinalBatch ==
  /\ pc \in {"coins", "replay"}
  /\ db' = [o \in Txs |-> IF o \in left THEN Stored(cache[o], db[o]) ELSE db[o]]
  /\ headBlocks' = <<>> /\ bestBlock' = hashBlock
  /\ cache' = IF erase THEN Empty ELSE [o \in Txs |-> Cleaned(cache[o])]
  /\ tip' = hashBlock /\ left' = {} /\ pc' = "idle"
  /\ UNCHANGED <<indexDb, blockIndex, undo, hashBlock, erase, crashes>>

-----------------------------------------------------------------------------
(* Crash and restart.                                                       *)

\* The process dies and its memory is gone.
Crash ==
  /\ crashes < MaxCrashes
  /\ pc \notin {"down", "failed"}
  /\ crashes' = crashes + 1 /\ pc' = "down"
  /\ blockIndex' = {} /\ undo' = <<>> /\ tip' = NoBlock
  /\ cache' = Empty /\ hashBlock' = NoBlock /\ left' = {} /\ erase' = FALSE
  /\ UNCHANGED <<coinsDb, indexDb>>

\* A database without a best block is empty, as it is at Genesis.
OrGenesis(b) == IF b = NoBlock THEN Genesis ELSE b

\* ReplayBlocks: along the old branch back until it meets the new one, then along
\* the new one forward.
Replayed(new, old) ==
  LET back[b \in Chain[old]] ==
        [v \in [Txs -> Entries] |->
           IF b \in Chain[new] THEN v
           ELSE back[Parent[b]][DisconnectBlock(db, v, b, diskUndo[b]).view]]
      forward[b \in Chain[new]] ==
        IF b \in Chain[old] THEN back[old][Empty]
        ELSE RollforwardBlock(db, forward[Parent[b]], b)
  IN  forward[new]

\* Blocks of x's chain that are not in y's.
Apart(x, y) == Chain[OrGenesis(x)] \ Chain[OrGenesis(y)]

\* What ReplayBlocks reads: the blocks of both branches, and the undo data of the old one.
CanReplay(new, old) ==
  /\ {new, old} \ {NoBlock} \subseteq diskIndex
  /\ Apart(new, old) \cup Apart(old, new) \subseteq diskIndex
  /\ Apart(old, new) \subseteq DOMAIN diskUndo

\* Start with a consistent database: LoadBlockIndex, LoadGenesisBlock, LoadChainTip.
\* A best block that is not in the index is fatal.
LoadChainTip ==
  LET best == OrGenesis(bestBlock)
  IN  /\ pc = "down" /\ headBlocks = <<>>
      /\ blockIndex' = diskIndex \cup {Genesis} /\ undo' = diskUndo
      /\ tip' = best /\ hashBlock' = best
      /\ pc' = IF best \in blockIndex' THEN "idle" ELSE "failed"
      /\ UNCHANGED <<coinsDb, indexDb, cache, left, erase, crashes>>

\* Slip: the database is taken back to the old tip.
ReplayBlocks_Back ==
  /\ pc = "down" /\ headBlocks # <<>>
  /\ blockIndex' = diskIndex \cup {Genesis} /\ undo' = diskUndo
  /\ cache' = Replayed(OrGenesis(headBlocks[2]), headBlocks[1])
  /\ hashBlock' = headBlocks[2]
  /\ left' = Dirty(cache') /\ erase' = TRUE /\ pc' = "replay"
  /\ UNCHANGED <<coinsDb, indexDb, tip, crashes>>

\* Start with a database in transition: ReplayBlocks, up to its Flush.
ReplayBlocks ==
  /\ pc = "down" /\ headBlocks # <<>>
  /\ blockIndex' = diskIndex \cup {Genesis} /\ undo' = diskUndo
  /\ IF CanReplay(headBlocks[1], headBlocks[2])
       THEN /\ cache' = Replayed(headBlocks[1], OrGenesis(headBlocks[2]))
            /\ hashBlock' = headBlocks[1]
            /\ left' = Dirty(cache') /\ erase' = TRUE /\ pc' = "replay"
       ELSE pc' = "failed" /\ UNCHANGED <<cache, hashBlock, left, erase>>
  /\ UNCHANGED <<coinsDb, indexDb, tip, crashes>>

-----------------------------------------------------------------------------
Next ==
  \/ \E b \in Blocks : AcceptBlock(b) \/ ConnectTip(b)
  \/ DisconnectTip
  \/ NoFlush
  \/ \E empty_cache \in BOOLEAN : FlushStateToDisk(empty_cache)
  \/ \E o \in Txs : WritePartialBatch(o)
  \/ WriteFinalBatch
  \/ Crash
  \/ LoadChainTip
  \/ ReplayBlocks

Spec == Init /\ [][Next]_vars

-----------------------------------------------------------------------------
TypeOK ==
  /\ db \in [Txs -> CoinOrNone] /\ bestBlock \in Blocks \cup {NoBlock}
  /\ headBlocks = <<>> \/ headBlocks \in Blocks \X (Blocks \cup {NoBlock})
  /\ diskIndex \subseteq Blocks /\ DOMAIN diskUndo \subseteq Blocks
  /\ pc \in {"idle", "if_needed", "coins", "replay", "down", "failed"}
  /\ blockIndex \subseteq Blocks /\ DOMAIN undo \subseteq Blocks
  /\ tip \in Blocks \cup {NoBlock} /\ hashBlock \in Blocks \cup {NoBlock}
  /\ pc \in {"idle", "if_needed", "coins"} => NoBlock \notin {tip, hashBlock}
  /\ cache \in [Txs -> Entries] /\ left \subseteq Txs
  /\ erase \in BOOLEAN /\ crashes \in 0..MaxCrashes

(***************************************************************************)
(* Whatever a crash left on disk, the node starts again and no block is    *)
(* ever stuck: what ReplayBlocks and LoadChainTip need is always on disk,  *)
(* and DisconnectTip never meets coins that do not match the block.        *)
(***************************************************************************)
NeverStuck == pc # "failed"

(***************************************************************************)
(* BatchWrite asserts old_heads[0] == hashBlock: a database in transition  *)
(* is only ever continued towards the block the transition was for.        *)
(***************************************************************************)
SameTarget == pc \in {"coins", "replay"} /\ headBlocks # <<>> => headBlocks[1] = hashBlock

Running == pc \in {"idle", "if_needed", "coins"}

(***************************************************************************)
(* validation.cpp: "the result is still a version of the UTXO set with the *)
(* effects of that block undone".  Through flushes, reorganisations and    *)
(* crashes, also in the middle of a recovery, the node has the coins of    *)
(* its tip, and after a crash those of the last block made durable.        *)
(***************************************************************************)
Promise == INSTANCE UtxoChain WITH
  running <- Running,
  tip <- IF Running THEN hashBlock ELSE NoBlock,
  coins <- IF Running THEN Shown(cache, db) ELSE [o \in Txs |-> NoCoin],
  durable <- IF headBlocks # <<>> THEN headBlocks[1] ELSE OrGenesis(bestBlock)

ImplementsUtxoChain == Promise!Spec
=============================================================================
