------------------------------ MODULE Explorer ------------------------------
(***************************************************************************)
(* explorer/app.py: the public block explorer.  gunicorn runs it as        *)
(* several worker processes that share one SQLite file.  Every worker has  *)
(* its own registered_nodes and node_lock, a sync_blocks thread, a         *)
(* health_check thread and web handlers.  An action runs from one RPC or   *)
(* database access to the next.                                            *)
(*                                                                         *)
(* A block is the path of branch choices from the genesis block <<>> to    *)
(* it, so its hash, its parent and its height are the path, its front and  *)
(* its length.  An RPC may fail at any time if RpcFails.                   *)
(***************************************************************************)
EXTENDS Integers, Sequences, FiniteSets, FiniteSetsExt

CONSTANTS
  Workers, Nodes, NoNode,
  Branches,       \* which block extends a block; one element: no reorganisation
  RpcFails,       \* BOOLEAN: rpc_call may return None
  BATCH,          \* 100 in sync_blocks: heights fetched in one pass
  MaxHeight, MaxReorgs, MaxRegistrations, MaxRestarts   \* bounds

ASSUME ExplorerAssumption ==
  /\ NoNode \notin Nodes /\ Branches # {} /\ RpcFails \in BOOLEAN
  /\ BATCH \in Nat \ {0}
  /\ MaxHeight \in Nat /\ MaxReorgs \in Nat
  /\ MaxRegistrations \in Nat /\ MaxRestarts \in Nat

VARIABLES
  tip,           \* the nodes: active chain of each
  reorgs,        \* the nodes: number of reorganisations so far
  nodes,         \* table nodes: node -> is_active
  blocks,        \* table blocks: height -> hash
  transactions,  \* tables transactions and tx_outputs: txid -> block_hash
  tx_inputs,     \* table tx_inputs: spending txid -> was the spent output found
  registered_nodes, primary_node,      \* of each worker
  sync,          \* sync_blocks of each worker: where it is, and its locals
  health,        \* health_check of each worker: nodes to probe, node_lock held if any
  probed,        \* register_node of each worker: nodes probed, not yet in memory
  saving,        \* register_node of each worker: nodes in memory, not yet in the table
  skipped,       \* history: heights at which sync_blocks had no answer and went on
  calls          \* how often a node was registered and a worker restarted so far

chains == <<tip, reorgs>>
tables == <<nodes, blocks, transactions, tx_inputs>>
vars == <<chains, tables, registered_nodes, primary_node, sync, health, probed, saving, skipped,
          calls>>

Heights == 0..MaxHeight
Paths == UNION {[1..h -> Branches] : h \in Heights}
Ancestor(p, h) == SubSeq(p, 1, h)
Extends(p, q) == Len(p) >= Len(q) /\ Ancestor(p, Len(q)) = q
Outcomes == IF RpcFails THEN BOOLEAN ELSE {TRUE}

\* What blocks hold: a coinbase each; a block at height 2 also spends the first coinbase.
Coinbase(p) == [kind |-> "coinbase", of |-> p]
Spend(p) == [kind |-> "spend", of |-> p]
Spends(p) == IF Len(p) = 2 THEN {Spend(Ancestor(p, 1))} ELSE {}
TxsOf(p) == {Coinbase(p)} \cup Spends(p)

Thread(pc, n, at, last, hash) == [pc |-> pc, node |-> n, at |-> at, last |-> last, hash |-> hash]
Start == Thread("start", NoNode, 0, 0, <<>>)

Init ==
  /\ tip = [n \in Nodes |-> <<>>] /\ reorgs = 0
  /\ nodes = <<>> /\ blocks = <<>> /\ transactions = <<>> /\ tx_inputs = <<>>
  /\ registered_nodes = [w \in Workers |-> <<>>]
  /\ primary_node = [w \in Workers |-> NoNode]
  /\ sync = [w \in Workers |-> Start]
  /\ health = [w \in Workers |-> {}]
  /\ probed = [w \in Workers |-> <<>>] /\ saving = [w \in Workers |-> <<>>]
  /\ skipped = {} /\ calls = [register |-> 0, restart |-> 0]

With(f, x, y) == [z \in DOMAIN f \cup {x} |-> IF z = x THEN y ELSE f[z]]
Without(f, x) == [z \in DOMAIN f \ {x} |-> f[z]]

\* A node's chain grows, or the node switches to a heavier branch, which may
\* be a shorter one.
NodeAdvances(n, p) ==
  /\ ~Extends(tip[n], p)
  /\ IF Extends(p, tip[n]) THEN reorgs' = reorgs
     ELSE reorgs < MaxReorgs /\ reorgs' = reorgs + 1
  /\ tip' = [tip EXCEPT ![n] = p]
  /\ UNCHANGED <<tables, registered_nodes, primary_node, sync, health, probed, saving, skipped,
                 calls>>

-----------------------------------------------------------------------------
LockFree(w) == health[w] = {}

\* health_check holds node_lock over all its RPCs.
HealthStarts(w) ==
  /\ LockFree(w)
  /\ health' = [health EXCEPT ![w] = DOMAIN registered_nodes[w]]
  /\ UNCHANGED <<chains, tables, registered_nodes, primary_node, sync, probed, saving, skipped, calls>>

HealthProbes(w, n, info) ==
  /\ n \in health[w]
  /\ registered_nodes' = [registered_nodes EXCEPT ![w][n] = info]
  /\ health' = [health EXCEPT ![w] = @ \ {n}]
  /\ UNCHANGED <<chains, tables, primary_node, sync, probed, saving, skipped, calls>>

\* register_node: the probe, the entry in memory, then the row of the table,
\* which an exception (database is locked) may leave out.
RegisterProbes(w, n, info) ==
  /\ n \notin DOMAIN probed[w] \cup DOMAIN saving[w]
  /\ calls.register < MaxRegistrations
  /\ calls' = [calls EXCEPT !.register = @ + 1]
  /\ probed' = [probed EXCEPT ![w] = With(@, n, info)]
  /\ UNCHANGED <<chains, tables, registered_nodes, primary_node, sync, health, saving, skipped>>

RegisterRemembers(w, n) ==
  /\ n \in DOMAIN probed[w] /\ LockFree(w)
  /\ registered_nodes' = [registered_nodes EXCEPT ![w] = With(@, n, probed[w][n])]
  /\ probed' = [probed EXCEPT ![w] = Without(@, n)]
  /\ saving' = [saving EXCEPT ![w] = With(@, n, probed[w][n])]
  /\ UNCHANGED <<chains, tables, primary_node, sync, health, skipped, calls>>

RegisterSaves(w, n) ==
  /\ n \in DOMAIN saving[w]
  /\ nodes' \in {nodes, With(nodes, n, saving[w][n])}
  /\ saving' = [saving EXCEPT ![w] = Without(@, n)]
  /\ UNCHANGED <<chains, blocks, transactions, tx_inputs, registered_nodes, primary_node, sync,
                 health, probed, skipped, calls>>

Active(w) == {n \in DOMAIN registered_nodes[w] : registered_nodes[w][n]}

\* get_active_node: the primary while it is active, else an active one.
get_active_node(w, n) ==
  /\ LockFree(w)
  /\ n \in Active(w)
  /\ primary_node[w] \in Active(w) => n = primary_node[w]

\* api_status, api_tx: a request picks the node to ask, and makes it the primary.
ApiPicksNode(w, n) ==
  /\ get_active_node(w, n)
  /\ primary_node' = [primary_node EXCEPT ![w] = n]
  /\ UNCHANGED <<chains, tables, registered_nodes, sync, health, probed, saving, skipped, calls>>

-----------------------------------------------------------------------------
(* sync_blocks.                                                             *)

SyncUnchanged == UNCHANGED <<chains, nodes, registered_nodes, health, probed, saving, calls>>

SyncPicksNode(w, n) ==
  /\ sync[w].pc = "start" /\ get_active_node(w, n)
  /\ primary_node' = [primary_node EXCEPT ![w] = n]
  /\ sync' = [sync EXCEPT ![w] = Thread("info", n, 0, 0, <<>>)]
  /\ UNCHANGED <<blocks, transactions, tx_inputs, skipped>> /\ SyncUnchanged

SyncReadsInfo(w, info) ==
  /\ sync[w].pc = "info"
  /\ sync' = [sync EXCEPT ![w] =
       IF info THEN Thread("select", @.node, 0, Len(tip[@.node]), <<>>) ELSE Start]
  /\ UNCHANGED <<blocks, transactions, tx_inputs, primary_node, skipped>> /\ SyncUnchanged

\* SELECT MAX(height) ... or -1: 0 counts as no block.
OurHeight ==
  IF DOMAIN blocks = {} THEN -1
  ELSE IF Max(DOMAIN blocks) = 0 THEN -1 ELSE Max(DOMAIN blocks)

\* Slip: the range starts at our height.
SyncReadsOurs_NoPlusOne(w) ==
  LET first == OurHeight
      last == IF OurHeight + BATCH < sync[w].last THEN OurHeight + BATCH ELSE sync[w].last
  IN  /\ sync[w].pc = "select"
      /\ sync' = [sync EXCEPT ![w] =
           IF first <= last THEN Thread("hash", @.node, first, last, <<>>) ELSE Start]
      /\ UNCHANGED <<blocks, transactions, tx_inputs, primary_node, skipped>> /\ SyncUnchanged

\* Slip: the range ends before the node's last block.
SyncReadsOurs_MissesTip(w) ==
  LET first == OurHeight + 1
      last == IF OurHeight + BATCH < sync[w].last THEN OurHeight + BATCH ELSE sync[w].last - 1
  IN  /\ sync[w].pc = "select"
      /\ sync' = [sync EXCEPT ![w] =
           IF first <= last THEN Thread("hash", @.node, first, last, <<>>) ELSE Start]
      /\ UNCHANGED <<blocks, transactions, tx_inputs, primary_node, skipped>> /\ SyncUnchanged

\* Slip: a pass fetches the newest heights.
SyncReadsOurs_NewestFirst(w) ==
  LET first == IF sync[w].last - BATCH < OurHeight THEN OurHeight + 1 ELSE sync[w].last - BATCH + 1
      last == sync[w].last
  IN  /\ sync[w].pc = "select"
      /\ sync' = [sync EXCEPT ![w] =
           IF first <= last THEN Thread("hash", @.node, first, last, <<>>) ELSE Start]
      /\ UNCHANGED <<blocks, transactions, tx_inputs, primary_node, skipped>> /\ SyncUnchanged

\* The heights of this pass: range(our + 1, min(our + 101, current + 1)).
SyncReadsOurs(w) ==
  LET first == OurHeight + 1
      last == IF OurHeight + BATCH < sync[w].last THEN OurHeight + BATCH ELSE sync[w].last
  IN  /\ sync[w].pc = "select"
      /\ sync' = [sync EXCEPT ![w] =
           IF first <= last THEN Thread("hash", @.node, first, last, <<>>) ELSE Start]
      /\ UNCHANGED <<blocks, transactions, tx_inputs, primary_node, skipped>> /\ SyncUnchanged

\* The next height of the range, or the end of the pass.
NextHeight(s) ==
  IF s.at < s.last THEN Thread("hash", s.node, s.at + 1, s.last, <<>>) ELSE Start

\* getblockhash; an error or no answer is passed over (`continue`), and a node
\* answers an error for a height above its chain.
SyncReadsHash(w, ok) ==
  LET s == sync[w]
      found == ok /\ s.at <= Len(tip[s.node])
  IN  /\ s.pc = "hash"
      /\ sync' = [sync EXCEPT ![w] =
           IF found THEN Thread("block", s.node, s.at, s.last, Ancestor(tip[s.node], s.at))
                    ELSE NextHeight(s)]
      /\ skipped' = IF found THEN skipped ELSE skipped \cup {s.at}
      /\ UNCHANGED <<blocks, transactions, tx_inputs, primary_node>> /\ SyncUnchanged

\* getblock fails: `continue`.
SyncSkipsBlock(w) ==
  /\ sync[w].pc = "block"
  /\ sync' = [sync EXCEPT ![w] = NextHeight(@)]
  /\ skipped' = skipped \cup {sync[w].at}
  /\ UNCHANGED <<blocks, transactions, tx_inputs, primary_node>> /\ SyncUnchanged

\* An exception (database is locked, a missing field): rolled back, the pass is over.
SyncError(w) ==
  /\ sync[w].pc = "block"
  /\ sync' = [sync EXCEPT ![w] = Start]
  /\ UNCHANGED <<blocks, transactions, tx_inputs, primary_node, skipped>> /\ SyncUnchanged

\* Slip: the spent output is not looked up.
SyncStores_NoLookup(w) ==
  LET s == sync[w]
      p == s.hash
  IN  /\ s.pc = "block"
      /\ blocks' = With(blocks, s.at, p)
      /\ transactions' =
           [t \in DOMAIN transactions \cup TxsOf(p) |-> IF t \in TxsOf(p) THEN p ELSE transactions[t]]
      /\ tx_inputs' =
           [t \in DOMAIN tx_inputs \cup Spends(p) |-> IF t \in Spends(p) THEN FALSE ELSE tx_inputs[t]]
      /\ sync' = [sync EXCEPT ![w] = NextHeight(s)]
      /\ UNCHANGED <<primary_node, skipped>> /\ SyncUnchanged

\* One commit: the block, its transactions and outputs, its inputs with the
\* address of the output they spend if that is known.
SyncStores(w) ==
  LET s == sync[w]
      p == s.hash
  IN  /\ s.pc = "block"
      /\ blocks' = With(blocks, s.at, p)
      /\ transactions' =
           [t \in DOMAIN transactions \cup TxsOf(p) |-> IF t \in TxsOf(p) THEN p ELSE transactions[t]]
      /\ tx_inputs' =
           [t \in DOMAIN tx_inputs \cup Spends(p) |->
              IF t \in Spends(p) THEN Coinbase(t.of) \in DOMAIN transactions ELSE tx_inputs[t]]
      /\ sync' = [sync EXCEPT ![w] = NextHeight(s)]
      /\ UNCHANGED <<primary_node, skipped>> /\ SyncUnchanged

\* getblock, by the hash: a node also knows the blocks it left.
SyncReadsBlock(w, ok) == IF ok THEN SyncStores(w) ELSE SyncSkipsBlock(w)

\* A worker dies; its successor loads the nodes table (load_nodes).
Restart(w) ==
  /\ calls.restart < MaxRestarts
  /\ calls' = [calls EXCEPT !.restart = @ + 1]
  /\ registered_nodes' = [registered_nodes EXCEPT ![w] = nodes]
  /\ primary_node' = [primary_node EXCEPT ![w] = NoNode]
  /\ sync' = [sync EXCEPT ![w] = Start]
  /\ health' = [health EXCEPT ![w] = {}]
  /\ probed' = [probed EXCEPT ![w] = <<>>] /\ saving' = [saving EXCEPT ![w] = <<>>]
  /\ UNCHANGED <<chains, tables, skipped>>

-----------------------------------------------------------------------------
SyncStep(w) ==
  \/ \E n \in Nodes : SyncPicksNode(w, n)
  \/ \E ok \in Outcomes : SyncReadsInfo(w, ok) \/ SyncReadsHash(w, ok) \/ SyncReadsBlock(w, ok)
  \/ SyncReadsOurs(w)

HealthStep(w) == \E n \in health[w], info \in Outcomes : HealthProbes(w, n, info)

Next ==
  \/ \E n \in Nodes, p \in Paths : NodeAdvances(n, p)
  \/ \E w \in Workers :
       \/ SyncStep(w)
       \/ SyncError(w)
       \/ HealthStarts(w)
       \/ HealthStep(w)
       \/ \E n \in Nodes : ApiPicksNode(w, n)
       \/ \E n \in Nodes, info \in Outcomes : RegisterProbes(w, n, info)
       \/ \E n \in Nodes : RegisterRemembers(w, n) \/ RegisterSaves(w, n)
       \/ Restart(w)

Spec == Init /\ [][Next]_vars

(***************************************************************************)
(* Threads run.  Strong fairness for sync_blocks: health_check takes the   *)
(* lock again only after sleep(60), so a waiting get_active_node gets it;  *)
(* and no height is rolled back for ever by all workers (a busy database   *)
(* is free again).                                                         *)
(***************************************************************************)
FairSpec ==
  /\ Spec
  /\ \A w \in Workers : SF_vars(SyncStep(w)) /\ WF_vars(HealthStep(w))
  /\ \A h \in Heights : SF_vars(\E w \in Workers : SyncStores(w) /\ sync[w].at = h)

-----------------------------------------------------------------------------
SyncStates == [pc : {"start", "info", "select", "hash", "block"}, node : Nodes \cup {NoNode},
               at : Heights, last : Heights, hash : Paths]
Txs == {Coinbase(p) : p \in Paths} \cup {Spend(p) : p \in Paths}

TypeOK ==
  /\ tip \in [Nodes -> Paths]
  /\ DOMAIN nodes \subseteq Nodes /\ nodes \in [DOMAIN nodes -> BOOLEAN]
  /\ DOMAIN blocks \subseteq Heights /\ blocks \in [DOMAIN blocks -> Paths]
  /\ DOMAIN transactions \subseteq Txs /\ transactions \in [DOMAIN transactions -> Paths]
  /\ DOMAIN tx_inputs \subseteq Txs /\ tx_inputs \in [DOMAIN tx_inputs -> BOOLEAN]
  /\ \A w \in Workers :
       /\ DOMAIN registered_nodes[w] \subseteq Nodes
       /\ registered_nodes[w] \in [DOMAIN registered_nodes[w] -> BOOLEAN]
       /\ primary_node[w] \in Nodes \cup {NoNode}
       /\ sync[w] \in SyncStates
       /\ health[w] \subseteq DOMAIN registered_nodes[w]
       /\ DOMAIN probed[w] \subseteq Nodes /\ probed[w] \in [DOMAIN probed[w] -> BOOLEAN]
       /\ DOMAIN saving[w] \subseteq Nodes /\ saving[w] \in [DOMAIN saving[w] -> BOOLEAN]

\* Heights without a row below one that has a row: a later pass starts above them.
Gaps == {h \in Heights \ DOMAIN blocks : \E k \in DOMAIN blocks : h < k}

(***************************************************************************)
(* The table of blocks has a gap only where sync_blocks got no answer and  *)
(* went on, whichever worker stores a height, however far the others' view *)
(* of MAX(height) lags, over rollbacks, restarts and reorganisations.      *)
(***************************************************************************)
GapsAreSkips == Gaps \subseteq skipped

\* api_address for the miner: outputs received minus inputs attributed to it.
Balance ==
  Cardinality({t \in DOMAIN transactions : t.kind = "coinbase"})
    - Cardinality({t \in DOMAIN tx_inputs : tx_inputs[t]})

\* The same by the blocks of the chain that ends in p.
ChainBalance(p) == Len(p) + 1 - (IF Len(p) >= 2 THEN 1 ELSE 0)

(***************************************************************************)
(* "Get all outputs (received) for this address", "Get all inputs (spent)  *)
(* from this address": the balance shown is that of the stored chain.  An  *)
(* input counts only if the output it spends was stored before it.         *)
(***************************************************************************)
BalanceCorrect ==
  blocks # <<>> => Balance = ChainBalance(blocks[Max(DOMAIN blocks)])

\* The blocks ever stored, by their coinbases, are blocks of one chain.
OneChain ==
  \A s, t \in DOMAIN transactions : s.kind = "coinbase" /\ t.kind = "coinbase" =>
    Extends(s.of, t.of) \/ Extends(t.of, s.of)

(***************************************************************************)
(* The same where it can be kept: no height was skipped, and all stored    *)
(* blocks are of one chain.  Then two workers, rollbacks and restarts lose *)
(* no input and count none twice.                                          *)
(***************************************************************************)
BalanceOfChain == skipped = {} /\ OneChain => BalanceCorrect

(***************************************************************************)
(* api_block lists the transactions WHERE block_height is the block's: all *)
(* of them belong to the block stored at that height.                      *)
(***************************************************************************)
ListedTxsBelong ==
  \A t \in DOMAIN transactions :
    LET h == Len(transactions[t]) IN h \in DOMAIN blocks /\ blocks[h] = transactions[t]

(***************************************************************************)
(* sync_blocks catches up: once a worker knows the nodes and the table has *)
(* them, every height of the nodes' chains is stored in the end, unless it *)
(* is passed over or reorganised away, whatever restarts and rollbacks     *)
(* come between, "SELECT MAX(height) ... or -1" with its confusion of      *)
(* height 0 and an empty table included.                                   *)
(***************************************************************************)
CatchesUp ==
  \A n \in Nodes, h \in Heights :
    (h <= Len(tip[n]) /\ DOMAIN nodes = Nodes /\ \E w \in Workers : Active(w) = Nodes)
      ~> (h \in DOMAIN blocks \cup Gaps \/ h > Len(tip[n]))
=============================================================================
