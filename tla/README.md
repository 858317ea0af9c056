# Retardio: a TLA+ verification project

Retardio is a fork of Bitcoin Core with its own emission and difficulty rules,
a set of Python services around the node (a solo mining pool and a public block
explorer), a second explorer written with Next.js and a wallet page.  This
directory holds TLA+ models of what is Retardio's own and of the part of the
node that everything rests on, its coins on disk and in memory; the TLC runs
that check them; and TLAPS proofs of the safety properties of the passing runs,
for all values of the constants (that of headers sync under a hypothesis on the
networks, section 5), and of the two refinements.

Paths below are relative to the repository's root; the node's C++ code is in
`src/`.  `PROJECT.json` maps every definition to the lines it models and lists
runs, mutants, findings, hazards and theorems.

## 1. The system

    miners --Stratum/TCP--> pool_v8.py --retardio-cli--> node (src/) <--RPC-- explorer/app.py x workers
                               |                                                   |
                               +--HTTP--> pool_ui/app.py                        SQLite file

    node: ConnectTip/DisconnectTip -> view -> CoinsTip (cache) -> coins database
    node <--RPC-- packages/explorer-next (server-rendered pages)
    Wallet/main.js -> WASM (Wallet/src/lib/crypto.rs)

| Component | State | Operations | What is hard | What makes it correct |
|---|---|---|---|---|
| Emission (`src/validation.cpp`) | active chain, coins | GetBlockSubsidy, ConnectBlock, DisconnectBlock | truncated 1 % reductions over thousands of periods, no running total, reorganisations | total supply bounded, at every height |
| Difficulty (`src/pow.cpp`) | header chain | GetNextWorkRequired (two rules), PermittedDifficultyTransition, compact numbers | arbitrary timestamps, rounding, the switch of rules at height 15, two functions that must agree | every next target valid; the cheap test of headers sync accepts each valid chain |
| Stratum pool (`pool_v8.py`) | registry `miners`, `worker_stats`; per connection the name, job counter and job history; coroutines | authorize, submit, send_job, job_broadcaster, disconnect, restart | coroutines interleave at each await, peers stall, RPCs time out, the process restarts | job ids and history sound, the finder is paid, everyone gets jobs (not kept, sections 3 and 6), reports are true (not kept, section 6) |
| Explorer (`explorer/app.py`) | per worker `registered_nodes`, `primary_node`, lock; shared tables | sync_blocks, health_check, register_node, api_* | several processes on one database, RPC failures, reorganisations, restarts | table complete and consistent with the chain, sync makes progress |
| Pool statistics API, dashboard (`pool_ui/app.py`) | none / table of reports | reads / inserts | thread reads a dictionary that changes | - |
| Coins cache (`src/coins.cpp`) | entries with DIRTY and FRESH flags, in two levels | AddCoin, SpendCoin, GetCoin, BatchWrite, Flush, Sync, Uncache | a flag set once too often loses a spend, several flushes later | indistinguishable from a plain map of coins |
| Chainstate (`src/validation.cpp`, `src/txdb.cpp`) | coins database with one or two head blocks, block index, undo data, tip | ConnectTip, DisconnectTip, FlushStateToDisk, ReplayBlocks, LoadChainTip | crash between two batches, on a reorganisation, during recovery | after any crash the coins are those of the last durable block |
| explorer-next (`packages/explorer-next`) | none; a page in the making | getStats, getLatestBlocks, getBlock | up to 22 RPCs per page, each may fail, the chain moves in between | no mixture of chains; mock data only when the node is not there (not kept, section 6) |
| Wallet page (`Wallet/main.js`) | wallet in memory, document, timers | create, restore, backup, tabs, deploy, logout | two listeners on one tab, timers that nothing cancels, what a later session gets back | screen, wallet and phrase agree |
| block_explorer_server.py, scripts | none of interest | | | |
| Other node subsystems taken over from Bitcoin Core (txrequest, headerssync, txorphanage, check queue, scheduler, version bits, mempool, net, RPC, wallet, GUI) | as in Bitcoin Core | | locking, limits per peer | planned, see section 8 |

Interactions.  The pool asks the node for templates and submits blocks through
a blocking subprocess; while that call runs the whole event loop stands still.
It reports blocks to the dashboard over HTTP, also blocking.  The explorer's
workers share nothing but the SQLite file.  explorer-next asks the node anew for
each number on a page.  All three see the node only as "its active chain may
have changed since I last asked".  In the node, a block is applied to a view, a
cache over CoinsTip, which is a cache over the database; all under `cs_main`.

## 2. Modules

| Module | Models | Proofs | TLC |
|---|---|---|---|
| `Emission` | supply, GetBlockSubsidy, ConnectBlock, DisconnectBlock | `EmissionProofs` | `MCEmission` |
| `Pow` | pow.cpp, compact numbers, timestamp rules | `PowProofs` | `MCPow` |
| `StratumPool` | pool_v8.py | `StratumPoolProofs` | `MCStratumPool` |
| `Explorer` | explorer/app.py | `ExplorerProofs` | `MCExplorer` |
| `CoinEntry` | what each method of CCoinsViewCache does to the entry of one outpoint | used by the two below | |
| `CoinsCache` | view, CoinsTip and database | `CoinsCacheProofs` | `MCCoinsCache` |
| `CoinsMap` | abstract: three plain maps, implemented by `CoinsCache` | | |
| `BlockTree` | the blocks there are, when they are valid, and the unspent outputs of a chain by definition | | |
| `Chainstate` | connecting, flushing, crashing, recovering | `ChainstateProofs` | `MCChainstate` |
| `UtxoChain` | abstract: a tip with its coins, a durable block, implemented by `Chainstate` | | |
| `ExplorerNext` | lib/api.ts and the pages that use it | `ExplorerNextProofs` | `MCExplorerNext` |
| `WalletPage` | Wallet/main.js over index.html | `WalletPageProofs` | `MCWalletPage` |

Operators whose names end in `_Something` and are introduced by "Slip:" are
mutated forms of the definition that follows them.  No specification uses
them; they show that the properties notice such a change in the code.

### Emission

`supply[h]` is the total of coins after block `h` of the active chain.  A block
may claim any value up to its fees plus the subsidy (`bad-cb-amount` refuses
more); fees are paid from coins that exist.  `DisconnectBlock` returns to the
parent's coins.  The genesis coinbase is never added.  `Reward` is the table of
rewards that the loop in GetBlockSubsidy computes, fixed by `RewardAssumption`;
as a constant with that assumption it can be proved about for all lengths.

### Pow

`params` is the network the node runs on, one of the constant `Networks` (the
fields of Consensus::Params that pow.cpp reads, and the nBits of the genesis
block).  The chain is a sequence of `[time, nBits]`.  `AcceptBlock` appends a block with
any timestamp that median time past (and BIP94 where enforced) lets through,
and the work GetNextWorkRequired asks.  Numbers have `WIDTH` digits to the base
`BASE` (code: 32 and 256), compact ones `DIGITS` digits of mantissa with a sign
bit (code: 3), so that sign, rounding, overflow and the cap all occur with
small numbers.  `Mul` wraps like arith_uint256.  `Power[n]`, the weight of a
digit, is a function by recursion rather than `^`, which the provers do not
know; `Size` and `Leading` are the two parts of GetCompact.  The networks keep
what the unit test sanity_check_chainparams asks of them (`NetworksAssumption`,
`src/test/pow_tests.cpp:158-185`): the genesis target is between 1 and powLimit
and in compact form, and four timespans of the largest target do not overflow.
`HasRoom` says of a target that neither rule can bring it to 0.  The sum of 15 block times in
the code telescopes to one difference, with C++'s truncating division
(`Quotient`).  Not modelled: the hash itself, the limit of two hours into the
future, minimum versions.

### StratumPool

One action runs from one `await` to the next.  `task[t]` says where a
coroutine, the handler of a connection or the broadcaster, is suspended:

| pc | suspended in |
|---|---|
| `read` | `readline` |
| `send_job` | the reply before `send_job` (authorize, or show_message after a block) |
| `difficulty` | `send_difficulty`, with the job's number and template already taken |
| `drain` | the last send of a request, or mining.notify |
| `sleep`, `round` | broadcaster: `sleep(30)`, between two miners |

A send returns unless the peer is `stalled`; a peer that is gone makes it fail,
and `send` swallows that (the next `readline` then ends the handler).  Since an unpaused `drain` may not suspend at all, the
model has more interleavings than a run of the program, never fewer.  `names`
and `notified` are histories for the properties; `accepted` and `rows` are the
node's and the dashboard's view of blocks found.  `Restart` kills the process
at any point.  `SubmitBlock` chooses the node's answer: taken, taken but not
answered in time, rejected, or never asked; `rpc` returns None for all but the
third.  A line over the limit of `readline` ends a handler while the peer is
still there (`HandlerEnds` in `Request`).  `EmptyNames` are the names Python takes
for false (`""`): authorize registers them and the cleanup of `handle` passes them
over (`self.worker_name and ...`).

Abstracted: the bytes of coinbase, merkle root and header (a share is a number,
its difficulty; a job is its template and payee), hashrate, times.  A worker
name's address is the constant `Wallet`; POOL_ADDRESS is assumed well formed
(with a malformed one `send_job` raises at line 362 for every miner without an
address, which the handler and the broadcaster log and ignore).  The broadcaster takes the
miners in any order.

### Explorer

A block is the path of branch choices from genesis, so parent, height and hash
need no extra state.  A node's chain grows, or changes to another branch with
more work, which may be a shorter one; getblockhash then answers an error for a
height that was within the chain when the pass began.  `skipped` is the history
of the heights that sync_blocks passed over without an answer; `reorgs` and `calls`
count towards bounds.  Each
worker has a sync thread (`sync[w]`: program counter, node, current and last
height, hash), a health thread (`health[w]`: nodes still to probe; the lock is
held while there are any), and registrations in progress (`probed`, `saving`).
The insert of a block with its transactions, outputs and inputs is one commit
and one action; `SyncError` is its rollback.  One address, the miner's, receives
all coinbases; blocks at height 2 spend the first one: enough for the order of
outputs and inputs to matter.  `get_active_node` takes any active node where
the code takes the first in the order of registration.

### CoinsCache

`CoinEntry` has one operator per method, on the entry of one outpoint and on
what the base shows: `Fetched`, `Added`, `SpentIn`, `Written` (BatchWrite into a
cache), `Stored` (BatchWrite into the database), `Cleaned` (Sync), `Uncached`.
`CoinsCache` stacks them: `db`, `tip`, and `view` while `open`.  A lookup in the
view fetches in CoinsTip too (`FetchForView`).  `AddCoin` has the guard its
callers keep: they allow the overwrite unless HaveCoin or the BIP30 rule says
there is nothing to overwrite.  `call` is the interface: the last call with the
coin it took or returned.  A spent entry and no entry both show `NoCoin`, as
GetCoin does.

`CoinsMap` is what a caller may believe: `working`, `coins` and `durable` maps,
and calls that read and write them.  Fetching, Uncache and OpenView are stutters.

### Chainstate

An outpoint is a txid (one output each) and a coin is the height it was created
at, which is what tells apart the outputs of a transaction mined on two
branches.  Blocks are applied transaction by transaction with the operators of
`CoinEntry`: `ConnectBlock` gives view and undo data, `DisconnectBlock` a view
and whether it was clean, `RollforwardBlock` redoes a block that may be partly
applied.  Their loops over the transactions of a block, and those of ReplayBlocks
over the blocks of two branches (`Replayed`), are recursive functions.  The blocks
of the tree are valid (`ValidAssumption` in `BlockTree`): a transaction spends
outputs that its chain has created before and not spent (CheckTxInputs), and is
itself not in the chain already, which for a coinbase is BIP34 (enforced from
height 0 on the main network) and for any other transaction follows, as its
inputs could not be spent again.  `pc` says where the node is: `idle`, `if_needed` (after a block, before
FlushStateToDisk has decided), `coins` (BatchWrite of CoinsTip), `replay`
(BatchWrite of the cache of ReplayBlocks), `down`, `failed`.  FlushStateToDisk
writes the block index first and then the coins, outpoint by outpoint in any
order and with a crash possible between any two (`WritePartialBatch`), under the
two head blocks.  `Init` is the node after genesis has been connected.  Any
block whose parent is the tip may be connected and the tip may be disconnected
at any time, so reorganisations of any shape occur.

`UtxoChain` promises: while the node runs, its coins are `Utxo(tip)`, which is
defined from the blocks alone; a crash loses only what came after `durable`; a
restart has `Utxo(durable)`.  Under the mapping, the first partial batch is the
moment the new block becomes durable, since recovery goes forward from there.

### ExplorerNext

One action per await of `getStats`, `getLatestBlocks` and `getBlock`; `rpcCall`
returns the answer or null.  `tips` is the history of the node's chain, `since`
the position at which the page was requested, so "was active while the page was
made" can be said.  A block is its path of branches, as in `Explorer`.  A
reorganisation may shorten the chain (fewer blocks with more work).
`configured` says whether RPC_USER is set when the server runs, `prerendered`
whether it was unset when it was built: the home page is then the static mock
page (`OpenHome`), see section 6.  The block page has a parameter in its path and
is rendered per request.

### WalletPage

`page` is the document: the visible section, the restore area, which tabs have
the class `active` and which contents are shown, the phrase in the grid, the
keys shown, blur, banner, message.  A handler is one action; `toasts` and
`deploys` count pending timers.  `made` and `log` remember, over reloads, the
phrases generated and with which passphrase.  Passphrases are typed with or
without spaces around them, and `trim` does what it does.  `Key` stands for
crypto.rs: new_random and from_mnemonic derive the same key from the same phrase
and passphrase, and different ones otherwise.

## 3. Runs

Passing runs (each takes a minute and a half or less with two workers of TLC):

| Run | Bounds | Distinct states | Shows |
|---|---|---|---|
| `emission` | subsidy 4, 4 periods of 2 blocks, fees 0, 1, 3 | 105,078 | `SupplyOnSchedule`: claims, fees and reorganisations across period boundaries |
| `pow_networks` | base 4, mean over 3, median over 3, 7 blocks, steps -3 to 40; four networks | 172,028 | `NextTargetValid`, `HeadersSyncAccepts`, `SteadyAtTarget` with the shapes of main (interval longer than the window, genesis at powLimit), testnet4 (min-difficulty blocks, BIP94), regtest (no retargeting) and a slow signet (the interval rule retargets before the window is full) |
| `pool_jobs` | 1 connection, 2 names (one empty and without address), history 1+1, 3 jobs, 1 block, 2 runs of the process, fair | 633,934 | `RecentJobsResolve`, `JobIdsUnique`, `JobsPayTheMiner`, `BestDiffKept`, `RequestCompletes` |
| `pool_registry` | 2 connections, 2 names (one empty), 2 runs of the process | 840,362 | `RegistryOwner`, `BroadcastReachesAll` |
| `explorer_sync` | 2 workers, 1 node, 2 branches, height 2, batch 2, 1 reorganisation, 1 registration, 1 restart, RPCs answer, fair | 60,928 | `GapsAreSkips`, `BalanceOfChain`, `CatchesUp` |
| `coins_cache` | 2 outpoints, 2 coins | 29,996 | `SanityCheck`, `NoLogicError`, refinement `ImplementsMap` |
| `chainstate` | 6 blocks on two branches, 8 transactions, 2 crashes | 489,750 | `NeverStuck`, `SameTarget`, refinement `ImplementsUtxoChain` |
| `explorer_next` | 2 branches, height 3, 3 tips, 3 blocks listed, with and without RPC_USER at build and at run time, fair | 372,837 | `KeysDistinct`, `ShownWasActive`, `ListIsTopOfChain`, `RequestEnds` |
| `wallet_page` | 2 phrases, 2 timers of each kind, passphrases with and without spaces, fair | 79,837 | `RestoreModeShown`, `ScreenMatchesWallet`, `SamePhraseSameKeys`, `WalletNotReplaced`, `ToastHides` |

Why these bounds.  The emission's first reductions and their truncation happen
in the first periods, and each boundary is alike.  In `Pow` a chain twice as
long as the window passes from one rule to the other and slides the window over
blocks of the new one; steps include backwards, on schedule, slow and extreme.
In the pool two coroutines run `send_job` of a connection (its handler and the
broadcaster), so one connection has all interleavings there, and three jobs
overflow a history of two; what two connections do to each other goes through
the registry, where the two names and two connections of `pool_registry` give
every case of taking over, sharing, giving up and cleaning up a name, empty or
not; a broadcast round and a restart go on in between.  In the explorer a batch of
2 over three heights gives a pass that ends early, one that continues, and
overlapping ranges of two workers (one registers the node, the other loads it
when it restarts); the reorganisation, from any branch to any
other, shorter ones included, comes between any two steps.  With height 2 and
RPCs that answer, no skipped height lies below a stored one, so the run shows
that nothing but a skip could leave a gap; `explorer_gap` reaches a gap, and the
theorem `GapsHold` is for all heights.  A batch of at least 2 matters: `or -1`
takes height 0 for an empty table, and with a batch of 1 the code would fetch
genesis for ever (with the code's 100 it fetches it twice).

The caches never look at two outpoints at once, so one outpoint has every case
and the second one shows independence; two coins tell a stale answer from a
fresh one.  The tree of `MCChainstate` has a transaction mined on both branches
at different heights, whose output is spent in a later block on one and in the
same block on the other: rolling back and forward meet every combination of
output present or not and input present or not.  Two crashes give a crash in the
recovery from a crash; with the second one the database is again in a state a
first one can leave.  In `ExplorerNext` three listed blocks and three tips put a
reorganisation before, between and after the RPCs of the loop, and chains both
shorter and longer than the list.  In `WalletPage` two phrases let one session
restore what another made; two timers overlap.

The type invariants of `CoinsCache`, `ExplorerNext` and `WalletPage` are no run's
question, nor is that of `Chainstate`: they are part of the invariants proved.

`Pow` runs stop at `MaxHeight`, so its cfgs do not check deadlock.

Three runs are violated.  Each checks a statement of the code's documentation:

| Run | Statement | What happens |
|---|---|---|
| `pool_reconnect` | `EveryMinerListed`: "Periodically send new jobs to all miners" (`pool_v8.py:613`) | a worker reconnects, then its old connection ends: the cleanup (line 608) deletes the place of the new one |
| `explorer_gap` | `BalanceCorrect`: "Get all outputs (received) for this address" (`explorer/app.py:250`) | a failed RPC leaves a height out for ever |
| `explorer_reorg` | `ListedTxsBelong`: "Block details" (`explorer/README.md:153`) | two workers store two blocks of one height around a reorganisation; the row is replaced, the transactions of both stay listed |

Other statements the code does not keep are in section 6.

## 4. Fairness

Pool, `LoopFairness`: asyncio runs each handler that can go on.  It is strong
because `resume_writing` completes the waiter of a drain at once: that the peer
stalls again before the coroutine is scheduled does not suspend it again.
`PeerFairness`: a peer that does not read reads again or its connection ends.  It
is an assumption about the network, and `RequestCompletes` needs it for the
handler's own peer only.  The broadcaster would need it of every miner's peer,
which the code does nothing to ensure (section 6), so nothing is claimed of its
rounds.  No fairness for the broadcaster, requests, connects, the node or restarts.

Explorer, `FairSpec`: threads run (weak for the health check, whose RPCs have a
timeout of ten seconds).  Strong for the sync thread, since health_check sleeps
60 seconds between two holds of the lock, and strong for the commit of each
height by some worker, since a database that was locked is free again.
`CatchesUp` says that every height of a node is stored in the end, or passed over,
or reorganised away, once all nodes have been registered; it is checked with RPCs
that answer: with failures `explorer_gap` is the result.

explorer-next, `FairSpec`: an await ends.  rpcCall sets no timeout, but fetch does:
undici gives up on headers and body after five minutes each, and an exception is
null.  No fairness for requests or the node.  Wallet page: the browser fires the
timers of showToast.

## 5. Proofs

All proofs are for every value of the constants allowed by the modules'
ASSUMEs; a theorem that needs more says so in its own ASSUME, given below.  Each
invariant was found by strengthening the property until every action keeps it,
and TLC checked the strengthened form on the run's instance before the proof.

`EmissionProofs`.  `TypeCorrect`: `Spec => []TypeOK`.  `ScheduleHolds` and
`CapHolds`: `Spec => []SupplyOnSchedule` and `Spec => []SupplyCap`, which says that
there are never more coins than 100 intervals of the initial subsidy.  No run
checks `SupplyCap`, which is defined beside its theorem: a few short periods come
nowhere near the cap, whatever the code does.  It is not inductive either.  `Headroom(h)` adds to the supply at `h` the rest of the
running period and 99 more periods at the running reward and still fits under
the cap of 100 initial periods.  Within a period a block moves one reward from
the rest to the supply; at a boundary the reward drops from r to at most
99 r / 100, truncated, so 100 periods at the new reward fit into the 99 at the
old one.  It must hold at each height of the active chain (`SupplyOnSchedule`),
since a disconnect makes an earlier height the tip.

`StratumPoolProofs`.

- `PoolTypeCorrect`: `Spec => [](TypeOK /\ WorkIsLive)`, and with it
  `TypeCorrect`: `Spec => []TypeOK`.  `HistoryCorrect`:
  `Spec => []RecentJobsResolve`, for every history size.  `WorkIsLive` is what
  makes the latter inductive: a coroutine that comes back from `send_difficulty`
  must store its job into a connection of the running process, never into one
  that a restart has emptied.  With it each action either leaves jobs and
  notifications alone or appends one to both and drops the oldest when there
  are more than `MaxHistory`.
- `RegistryCorrect`: `Spec => []RegistryOwner`.  `ReachCorrect`:
  `Spec => []BroadcastReachesAll`, which needs `NameKnown`: a connection's current
  name is one it has authorized, and a connection not yet accepted has none.
  So the place of a name is lost only by the cleanup of a connection that held
  the name, and never that of an empty name.
- `PayeeCorrect`: `Spec => []JobsPayTheMiner`, with `WorkIsNamed`: whoever
  is about to get a job (in `send_job`, in a broadcast round, in the registry)
  has authorized a name.
- `IdsCorrect`: `Spec => [](IdsIssued /\ JobIdsUnique)`.  `IdsIssued` says
  that a live connection has been sent ids of the running session with numbers up
  to its counter only, that a coroutine suspended in `send_difficulty` holds such
  a number, and that no two of them hold the same.
- `StatsCorrect`: `Spec => BestDiffKept`, an action property.

`PowProofs`, for every base, precision, width, set of networks, window, chain
length and timestamps.

- That `Power` is a function at all, positive, increasing and a homomorphism is
  proved by induction from the least element of a set of natural numbers; so
  are the few facts about products and quotients with two variables that the
  solver does not find.
- `RoundGreatest`: GetCompact followed by SetCompact (`Round`) gives the
  greatest number up to n that nBits can express; the two forms of a word, with
  and without the extra digit for the sign, are the two cases of `CompactIs`.  So
  rounding is monotone (`RoundMono`), keeps positive numbers positive
  (`RoundPos`) and leaves what is rounded alone (`RoundStable`).
- `MulExact`: below powLimit the products of both rules do not wrap.  From it
  `RetargetMono`: more measured time never gives a smaller target.
- `TargetsAlwaysValid`: `Spec => []TargetsValid`, the inductive invariant: nBits
  of every header of the chain is the compact form of a target between 1 and
  powLimit.  From it `TypeCorrect` (`TypeOK`), `NextTargetCorrect`
  (`NextTargetValid`) and `SteadyCorrect` (`SteadyAtTarget`: rounding does not
  drift).
- `AcceptsOffBoundaryCorrect`: on every network, PermittedDifficultyTransition
  accepts each header the rules ask for, but for the block at height
  `nBlocksToAverage` where that is a multiple of the interval.
  `HeadersSyncCorrect`: `Spec => []HeadersSyncAccepts` if no network without
  min-difficulty blocks has such an interval (`OffBoundary`).  The networks of
  `src/kernel/chainparams.cpp` are so; a signet made with `-signetblocktime` need
  not be (section 6).
- `DoublesCorrect`: once the averaging rule is in force no target is more than
  twice its parent's, rounding and cap included (`src/pow.cpp:122`, "Allow max 2x
  increase").  The other half of that comment, "or 0.5x decrease", holds up to
  truncation only: half of an odd spacing is truncated and rounding goes down.

`CoinsCacheProofs`.  `SanityHolds`, `NoErrorHolds` and `CacheRefinesMap`:
`Spec => [](TypeOK /\ SanityCheck)`, `Spec => []NoLogicError`, `Spec => Map!Spec`.  One
inductive invariant carries all three: for each outpoint, each cache's entry is
sound over what its base shows.  Sound means: an entry that is not DIRTY agrees
with the base, is unspent and is not FRESH; a FRESH entry is unspent and the
base shows no coin.  And a view that is not open is empty.  That FRESH is about the
base's coin, not about the base's entry, is what makes the invariant survive a
flush of the base: a flush changes where CoinsTip finds a coin but not what it
shows.  The refinement is then one step per action, with the lemmas on
`CoinEntry` saying what each operator shows.

`ExplorerProofs`.

All three theorems are without hypotheses: any number of workers, nodes and
branches, any batch, RPCs that fail or not, rollbacks, restarts, and
reorganisations to shorter chains.

- `ExplorerTypeCorrect`: `Spec => []TypeOK`.  `TypeInv` adds that the heights of a
  pass are in order, that a thread's hash is a block of its current height, and
  that the row of a height holds a block of that height.
- `GapsHold`: `Spec => []GapsAreSkips`.  `GapInv` says that below each stored height,
  and below the current height of each thread in the middle of a pass, every
  height is stored, whoever stored it, or was skipped (`Covered`).
- `BalanceHolds`: `Spec => []BalanceOfChain`.  `BalanceInv` adds `RowsInv`: the
  tables hold the transactions and inputs of the stored blocks; what they hold
  more is of blocks of stored heights that were replaced; and while nothing was
  skipped and the blocks are of one chain, every input has found its output.
  Under that condition the tables are those of the stored blocks
  (`CleanComplete`), and the balance is a difference of cardinalities.

`ListedTxsBelong` is false with two workers (run `explorer_reorg`), and
`BalanceCorrect` without the conditions of `BalanceOfChain` (run `explorer_gap`);
neither is proved under a hypothesis that excludes what is deployed.

`ExplorerNextProofs`.  `PagesCorrect`: `Spec => []PagesInv`, an invariant for the
three requests: types, the fields a suspended request may have filled (`Shape`),
the loop is below every block it has listed (`Below`),
the hash in hand and the blocks shown were on a chain active since the request
(`PendingWasActive`), a height read with every RPC answered is that of a tip of
that time (`Answered`), and
while the chain only grew, the list is that of one chain (`Top`).  From it
`KeysCorrect`, `ShownCorrect` and `TopCorrect`: `KeysDistinct`, `ShownWasActive`,
`ListIsTopOfChain`.

`WalletPageProofs`.  `PageCorrect`: `Spec => []PageInv`, from it `ScreenCorrect`,
`RestoreModeCorrect` and `RestoreCorrect` (`ScreenMatchesWallet`,
`RestoreModeShown`, `SamePhraseSameKeys`); and the action property `WalletKept`
(`WalletNotReplaced`).  `OneScreen`: at most one
section is visible, the backup only for a generated phrase, and a pending deploy
timer has left its banner.  `KeysHaveOrigin`: the
keys in memory and in the log are derived from phrase and trimmed passphrase.

`ChainstateProofs`, for every tree of blocks in which each block reaches genesis
in finitely many steps (`RootAssumption`) and is valid on top of its parent
(`ValidAssumption`), of any size and with any number of crashes.

- `DiskCorrect`: `Spec => []DiskInv`: whichever block the coins database names, as
  its best or as one of its heads, the block index on disk knows its whole chain
  and has the undo data for it; memory knows what the disk knows; a write in
  progress continues towards the first head.  It is the order in
  FlushStateToDisk, index first, that keeps it.  From it `TargetCorrect`:
  `Spec => []SameTarget`, and `StartSucceeds`: no start after a crash fails.
- `CoinsCorrect`: `Spec => []CoinInv`, from it `TypeCorrect`, `NeverStuckCorrect`
  (`Spec => []NeverStuck`) and, step by step, `PromiseKept`:
  `Spec => ImplementsUtxoChain`.  `CoinInv` says that all undo data is what its block
  spent (`UndoRight`); that the database has the coins of its best block or, in
  transition, for each outpoint those of one of its two heads (`DbRight`); and
  that the cache over the database shows the coins of its best block, each entry
  sound in the sense of `CoinsCacheProofs` until it is written (`CacheRight`).
- The argument for recovery is `Toward(p, q, X, Y)`: on the way from the coins X
  to the coins Y, a view that showed p comes to show q, and for each outpoint q
  shows Y, or neither the view nor the coins changed there.  One transaction of
  RollforwardBlock is such a step forward, one of DisconnectBlock such a step
  back, whatever the database holds; such steps compose, over the transactions
  of a block, over the old branch back to the fork, and over the new one
  forward.  So ReplayBlocks leads from the old head to the new one, and an
  outpoint it leaves alone has the same coin in both, one of which the database
  has.  This is what "the result is still a version of the UTXO set with the
  effects of that block undone" (`src/validation.cpp:5320`) rests on.
- Where the starting coins are exact, `Toward` gives exact ones, which makes
  DisconnectTip clean.  That the coins of a chain can be computed transaction by
  transaction (`CoinsUpTo`) although `Utxo` is defined from the whole chain is
  where validity is needed: no transaction is in a chain twice, and an output
  spent there was created before.
- That the recursive functions of the model are defined at all is proved by
  induction: on the number of transactions (`Iterate`) and along the chains of
  the tree (`AlongChains`), both from the existence of a least natural number in
  a set, since the library's induction schemes take operators.

Checked by TLC only is all liveness: `CatchesUp`, `RequestCompletes`, `RequestEnds`, `ToastHides`.  Fairness and ENABLED are outside
the prover's reach.

## 6. Observations

Statements of the repository that the code does not keep, and limits met while
modelling, beyond the three violated runs of section 3:

- `src/consensus/amount.h:19-20` says the total supply is below 21,000,000.  The
  emission passes that (MAX_MONEY) after about 8,760 of the first 87,600 blocks;
  MAX_MONEY was not scaled with the subsidy, so coins that exist may not pass
  MoneyRange when gathered in one transaction.
- `src/test/validation_tests.cpp:27-38` still expects rewards that start at 50 coins
  and halve, and lines 78-85 a total of 20,999,999.9769 coins: Bitcoin's schedule,
  which GetBlockSubsidy no longer has.
- `src/pow.h:44-46` still describes the interval rule only: "otherwise requires
  the values to be the same".  With DigiShield the work changes each block.
- testnet's genesis nBits (`src/kernel/chainparams.cpp:227`) is 4096 times easier
  than its powLimit (line 196), which `src/test/pow_tests.cpp:170` forbids.
  `NetworksAssumption` therefore excludes testnet as it is configured: what is
  checked and proved of `Pow` is about the other networks.
- `src/pow.cpp:128`: with `-signetblocktime=1` half the target spacing is 0, so
  blocks with equal times would get the target 0, which no hash meets.  With any
  spacing a target of a few units can round to 0 (with 256 bits that is out of
  any miner's reach).  `NextTargetValid` is therefore about chains whose
  targets have room.
- `src/pow.cpp:25` uses the interval rule for the block at height 15 too, and
  `src/pow.cpp:150` judges that block by the averaging rule.  Where 15 is a
  multiple of the interval (15, 5 or 3: a custom signet only) the block may
  change the target by 4 and is refused as a change by more than 2, although
  `src/pow.h:40-42` says false means "not possible".  TLC finds
  `HeadersSyncAccepts` violated with `Networks <- BoundaryNetworks` of `MCPow`.
- `pool_v8.py:557`, `608-609`: `miners` has one place per worker name.  A second
  connection under a name replaces the first, which gets no periodic job from
  then on although it is open (`BroadcastReachesAll` speaks of the place of the
  name, not of who holds it); the cleanup of either empties the place of both
  (run `pool_reconnect`).
- `pool_v8.py:556-557`, `608`: an empty name is registered like any other, and the
  test `self.worker_name and` at the end keeps it from being removed: the entry
  stays, with its finished connection, until the process ends.
- `pool_v8.py:516-518`: `rpc` returns None for a block that was taken and for a
  timeout; both print "BLOCK ACCEPTED!" and are reported to the dashboard.
- `pool_v8.py:618`: the broadcaster awaits one miner after the other and drains
  without a timeout: a peer that never reads and never leaves keeps the round from
  ending, and all other miners from their periodic jobs.  No property says that
  rounds end.
- `pool_v8.py:461-480` counts a share before line 486 judges it, although the
  comment at 484 calls that test "for counting".
- `pool_v8.py:486` refuses shares below POOL_SHARE_DIFF before it compares them
  with the network target: while the network's difficulty is the lower of the
  two, blocks are refused, against the comment at line 32.
- `pool_v8.py:358`: a job pays the last name its connection authorized, and
  old jobs keep the old payee; shares carry a name of their own that is ignored.
- `pool_v8.py:43-44`: the session id, "unique per pool restart", is 16 bits of the
  start time and repeats after 65,536 seconds.  No property says that ids of an
  earlier run are recognised.
- `explorer/app.py:348`: a registration reaches the memory of one worker only;
  the others learn of it when they restart.
- `explorer/app.py:133-144`: nothing undoes the rows of a branch a node has left.
  Heights already stored are not fetched again, so their rows stay those of the
  old branch; if the new one is shorter, a pass under way skips the heights above
  it, and a later pass may store above them.  `BalanceOfChain` therefore speaks of
  tables with blocks of one chain.
- explorer-next, `app/page.tsx`: neither `dynamic` nor `revalidate`, and `lib/api.ts:29`
  returns before any fetch when RPC_USER is not set.  A build without it, such as
  that of `packages/ops/vps_complete_setup.sh:222` (which sets it for the running
  service only, line 204), makes `/` a static page of mock data, served
  whatever the node answers.
- explorer-next, `lib/api.ts:93`: `!height` takes height 0 for a failure.
  `lib/api.ts:118`: a height that does not exist shows the mock block 10500, so
  "Block not found" (`app/block/[height]/page.tsx:11`) is never reached.
  `lib/api.ts:121`: a failure of the second RPC is a TypeError.  Real statistics
  and mock blocks, or the reverse, can be on one page.  Supply (`blocks * 50`),
  reward (50) and `halving.ts` (halving every 210,000) are not Retardio's
  emission; `halving.ts` and `miners.ts` are not used by any page.
- Wallet, `README.md:62`: "Mnemonic phrases are cleared from UI elements
  immediately after backup".  `main.js:75-79` hides the section; the words stay
  in the grid until the page is left.  `README.md:19` promises a dashboard;
  `index.html` has none, so after "I understand and have saved my keys" the timer
  (`main.js:207-210`) hides the wallet and fails: the page is empty until it is
  reloaded.  After a click on a restore tab the wallet section shows no tab's
  content until one is clicked (`main.js:100-103`).  A message that follows
  another within three seconds is hidden by the other's timer.  The backup
  screen calls the phrase "the ONLY way to recover your wallet"; without the
  passphrase, which createWallet requires, it gives other keys.  The last line
  of `main.js`, `Greenland`, is a ReferenceError after `start()` has been called.

## 7. Not modelled

Cryptography, scripts and bytes; the node's parts taken over unchanged (planned
or listed in `PROJECT.json` with the reason); fixed pages and scripts.  Of the
hazards listed in `PROJECT.json`, those without a property carry a note.
Smaller ones are not listed there: the statistics thread of the pool and
`api_status` of the explorer iterate a dictionary that another thread changes
(the request fails, no state does); a share submitted twice is counted twice; a
template fetched before an await may be stored after a newer one; the version in
`pool_v8.py:435` is byte-swapped; `writeText` in `Wallet/main.js:87` is not awaited,
so "copied" may be untrue; two overlapping calls of `initWallet`
(`Wallet/src/lib/wallet.ts:6`) both instantiate the module, and the second
instance replaces the one the first wallet points into (no caller does it).

Of the coins: EmplaceCoinInternalDANGER and snapshots, memory accounting,
unspendable outputs, coins from before undo data had heights.  Of the chainstate:
pruning, blocks that turn out invalid (`DropView` of `CoinsCache` has their
effect on the coins), coinbase maturity, the choice of the best tip, writes that
fail (the node stops, as in `Crash`), and a crash of the machine, where data the
operating system has not written is lost too: `src/validation.cpp:3154` only
warns when block files cannot be flushed.  Of the wallet: `wallet.ts` (a wrapper
with the one hazard above) and the Electron window.

The `.ts` files under `src/qt/locale` are Qt translations: XML data without
behaviour, and by far the most lines of any file type in the repository.  There
is nothing in them to model.

## 8. Plan

Done: `Emission`, `StratumPool`, `Pow`, `Explorer`, `CoinsCache` and `Chainstate`
with their refinements proved, `ExplorerNext`, `WalletPage`.  Left, in order:

1. `PoolCodec`: serialize_height, varint, word swaps, version and merkle
   branches as operators against the node's rules, over bounded inputs.
2. `TxRequest`: the request tracker against its abstract promise (an
   announcement is requested from one peer at a time, and some peer is asked in
   the end).
3. `CheckQueue`: master and workers, no lost wakeup, result of the first failure.
4. `HeadersSync`, composed with `Pow`; `Orphanage`; `Scheduler` with the
   validation interface.
