---------------------------- MODULE ExplorerNext ----------------------------
(***************************************************************************)
(* The server side of packages/explorer-next: the two pages that read the  *)
(* node, and lib/api.ts between them.  A page is put together from several *)
(* RPCs, one await each, while the node's chain moves on; an RPC that fails*)
(* in any way returns null (rpcCall catches everything), and pages fall    *)
(* back to mock data.                                                      *)
(*                                                                         *)
(* A block is the path of branch choices from the genesis block <<>>, which *)
(* is its hash as well; its length is its height.                          *)
(***************************************************************************)
EXTENDS Integers, Sequences, SequencesExt

CONSTANTS
  Branches,     \* choices at each height
  MaxHeight,    \* bound on the height of a chain
  MaxTips,      \* bound on the number of tips the node has had
  COUNT,        \* blocks listed on the home page (code: 10)
  MockHeight,   \* height of the newest mock block (code: 10500)
  MockHash,     \* the hash all mock blocks share
  Null

VARIABLES
  configured,   \* process.env.RPC_USER is set when the server runs
  prerendered,  \* it was not set when `next build` ran: / is a static page
  tips,         \* every tip the node's active chain has had, the last one current
  req           \* the page being rendered

vars == <<configured, prerendered, tips, req>>

Paths == UNION {[1..n -> Branches] : n \in 0..MaxHeight}

\* The mock blocks are above every chain; null and the mock hash are no blocks.
ASSUME NextAssumption ==
  /\ COUNT \in Nat \ {0} /\ MaxHeight \in Nat /\ MaxTips \in Nat \ {0}
  /\ MockHeight \in Nat /\ MockHeight > MaxHeight + COUNT
  /\ Null \notin Nat /\ Null \notin Paths /\ MockHash \notin Paths

Entry(b) == [height |-> Len(b), hash |-> b]
MOCK_BLOCKS == [k \in 1..COUNT |-> [height |-> MockHeight - k + 1, hash |-> MockHash]]

\* A page before its first RPC.  since is the position in tips when it was
\* requested; failed records that an RPC did not bring the node's answer.
Page(kind, pc, want) ==
  [kind |-> kind, pc |-> pc, want |-> want, since |-> Len(tips), failed |-> FALSE,
   stats |-> Null, height |-> 0, i |-> 0, hash |-> Null, list |-> <<>>]

Rendering == req.pc \notin {"done", "error"}

Init ==
  /\ configured \in BOOLEAN /\ prerendered \in BOOLEAN
  /\ \E t \in Paths : Len(t) <= 1 /\ tips = <<t>>
  /\ req = Page("none", "done", 0)

\* The active chain grows or is reorganised, to one with more work and perhaps
\* fewer blocks, but never to a part of itself.
NodeAdvances ==
  /\ Len(tips) < MaxTips
  /\ \E t \in Paths : ~IsPrefix(t, Last(tips)) /\ tips' = Append(tips, t)
  /\ UNCHANGED <<configured, prerendered, req>>

-----------------------------------------------------------------------------
\* Slip: without `cache: "no-store"` the first answer is used for ever.
Chain_Cached == Head(tips)

\* The chain the node answers from, asked anew by every call.
Chain == Last(tips)

\* rpcCall: the node's answer, or null after any failure; always null when
\* RPC_USER is not set.
rpcCall(answer) == IF configured THEN {answer, Null} ELSE {Null}

\* The node's answers: getblockhash is an error (null) above the tip, and
\* getblock, an error without a hash, still knows a block that was reorganised away.
getblockhash(h) == IF h \in 0..Len(Chain) THEN SubSeq(Chain, 1, h) ELSE Null

\* A request's state after an RPC with the given answer and result.
Got(answer, result, pc) == [req EXCEPT !.pc = pc, !.failed = @ \/ result # answer]

-----------------------------------------------------------------------------
(***************************************************************************)
(* /: page.tsx is neither dynamic nor revalidated.  With RPC_USER set, the *)
(* no-store fetches of the build make it dynamic, rendered per request;    *)
(* without it no fetch is made, and the build's mock page is served.       *)
(***************************************************************************)
OpenHome ==
  /\ ~Rendering
  /\ req' = IF prerendered
            THEN [Page("home", "done", 0) EXCEPT !.failed = TRUE, !.stats = MockHeight,
                                                !.list = MOCK_BLOCKS]
            ELSE Page("home", "stats", 0)
  /\ UNCHANGED <<configured, prerendered, tips>>

\* /block/[height] with any height, one that does not exist included.
OpenBlockPage ==
  /\ ~Rendering
  /\ \E h \in 0..MaxHeight + 1 : req' = Page("block", "pageHash", h)
  /\ UNCHANGED <<configured, prerendered, tips>>

\* getStats: getmininginfo.blocks, or the mock height.
GetStats ==
  /\ req.pc = "stats"
  /\ \E r \in rpcCall(Len(Chain)) :
       req' = [Got(Len(Chain), r, "count") EXCEPT !.stats = IF r = Null THEN MockHeight ELSE r]
  /\ UNCHANGED <<configured, prerendered, tips>>

\* getLatestBlocks, first await: `!height` is true of null and of height 0.
GetBlockCount ==
  /\ req.pc = "count"
  /\ \E r \in rpcCall(Len(Chain)) :
       req' = IF r \in {Null, 0}
              THEN [Got(Len(Chain), r, "done") EXCEPT !.list = MOCK_BLOCKS]
              ELSE [Got(Len(Chain), r, "hash") EXCEPT !.height = r]
  /\ UNCHANGED <<configured, prerendered, tips>>

\* Slip: a failed getblockhash leaves the hash of the round before.
LoopHash_KeepsHash ==
  /\ req.pc = "hash"
  /\ LET answer == getblockhash(req.height - req.i) IN
       \E r \in rpcCall(answer) :
         req' = [Got(answer, r, "block") EXCEPT !.hash = IF r = Null THEN @ ELSE r]
  /\ UNCHANGED <<configured, prerendered, tips>>

\* Slip: counts down from the height the node has now.
LoopHash_FreshHeight ==
  /\ req.pc = "hash"
  /\ LET answer == getblockhash(Len(Chain) - req.i) IN
       \E r \in rpcCall(answer) : req' = [Got(answer, r, "block") EXCEPT !.hash = r]
  /\ UNCHANGED <<configured, prerendered, tips>>

\* getLatestBlocks, in the loop: getblockhash(height - i).
LoopHash ==
  /\ req.pc = "hash"
  /\ LET answer == getblockhash(req.height - req.i) IN
       \E r \in rpcCall(answer) : req' = [Got(answer, r, "block") EXCEPT !.hash = r]
  /\ UNCHANGED <<configured, prerendered, tips>>

\* The loop goes on until COUNT rounds are done or h < 0.
LoopPc(i) == IF i < COUNT /\ req.height - i >= 0 THEN "hash" ELSE "done"

\* Slip: a block that did not come is asked for again.
LoopBlock_Retries ==
  /\ req.pc = "block"
  /\ \E r \in rpcCall(req.hash) :
       req' = IF r = Null THEN Got(req.hash, r, "hash")
              ELSE [Got(req.hash, r, LoopPc(req.i + 1)) EXCEPT
                      !.i = @ + 1, !.list = Append(@, Entry(r))]
  /\ UNCHANGED <<configured, prerendered, tips>>

\* getLatestBlocks, in the loop: getblock(hash), left out of the list if null.
LoopBlock ==
  /\ req.pc = "block"
  /\ \E r \in rpcCall(req.hash) :
       req' = [Got(req.hash, r, LoopPc(req.i + 1)) EXCEPT
                 !.i = @ + 1, !.list = IF r = Null THEN @ ELSE Append(@, Entry(r))]
  /\ UNCHANGED <<configured, prerendered, tips>>

\* getBlock, first await: no hash, for whatever reason, shows the first mock block.
GetBlockHash ==
  /\ req.pc = "pageHash"
  /\ \E r \in rpcCall(getblockhash(req.want)) :
       req' = IF r = Null
              THEN [Got(getblockhash(req.want), r, "done") EXCEPT !.list = <<MOCK_BLOCKS[1]>>]
              ELSE [Got(getblockhash(req.want), r, "pageBlock") EXCEPT !.hash = r]
  /\ UNCHANGED <<configured, prerendered, tips>>

\* getBlock, second await: block.height of null is a TypeError, and the page fails.
GetBlock ==
  /\ req.pc = "pageBlock"
  /\ \E r \in rpcCall(req.hash) :
       req' = IF r = Null THEN Got(req.hash, r, "error")
              ELSE [Got(req.hash, r, "done") EXCEPT !.list = <<Entry(r)>>]
  /\ UNCHANGED <<configured, prerendered, tips>>

Render == GetStats \/ GetBlockCount \/ LoopHash \/ LoopBlock \/ GetBlockHash \/ GetBlock

Next == NodeAdvances \/ OpenHome \/ OpenBlockPage \/ Render

Spec == Init /\ [][Next]_vars

\* Every fetch ends: with an answer, an error, or undici's own timeouts.
FairSpec == Spec /\ WF_vars(Render)

-----------------------------------------------------------------------------
Rows == [height : 0..MockHeight, hash : Paths \cup {MockHash}]
Requests ==
  [kind : {"none", "home", "block"},
   pc : {"stats", "count", "hash", "block", "pageHash", "pageBlock", "done", "error"},
   want : 0..MaxHeight + 1, since : 1..MaxTips, failed : BOOLEAN,
   stats : 0..MaxHeight \cup {MockHeight, Null}, height : 0..MaxHeight, i : 0..COUNT,
   hash : Paths \cup {Null}, list : Seq(Rows)]

TypeOK ==
  /\ configured \in BOOLEAN /\ prerendered \in BOOLEAN
  /\ tips \in Seq(Paths) /\ Len(tips) \in 1..MaxTips
  /\ req \in Requests /\ req.since <= Len(tips)
  /\ req.pc \in {"hash", "block"} => req.i < COUNT /\ req.height - req.i >= 0
  /\ Len(req.list) <= COUNT

\* The tips the node has had while this page was being put together.
Window == {tips[j] : j \in req.since..Len(tips)}

IsMock(row) == row.hash = MockHash

(***************************************************************************)
(* page.tsx and block-tape.tsx use a block's height as its React key: no   *)
(* height is listed twice, the newest comes first, whatever is reorganised *)
(* away and whichever calls fail between two rounds of the loop.           *)
(***************************************************************************)
KeysDistinct ==
  \A j, k \in DOMAIN req.list : j < k => req.list[j].height > req.list[k].height

(***************************************************************************)
(* No stale page: a block shown as real was on the node's active chain at  *)
(* some moment between the request and the answer.                         *)
(***************************************************************************)
ShownWasActive ==
  \A k \in DOMAIN req.list : ~IsMock(req.list[k]) =>
    \E t \in Window : IsPrefix(req.list[k].hash, t)

(***************************************************************************)
(* While the chain only grows and every call is answered, getLatestBlocks  *)
(* lists the COUNT blocks (or all of them) below the height it read, each  *)
(* the parent of the one above, and that height is not below the one       *)
(* getStats shows on the same page.                                        *)
(***************************************************************************)
ListIsTopOfChain ==
  (/\ req.kind = "home" /\ req.pc = "done" /\ ~req.failed /\ req.height > 0
   /\ \A j, k \in req.since..Len(tips) : j <= k => IsPrefix(tips[j], tips[k]))
  => /\ Len(req.list) = IF req.height + 1 < COUNT THEN req.height + 1 ELSE COUNT
     /\ req.list[1].height = req.height /\ req.stats <= req.height
     /\ \A k \in 1..Len(req.list) - 1 : req.list[k + 1].hash = Front(req.list[k].hash)

\* A page is rendered or fails in the end, however many of its calls fail.
RequestEnds == Rendering ~> ~Rendering
=============================================================================
