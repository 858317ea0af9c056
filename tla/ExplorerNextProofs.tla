------------------------- MODULE ExplorerNextProofs -------------------------
(***************************************************************************)
(* The pages of explorer-next for chains of any height, any number of      *)
(* reorganisations and any number of listed blocks.                        *)
(***************************************************************************)
EXTENDS ExplorerNext, SequenceTheorems, TLAPS

\* A block is a sequence of branch choices of bounded length.
LEMMA PathSeq ==
  ASSUME NEW b
  PROVE  b \in Paths <=> b \in Seq(Branches) /\ Len(b) \in 0..MaxHeight
<1>0. MaxHeight \in Nat  BY NextAssumption
<1>1. ASSUME b \in Paths PROVE b \in Seq(Branches) /\ Len(b) \in 0..MaxHeight
  <2>1. PICK n \in 0..MaxHeight : b \in [1..n -> Branches]
    BY <1>1 DEF Paths
  <2>2. n \in Nat  BY <1>0, <2>1
  <2>3. b \in Seq(Branches)  BY <2>1, <2>2, SeqDef
  <2>4. Len(b) = n
    <3>1. DOMAIN b = 1..n /\ DOMAIN b = 1..Len(b) /\ Len(b) \in Nat
      BY <2>1, <2>3, LenProperties
    <3> QED BY <2>2, <3>1
  <2> QED BY <2>1, <2>3, <2>4
<1>2. ASSUME b \in Seq(Branches), Len(b) \in 0..MaxHeight PROVE b \in Paths
  <2>1. b \in [1..Len(b) -> Branches]  BY <1>2, LenProperties
  <2> QED BY <1>2, <2>1 DEF Paths
<1> QED BY <1>1, <1>2

\* The beginning of a chain is a block of it, at the height it is long.
LEMMA PrefixOf ==
  ASSUME NEW t \in Paths, NEW h \in 0..Len(t)
  PROVE  /\ SubSeq(t, 1, h) \in Paths
         /\ Len(SubSeq(t, 1, h)) = h
         /\ \A k \in 1..h : SubSeq(t, 1, h)[k] = t[k]
         /\ IsPrefix(SubSeq(t, 1, h), t)
<1>1. t \in Seq(Branches) /\ Len(t) \in 0..MaxHeight /\ MaxHeight \in Nat
  BY PathSeq, NextAssumption
<1>2. \A i \in 1..h : t[i] \in Branches  BY <1>1, ElementOfSeq
<1>3. h \in Int /\ h - 1 + 1 = h /\ h <= MaxHeight /\ h \in 0..MaxHeight  BY <1>1
<1>4. /\ SubSeq(t, 1, h) \in Seq(Branches)
      /\ Len(SubSeq(t, 1, h)) = IF 1 <= h THEN h - 1 + 1 ELSE 0
      /\ \A i \in 1..(h - 1 + 1) : SubSeq(t, 1, h)[i] = t[1 + i - 1]
  BY <1>2, <1>3, SubSeqProperties
<1>5. Len(SubSeq(t, 1, h)) = h  BY <1>3, <1>4
<1>6. \A k \in 1..h : SubSeq(t, 1, h)[k] = t[k]
  <2>1. \A k \in 1..h : 1 + k - 1 = k  BY <1>3
  <2> QED BY <1>3, <1>4, <2>1
<1>7. SubSeq(t, 1, h) \in Paths  BY <1>3, <1>4, <1>5, PathSeq
<1>8. SubSeq(SubSeq(t, 1, h), 1, h) = SubSeq(t, 1, h)
  BY <1>4, <1>5, SubSeqFull
<1>9. IsPrefix(SubSeq(t, 1, h), t)
  BY <1>1, <1>5, <1>8 DEF IsPrefix
<1> QED BY <1>5, <1>6, <1>7, <1>9

\* Blocks below a common part are the same blocks.
LEMMA PrefixKeeps ==
  ASSUME NEW s \in Paths, NEW t \in Paths, IsPrefix(s, t), NEW h \in 0..Len(s)
  PROVE  SubSeq(s, 1, h) = SubSeq(t, 1, h)
<1>1. Len(s) \in Nat /\ Len(t) \in Nat /\ Len(s) <= Len(t) /\ s \in Seq(Branches)
  BY PathSeq, NextAssumption DEF IsPrefix
<1>2. h \in 0..Len(t) /\ Len(s) \in 0..Len(t)  BY <1>1
<1>3. s = SubSeq(t, 1, Len(s))  BY <1>1, SubSeqFull DEF IsPrefix
<1>4. \A k \in 1..Len(s) : s[k] = t[k]  BY <1>2, <1>3, PrefixOf
<1>5. /\ SubSeq(s, 1, h) \in Paths /\ Len(SubSeq(s, 1, h)) = h
      /\ \A k \in 1..h : SubSeq(s, 1, h)[k] = s[k]
  BY PrefixOf
<1>6. /\ SubSeq(t, 1, h) \in Paths /\ Len(SubSeq(t, 1, h)) = h
      /\ \A k \in 1..h : SubSeq(t, 1, h)[k] = t[k]
  BY <1>2, PrefixOf
<1>7. \A k \in 1..h : SubSeq(s, 1, h)[k] = SubSeq(t, 1, h)[k]
  <2>1. 1..h \subseteq 1..Len(s)  BY <1>1
  <2> QED BY <1>4, <1>5, <1>6, <2>1
<1>8. SubSeq(s, 1, h) \in Seq(Branches) /\ SubSeq(t, 1, h) \in Seq(Branches)
  BY <1>5, <1>6, PathSeq
<1> QED BY <1>5, <1>6, <1>7, <1>8, SeqEqual

\* The parent of a block of the chain is the block below it.
LEMMA ParentOf ==
  ASSUME NEW t \in Paths, NEW h \in 1..Len(t)
  PROVE  Front(SubSeq(t, 1, h)) = SubSeq(t, 1, h - 1)
<1>1. Len(t) \in Nat  BY PathSeq, NextAssumption
<1>2. h \in 0..Len(t) /\ h - 1 \in 0..h  BY <1>1
<1>3. SubSeq(t, 1, h) \in Paths /\ Len(SubSeq(t, 1, h)) = h /\ IsPrefix(SubSeq(t, 1, h), t)
  BY <1>2, PrefixOf
<1>4. SubSeq(SubSeq(t, 1, h), 1, h - 1) = SubSeq(t, 1, h - 1)
  BY <1>2, <1>3, PrefixKeeps
<1> QED BY <1>3, <1>4 DEF Front

-----------------------------------------------------------------------------
\* The node's current chain, as the steps below use it.
LEMMA CurrentChain ==
  ASSUME TypeOK
  PROVE  /\ Len(tips) \in Nat \ {0} /\ req.since \in 1..Len(tips)
         /\ \A j \in 1..Len(tips) : tips[j] \in Paths
         /\ Chain \in Paths /\ Chain = tips[Len(tips)] /\ Chain \in Window
         /\ Len(Chain) \in 0..MaxHeight
         /\ \A t \in Window : t \in Paths
<1>1. Len(tips) \in Nat \ {0} /\ tips \in Seq(Paths) /\ MaxTips \in Nat
  BY NextAssumption DEF TypeOK
<1>2. req.since \in 1..Len(tips)  BY <1>1 DEF TypeOK, Requests
<1>3. \A j \in 1..Len(tips) : tips[j] \in Paths  BY <1>1, ElementOfSeq
<1>4. Len(tips) \in 1..Len(tips) /\ Len(tips) \in req.since..Len(tips)  BY <1>1, <1>2
<1>5. Chain \in Paths /\ Chain = tips[Len(tips)] /\ Chain \in Window
  BY <1>3, <1>4 DEF Chain, Last, Window
<1>6. req.since..Len(tips) \subseteq 1..Len(tips)  BY <1>1, <1>2
<1> QED BY <1>1, <1>2, <1>3, <1>5, <1>6, PathSeq DEF Window

\* What the node answers to getblockhash.
LEMMA AnswerIs ==
  ASSUME TypeOK, NEW h \in Int
  PROVE  /\ getblockhash(h) \in Paths \cup {Null}
         /\ getblockhash(h) # Null => /\ h \in 0..Len(Chain) /\ Len(getblockhash(h)) = h
                                      /\ getblockhash(h) = SubSeq(Chain, 1, h)
                                      /\ IsPrefix(getblockhash(h), Chain)
         /\ getblockhash(h) = Null => h \notin 0..Len(Chain)
<1>1. Chain \in Paths  BY CurrentChain
<1>2. CASE h \in 0..Len(Chain)
  <2>1. getblockhash(h) = SubSeq(Chain, 1, h)  BY <1>2 DEF getblockhash
  <2>2. /\ SubSeq(Chain, 1, h) \in Paths /\ Len(SubSeq(Chain, 1, h)) = h
        /\ IsPrefix(SubSeq(Chain, 1, h), Chain)
    BY <1>1, <1>2, PrefixOf
  <2>3. SubSeq(Chain, 1, h) # Null  BY <2>2, NextAssumption
  <2> QED BY <1>2, <2>1, <2>2, <2>3
<1>3. CASE h \notin 0..Len(Chain)
  BY <1>3 DEF getblockhash
<1> QED BY <1>2, <1>3

\* A request after a step of its rendering: what one await changes.
Moves(pc, stats, height, i, hash, list) ==
  /\ req'.kind = req.kind /\ req'.want = req.want /\ req'.since = req.since
  /\ req'.pc = pc /\ req'.stats = stats /\ req'.height = height /\ req'.i = i
  /\ req'.hash = hash /\ req'.list = list
  /\ UNCHANGED <<configured, prerendered, tips>>

\* An answer that is not the node's is recorded as a failure.
Counted(answer, r) == ~req'.failed => ~req.failed /\ r = answer

\* The steps of the home page, as moves.
LEMMA HomeMoves ==
  ASSUME TypeOK
  PROVE  /\ GetStats => req.pc = "stats" /\ \E r \in rpcCall(Len(Chain)) :
              /\ Counted(Len(Chain), r)
              /\ Moves("count", IF r = Null THEN MockHeight ELSE r, req.height, req.i, req.hash,
                       req.list)
         /\ GetBlockCount => req.pc = "count" /\ \E r \in rpcCall(Len(Chain)) :
              /\ Counted(Len(Chain), r)
              /\ IF r \in {Null, 0}
                   THEN Moves("done", req.stats, req.height, req.i, req.hash, MOCK_BLOCKS)
                   ELSE Moves("hash", req.stats, r, req.i, req.hash, req.list)
         /\ LoopHash => req.pc = "hash" /\ \E r \in rpcCall(getblockhash(req.height - req.i)) :
              /\ Counted(getblockhash(req.height - req.i), r)
              /\ Moves("block", req.stats, req.height, req.i, r, req.list)
         /\ LoopBlock => req.pc = "block" /\ \E r \in rpcCall(req.hash) :
              /\ Counted(req.hash, r)
              /\ Moves(LoopPc(req.i + 1), req.stats, req.height, req.i + 1, req.hash,
                       IF r = Null THEN req.list ELSE Append(req.list, Entry(r)))
<1>0. req \in Requests  BY DEF TypeOK
<1> USE DEF Got, Counted, Moves
<1>1. ASSUME GetStats
      PROVE  req.pc = "stats" /\ \E r \in rpcCall(Len(Chain)) :
              /\ Counted(Len(Chain), r)
              /\ Moves("count", IF r = Null THEN MockHeight ELSE r, req.height, req.i, req.hash,
                       req.list)
  <2>1. PICK r \in rpcCall(Len(Chain)) :
          req' = [Got(Len(Chain), r, "count") EXCEPT !.stats = IF r = Null THEN MockHeight ELSE r]
    BY <1>1 DEF GetStats
  <2> QED BY <1>0, <1>1, <2>1 DEF GetStats, Requests
<1>2. ASSUME GetBlockCount
      PROVE  req.pc = "count" /\ \E r \in rpcCall(Len(Chain)) :
              /\ Counted(Len(Chain), r)
              /\ IF r \in {Null, 0}
                   THEN Moves("done", req.stats, req.height, req.i, req.hash, MOCK_BLOCKS)
                   ELSE Moves("hash", req.stats, r, req.i, req.hash, req.list)
  <2>1. PICK r \in rpcCall(Len(Chain)) :
          req' = IF r \in {Null, 0}
              THEN [Got(Len(Chain), r, "done") EXCEPT !.list = MOCK_BLOCKS]
              ELSE [Got(Len(Chain), r, "hash") EXCEPT !.height = r]
    BY <1>2 DEF GetBlockCount
  <2>2. CASE r \in {Null, 0}
    BY <1>0, <1>2, <2>1, <2>2 DEF GetBlockCount, Requests
  <2>3. CASE r \notin {Null, 0}
    BY <1>0, <1>2, <2>1, <2>3 DEF GetBlockCount, Requests
  <2> QED BY <2>2, <2>3
<1>3. ASSUME LoopHash
      PROVE  req.pc = "hash" /\ \E r \in rpcCall(getblockhash(req.height - req.i)) :
              /\ Counted(getblockhash(req.height - req.i), r)
              /\ Moves("block", req.stats, req.height, req.i, r, req.list)
  <2>1. PICK r \in rpcCall(getblockhash(req.height - req.i)) :
          req' = [Got(getblockhash(req.height - req.i), r, "block") EXCEPT !.hash = r]
    BY <1>3 DEF LoopHash
  <2> QED BY <1>0, <1>3, <2>1 DEF LoopHash, Requests
<1>4. ASSUME LoopBlock
      PROVE  req.pc = "block" /\ \E r \in rpcCall(req.hash) :
              /\ Counted(req.hash, r)
              /\ Moves(LoopPc(req.i + 1), req.stats, req.height, req.i + 1, req.hash,
                       IF r = Null THEN req.list ELSE Append(req.list, Entry(r)))
  <2>1. PICK r \in rpcCall(req.hash) :
          req' = [Got(req.hash, r, LoopPc(req.i + 1)) EXCEPT
                 !.i = @ + 1, !.list = IF r = Null THEN @ ELSE Append(@, Entry(r))]
    BY <1>4 DEF LoopBlock
  <2> QED BY <1>0, <1>4, <2>1 DEF LoopBlock, Requests
<1> QED BY <1>1, <1>2, <1>3, <1>4

\* The steps of the block page, as moves.
LEMMA BlockMoves ==
  ASSUME TypeOK
  PROVE  /\ GetBlockHash => req.pc = "pageHash" /\ \E r \in rpcCall(getblockhash(req.want)) :
              /\ Counted(getblockhash(req.want), r)
              /\ IF r = Null
                   THEN Moves("done", req.stats, req.height, req.i, req.hash, <<MOCK_BLOCKS[1]>>)
                   ELSE Moves("pageBlock", req.stats, req.height, req.i, r, req.list)
         /\ GetBlock => req.pc = "pageBlock" /\ \E r \in rpcCall(req.hash) :
              /\ Counted(req.hash, r)
              /\ IF r = Null
                   THEN Moves("error", req.stats, req.height, req.i, req.hash, req.list)
                   ELSE Moves("done", req.stats, req.height, req.i, req.hash, <<Entry(r)>>)
<1>0. req \in Requests  BY DEF TypeOK
<1> USE DEF Got, Counted, Moves
<1>1. ASSUME GetBlockHash
      PROVE  req.pc = "pageHash" /\ \E r \in rpcCall(getblockhash(req.want)) :
              /\ Counted(getblockhash(req.want), r)
              /\ IF r = Null
                   THEN Moves("done", req.stats, req.height, req.i, req.hash, <<MOCK_BLOCKS[1]>>)
                   ELSE Moves("pageBlock", req.stats, req.height, req.i, r, req.list)
  <2>1. PICK r \in rpcCall(getblockhash(req.want)) :
          req' = IF r = Null
              THEN [Got(getblockhash(req.want), r, "done") EXCEPT !.list = <<MOCK_BLOCKS[1]>>]
              ELSE [Got(getblockhash(req.want), r, "pageBlock") EXCEPT !.hash = r]
    BY <1>1 DEF GetBlockHash
  <2>2. CASE r = Null
    BY <1>0, <1>1, <2>1, <2>2 DEF GetBlockHash, Requests
  <2>3. CASE r # Null
    BY <1>0, <1>1, <2>1, <2>3 DEF GetBlockHash, Requests
  <2> QED BY <2>2, <2>3
<1>2. ASSUME GetBlock
      PROVE  req.pc = "pageBlock" /\ \E r \in rpcCall(req.hash) :
              /\ Counted(req.hash, r)
              /\ IF r = Null
                   THEN Moves("error", req.stats, req.height, req.i, req.hash, req.list)
                   ELSE Moves("done", req.stats, req.height, req.i, req.hash, <<Entry(r)>>)
  <2>1. PICK r \in rpcCall(req.hash) :
          req' = IF r = Null THEN Got(req.hash, r, "error")
              ELSE [Got(req.hash, r, "done") EXCEPT !.list = <<Entry(r)>>]
    BY <1>2 DEF GetBlock
  <2>2. CASE r = Null
    BY <1>0, <1>2, <2>1, <2>2 DEF GetBlock, Requests
  <2>3. CASE r # Null
    BY <1>0, <1>2, <2>1, <2>3 DEF GetBlock, Requests
  <2> QED BY <2>2, <2>3
<1> QED BY <1>1, <1>2

\* What the node's step does to the tips and the page.
LEMMA NodeMoves ==
  ASSUME TypeOK, NodeAdvances
  PROVE  /\ UNCHANGED <<configured, prerendered>> /\ req' = req
         /\ tips' \in Seq(Paths) /\ Len(tips') = Len(tips) + 1 /\ Len(tips') <= MaxTips
         /\ \A j \in 1..Len(tips) : tips'[j] = tips[j]
         /\ Window \subseteq Window'
<1>1. PICK t \in Paths : tips' = Append(tips, t)  BY DEF NodeAdvances
<1>2. tips \in Seq(Paths) /\ Len(tips) \in 1..MaxTips /\ MaxTips \in Nat
  BY NextAssumption DEF TypeOK
<1>3. /\ tips' \in Seq(Paths) /\ Len(tips') = Len(tips) + 1
      /\ \A j \in 1..Len(tips) : tips'[j] = tips[j]
  BY <1>1, <1>2, AppendProperties
<1>4. req' = req /\ UNCHANGED <<configured, prerendered>> /\ Len(tips) < MaxTips  BY DEF NodeAdvances
<1>5. Len(tips') <= MaxTips  BY <1>2, <1>3, <1>4
<1>6. req.since \in 1..Len(tips)  BY CurrentChain
<1>7. ASSUME NEW j \in req.since..Len(tips)
      PROVE  j \in req'.since..Len(tips') /\ tips'[j] = tips[j]
  <2>1. j \in 1..Len(tips) /\ j \in req.since..(Len(tips) + 1)  BY <1>2, <1>6
  <2> QED BY <1>3, <1>4, <2>1
<1>8. Window \subseteq Window'  BY <1>7 DEF Window
<1> QED BY <1>3, <1>4, <1>5, <1>8

\* The mock blocks.
LEMMA MockRows ==
  /\ MOCK_BLOCKS \in Seq(Rows) /\ Len(MOCK_BLOCKS) = COUNT
  /\ \A k \in 1..COUNT : /\ MOCK_BLOCKS[k] \in Rows /\ IsMock(MOCK_BLOCKS[k])
                         /\ MOCK_BLOCKS[k].height = MockHeight - k + 1
<1>0. COUNT \in Nat \ {0} /\ MockHeight \in Nat /\ MockHeight > COUNT
  BY NextAssumption
<1>1. \A k \in 1..COUNT : MockHeight - k + 1 \in 0..MockHeight  BY <1>0
<1>2. \A k \in 1..COUNT : MOCK_BLOCKS[k] = [height |-> MockHeight - k + 1, hash |-> MockHash]
  BY DEF MOCK_BLOCKS
<1>3. MOCK_BLOCKS \in [1..COUNT -> Rows]  BY <1>1, <1>2 DEF MOCK_BLOCKS, Rows
<1>4. MOCK_BLOCKS \in Seq(Rows)  BY <1>0, <1>3, SeqDef
<1>5. Len(MOCK_BLOCKS) = COUNT
  <2>1. DOMAIN MOCK_BLOCKS = 1..Len(MOCK_BLOCKS) /\ Len(MOCK_BLOCKS) \in Nat
    BY <1>4, LenProperties
  <2> QED BY <1>0, <1>3, <2>1
<1> QED BY <1>1, <1>2, <1>3, <1>4, <1>5 DEF IsMock

\* What a request of either page sets.
LEMMA OpenMoves ==
  ASSUME TypeOK, OpenHome \/ OpenBlockPage
  PROVE  /\ req' \in Requests /\ req'.since = Len(tips)
         /\ req'.height = 0 /\ req'.i = 0 /\ req'.hash = Null
         /\ \/ req'.kind = "home" /\ req'.pc = "stats" /\ req'.list = <<>>
            \/ req'.kind = "home" /\ req'.pc = "done" /\ req'.list = MOCK_BLOCKS /\ req'.failed
            \/ req'.kind = "block" /\ req'.pc = "pageHash" /\ req'.list = <<>>
         /\ UNCHANGED <<configured, prerendered, tips>>
<1>0. /\ MaxHeight \in Nat /\ COUNT \in Nat /\ Len(tips) \in 1..MaxTips /\ 0 \in 0..MaxHeight + 1
      /\ 0 \in 0..COUNT /\ 0 \in 0..MaxHeight /\ <<>> \in Seq(Rows)
  BY NextAssumption, EmptySeq DEF TypeOK
<1>1. CASE OpenHome
  <2> DEFINE mock == [Page("home", "done", 0) EXCEPT !.failed = TRUE, !.stats = MockHeight,
                                                    !.list = MOCK_BLOCKS]
  <2>1. /\ req' = IF prerendered THEN mock ELSE Page("home", "stats", 0)
        /\ UNCHANGED <<configured, prerendered, tips>>
    BY <1>1 DEF OpenHome
  <2>2. Page("home", "stats", 0) \in Requests  BY <1>0 DEF Page, Requests
  <2>3. mock \in Requests
    <3>1. MOCK_BLOCKS \in Seq(Rows)  BY MockRows
    <3> QED BY <1>0, <3>1 DEF Page, Requests
  <2>4. CASE ~prerendered
    <3>1. /\ req'.kind = "home" /\ req'.pc = "stats" /\ req'.since = Len(tips)
          /\ req'.height = 0 /\ req'.i = 0 /\ req'.list = <<>> /\ req'.hash = Null
      BY <2>1, <2>4 DEF Page
    <3> QED BY <2>1, <2>2, <2>4, <3>1
  <2>5. CASE prerendered
    <3>1. /\ req'.kind = "home" /\ req'.pc = "done" /\ req'.since = Len(tips) /\ req'.failed
          /\ req'.height = 0 /\ req'.i = 0 /\ req'.list = MOCK_BLOCKS /\ req'.hash = Null
      BY <2>1, <2>5 DEF Page
    <3> HIDE DEF mock
    <3> QED BY <2>1, <2>3, <2>5, <3>1
  <2> QED BY <2>4, <2>5
<1>2. CASE OpenBlockPage
  <2>1. PICK h \in 0..MaxHeight + 1 : req' = Page("block", "pageHash", h)
    BY <1>2 DEF OpenBlockPage
  <2> QED BY <1>0, <1>2, <2>1 DEF OpenBlockPage, Page, Requests
<1> QED BY <1>1, <1>2

\* The row of a block.
LEMMA EntryRow ==
  ASSUME NEW b \in Paths
  PROVE  /\ Entry(b) \in Rows /\ ~IsMock(Entry(b))
         /\ Entry(b).height = Len(b) /\ Entry(b).hash = b /\ Len(b) \in 0..MaxHeight
<1>1. Len(b) \in 0..MaxHeight /\ MaxHeight \in Nat /\ MockHeight \in Nat /\ MockHeight > MaxHeight
  BY PathSeq, NextAssumption
<1>2. Len(b) \in 0..MockHeight  BY <1>1
<1> QED BY <1>1, <1>2, NextAssumption DEF Entry, Rows, IsMock

\* A list of one row.
LEMMA OneRow ==
  ASSUME NEW S, NEW x \in S
  PROVE  <<x>> \in Seq(S) /\ Len(<<x>>) = 1 /\ <<x>>[1] = x /\ DOMAIN <<x>> = {1}
OBVIOUS

\* The fields an await may set keep a request in its type.
LEMMA RequestTyped ==
  ASSUME NEW p \in Requests
  PROVE  /\ \A a, r, x : x \in {"count", "hash", "block", "pageBlock", "done", "error"} =>
              [p EXCEPT !.pc = x, !.failed = @ \/ r # a] \in Requests
         /\ \A s \in 0..MaxHeight \cup {MockHeight, Null} : [p EXCEPT !.stats = s] \in Requests
         /\ \A h \in 0..MaxHeight : [p EXCEPT !.height = h] \in Requests
         /\ \A h \in Paths \cup {Null} : [p EXCEPT !.hash = h] \in Requests
         /\ \A l \in Seq(Rows) : [p EXCEPT !.list = l] \in Requests
         /\ \A i \in 0..COUNT, l \in Seq(Rows) : [p EXCEPT !.i = i, !.list = l] \in Requests
<1>1. \A a, r, x : x \in {"count", "hash", "block", "pageBlock", "done", "error"} =>
        [p EXCEPT !.pc = x, !.failed = @ \/ r # a] \in Requests
  <2> TAKE a, r, x
  <2> HAVE x \in {"count", "hash", "block", "pageBlock", "done", "error"}
  <2>1. (p.failed \/ r # a) \in BOOLEAN  BY DEF Requests
  <2> DEFINE f == p.failed \/ r # a
  <2>2. [p EXCEPT !.pc = x, !.failed = f] \in Requests
    <3> HIDE DEF f
    <3>1. f \in BOOLEAN  BY <2>1 DEF f
    <3> QED BY <3>1 DEF Requests
  <2> QED BY <2>2
<1>2. \A s \in 0..MaxHeight \cup {MockHeight, Null} : [p EXCEPT !.stats = s] \in Requests
  BY DEF Requests
<1>3. \A h \in 0..MaxHeight : [p EXCEPT !.height = h] \in Requests  BY DEF Requests
<1>4. \A h \in Paths \cup {Null} : [p EXCEPT !.hash = h] \in Requests  BY DEF Requests
<1>5. \A l \in Seq(Rows) : [p EXCEPT !.list = l] \in Requests  BY DEF Requests
<1>6. \A i \in 0..COUNT, l \in Seq(Rows) : [p EXCEPT !.i = i, !.list = l] \in Requests
  BY DEF Requests
<1> QED BY <1>1, <1>2, <1>3, <1>4, <1>5, <1>6

-----------------------------------------------------------------------------
(***************************************************************************)
(* What the fields of a request hold at each await: which page is being    *)
(* made, that its list starts empty, and that the hash in hand is of the   *)
(* height the loop has come to.                                            *)
(***************************************************************************)
Shape ==
  /\ req.pc \in {"stats", "count", "hash", "block"} => req.kind = "home"
  /\ req.pc \in {"pageHash", "pageBlock", "error"} => req.kind = "block"
  /\ req.pc \in {"stats", "count", "pageHash", "pageBlock", "error"} => req.list = <<>>
  /\ req.pc \in {"stats", "count"} => req.i = 0 /\ req.height = 0
  /\ req.pc \in {"hash", "block"} => Len(req.list) <= req.i
  /\ req.pc = "block" /\ req.hash # Null => Len(req.hash) = req.height - req.i
  /\ req.pc = "pageBlock" => req.hash # Null /\ Len(req.hash) = req.want

\* A call returns the node's answer or null.
LEMMA Returned ==
  ASSUME NEW a, NEW r \in rpcCall(a)
  PROVE  r = a \/ r = Null
BY DEF rpcCall

\* The numbers of a request.
LEMMA Numbers ==
  ASSUME TypeOK
  PROVE  /\ req \in Requests /\ req.list \in Seq(Rows) /\ Len(req.list) \in Nat
         /\ req.i \in 0..COUNT /\ req.height \in 0..MaxHeight /\ req.want \in 0..MaxHeight + 1
         /\ req.height - req.i \in Int /\ req.want \in Int
         /\ COUNT \in Nat \ {0} /\ MaxHeight \in Nat /\ MockHeight \in Nat
         /\ req.hash \in Paths \cup {Null}
<1>1. req \in Requests  BY DEF TypeOK
<1>2. /\ req.list \in Seq(Rows) /\ req.i \in 0..COUNT /\ req.height \in 0..MaxHeight
      /\ req.want \in 0..MaxHeight + 1 /\ req.hash \in Paths \cup {Null}
  BY <1>1 DEF Requests
<1>3. COUNT \in Nat \ {0} /\ MaxHeight \in Nat /\ MockHeight \in Nat  BY NextAssumption
<1> QED BY <1>1, <1>2, <1>3, LenProperties

\* Every await leaves a request of the type.
LEMMA RequestStep ==
  ASSUME TypeOK, Shape, Render
  PROVE  req' \in Requests
<1>0. req \in Requests /\ COUNT \in Nat \ {0}  BY Numbers
<1>1. \A a, r, x : x \in {"count", "hash", "block", "pageBlock", "done", "error"} =>
        Got(a, r, x) \in Requests
  BY <1>0, RequestTyped DEF Got
<1>2. Len(Chain) \in 0..MaxHeight  BY CurrentChain
<1>3. CASE GetStats
  <2>1. PICK r \in rpcCall(Len(Chain)) :
          req' = [Got(Len(Chain), r, "count") EXCEPT !.stats = IF r = Null THEN MockHeight ELSE r]
    BY <1>3 DEF GetStats
  <2>2. (IF r = Null THEN MockHeight ELSE r) \in 0..MaxHeight \cup {MockHeight, Null}
    BY <1>2, Returned
  <2>3. Got(Len(Chain), r, "count") \in Requests  BY <1>1
  <2> QED BY <2>1, <2>2, <2>3, RequestTyped
<1>4. CASE GetBlockCount
  <2>1. PICK r \in rpcCall(Len(Chain)) :
          req' = IF r \in {Null, 0}
              THEN [Got(Len(Chain), r, "done") EXCEPT !.list = MOCK_BLOCKS]
              ELSE [Got(Len(Chain), r, "hash") EXCEPT !.height = r]
    BY <1>4 DEF GetBlockCount
  <2>2. CASE r \in {Null, 0}
    <3>1. Got(Len(Chain), r, "done") \in Requests  BY <1>1
    <3> QED BY <2>1, <2>2, <3>1, RequestTyped, MockRows
  <2>3. CASE r \notin {Null, 0}
    <3>1. Got(Len(Chain), r, "hash") \in Requests  BY <1>1
    <3>2. r \in 0..MaxHeight  BY <1>2, <2>3, Returned
    <3> QED BY <2>1, <2>3, <3>1, <3>2, RequestTyped
  <2> QED BY <2>2, <2>3
<1>5. CASE LoopHash
  <2>1. PICK r \in rpcCall(getblockhash(req.height - req.i)) :
          req' = [Got(getblockhash(req.height - req.i), r, "block") EXCEPT !.hash = r]
    BY <1>5 DEF LoopHash
  <2>2. r \in Paths \cup {Null}  BY Returned, AnswerIs, Numbers
  <2>3. Got(getblockhash(req.height - req.i), r, "block") \in Requests  BY <1>1
  <2> QED BY <2>1, <2>2, <2>3, RequestTyped
<1>6. CASE LoopBlock
  <2>1. PICK r \in rpcCall(req.hash) :
          req' = [Got(req.hash, r, LoopPc(req.i + 1)) EXCEPT
                 !.i = @ + 1, !.list = IF r = Null THEN @ ELSE Append(@, Entry(r))]
    BY <1>6 DEF LoopBlock
  <2>2. LoopPc(req.i + 1) \in {"hash", "done"}  BY DEF LoopPc
  <2>3. Got(req.hash, r, LoopPc(req.i + 1)) \in Requests  BY <1>1, <2>2
  <2>4. /\ Got(req.hash, r, LoopPc(req.i + 1)).i = req.i
        /\ Got(req.hash, r, LoopPc(req.i + 1)).list = req.list
    BY <1>0 DEF Got, Requests
  <2>5. req' = [Got(req.hash, r, LoopPc(req.i + 1)) EXCEPT
                  !.i = req.i + 1, !.list = IF r = Null THEN req.list
                                            ELSE Append(req.list, Entry(r))]
    BY <2>1, <2>4
  <2>6. req.i + 1 \in 0..COUNT
    <3>1. req.i < COUNT /\ req.i \in 0..COUNT  BY <1>6, Numbers DEF TypeOK, LoopBlock
    <3> QED BY <1>0, <3>1
  <2>7. (IF r = Null THEN req.list ELSE Append(req.list, Entry(r))) \in Seq(Rows)
    <3>1. CASE r = Null  BY <3>1, Numbers
    <3>2. CASE r # Null
      <4>1. r \in Paths  BY <3>2, Returned, Numbers
      <4> QED BY <3>2, <4>1, EntryRow, Numbers, AppendProperties
    <3> QED BY <3>1, <3>2
  <2> QED BY <2>3, <2>5, <2>6, <2>7, RequestTyped
<1>7. CASE GetBlockHash
  <2>1. PICK r \in rpcCall(getblockhash(req.want)) :
          req' = IF r = Null
              THEN [Got(getblockhash(req.want), r, "done") EXCEPT !.list = <<MOCK_BLOCKS[1]>>]
              ELSE [Got(getblockhash(req.want), r, "pageBlock") EXCEPT !.hash = r]
    BY <1>7 DEF GetBlockHash
  <2>2. r \in Paths \cup {Null}  BY Returned, AnswerIs, Numbers
  <2>3. /\ Got(getblockhash(req.want), r, "done") \in Requests
        /\ Got(getblockhash(req.want), r, "pageBlock") \in Requests
    BY <1>1
  <2>4. MOCK_BLOCKS[1] \in Rows  BY <1>0, MockRows
  <2>5. <<MOCK_BLOCKS[1]>> \in Seq(Rows)  BY <2>4, OneRow
  <2> QED BY <2>1, <2>2, <2>3, <2>5, RequestTyped
<1>8. CASE GetBlock
  <2>1. PICK r \in rpcCall(req.hash) :
          req' = IF r = Null THEN Got(req.hash, r, "error")
              ELSE [Got(req.hash, r, "done") EXCEPT !.list = <<Entry(r)>>]
    BY <1>8 DEF GetBlock
  <2>2. Got(req.hash, r, "error") \in Requests /\ Got(req.hash, r, "done") \in Requests
    BY <1>1
  <2>3. CASE r = Null  BY <2>1, <2>2, <2>3
  <2>4. CASE r # Null
    <3>1. r \in Paths  BY <2>4, Returned, Numbers
    <3>2. <<Entry(r)>> \in Seq(Rows)  BY <3>1, EntryRow, OneRow
    <3> QED BY <2>1, <2>2, <2>4, <3>2, RequestTyped
  <2> QED BY <2>3, <2>4
<1> QED BY <1>3, <1>4, <1>5, <1>6, <1>7, <1>8 DEF Render

\* Every step keeps the types and the shape.
LEMMA ShapeStep ==
  ASSUME TypeOK, Shape, [Next]_vars
  PROVE  TypeOK' /\ Shape'
<1>0. /\ req.i \in 0..COUNT /\ req.height \in 0..MaxHeight /\ Len(req.list) \in Nat
      /\ COUNT \in Nat \ {0} /\ MaxHeight \in Nat /\ Len(tips) \in Nat \ {0}
      /\ Len(req.list) <= COUNT /\ Len(<<>>) = 0
  BY Numbers, CurrentChain DEF TypeOK
<1>1. CASE NodeAdvances
  <2>1. TypeOK'
    <3>1. /\ UNCHANGED <<configured, prerendered>> /\ req' = req /\ tips' \in Seq(Paths)
          /\ Len(tips') = Len(tips) + 1 /\ Len(tips') <= MaxTips
      BY <1>1, NodeMoves
    <3>2. Len(tips') \in 1..MaxTips /\ req'.since <= Len(tips')
      <4>1. req.since \in 1..Len(tips) /\ MaxTips \in Nat  BY CurrentChain, NextAssumption
      <4> QED BY <1>0, <3>1, <4>1
    <3> QED BY <3>1, <3>2 DEF TypeOK
  <2>2. Shape'  BY <1>1, NodeMoves DEF Shape
  <2> QED BY <2>1, <2>2
<1>2. CASE OpenHome \/ OpenBlockPage
  <2>1. /\ req' \in Requests /\ req'.since = Len(tips) /\ req'.hash = Null
        /\ req'.pc \notin {"hash", "block"} /\ tips' = tips /\ UNCHANGED <<configured, prerendered>>
        /\ req'.i = 0 /\ req'.height = 0 /\ req'.list \in {<<>>, MOCK_BLOCKS}
    BY <1>2, OpenMoves
  <2>2. Len(req'.list) <= COUNT /\ req'.since <= Len(tips')  BY <1>0, <2>1, MockRows
  <2>3. TypeOK'  BY <2>1, <2>2 DEF TypeOK
  <2>4. \/ req'.kind = "home" /\ req'.pc = "stats" /\ req'.list = <<>>
        \/ req'.kind = "home" /\ req'.pc = "done"
        \/ req'.kind = "block" /\ req'.pc = "pageHash" /\ req'.list = <<>>
    BY <1>2, OpenMoves
  <2>5. Shape'  BY <2>1, <2>4 DEF Shape
  <2> QED BY <2>3, <2>5
<1>3. CASE Render
  <2>0. /\ req' \in Requests /\ UNCHANGED <<configured, prerendered>> /\ tips' = tips
        /\ req'.since = req.since
    <3>1. req' \in Requests  BY <1>3, RequestStep
    <3>2. UNCHANGED <<configured, prerendered>> /\ tips' = tips /\ req'.since = req.since
      BY <1>3, HomeMoves, BlockMoves DEF Render, Moves
    <3> QED BY <3>1, <3>2
  <2> SUFFICES /\ req'.pc \in {"hash", "block"} => req'.i < COUNT /\ req'.height - req'.i >= 0
               /\ Len(req'.list) <= COUNT /\ Shape'
    BY <2>0 DEF TypeOK
  <2>1. CASE GetStats
    <3>1. /\ req.pc = "stats" /\ req'.pc = "count" /\ req'.kind = req.kind
          /\ req'.height = req.height /\ req'.i = req.i /\ req'.list = req.list
      BY <2>1, HomeMoves DEF Moves
    <3> QED BY <1>0, <3>1 DEF Shape
  <2>2. CASE GetBlockCount
    <3>0. req.pc = "count" /\ req.i = 0 /\ req.list = <<>> /\ req.kind = "home"
      BY <2>2, HomeMoves DEF Shape
    <3>1. PICK r \in rpcCall(Len(Chain)) :
            IF r \in {Null, 0}
            THEN Moves("done", req.stats, req.height, req.i, req.hash, MOCK_BLOCKS)
            ELSE Moves("hash", req.stats, r, req.i, req.hash, req.list)
      BY <2>2, HomeMoves
    <3>2. CASE r \in {Null, 0}
      <4>1. req'.pc = "done" /\ req'.list = MOCK_BLOCKS  BY <3>1, <3>2 DEF Moves
      <4>2. Len(req'.list) <= COUNT  BY <1>0, <4>1, MockRows
      <4> QED BY <4>1, <4>2 DEF Shape
    <3>3. CASE r \notin {Null, 0}
      <4>1. /\ req'.pc = "hash" /\ req'.kind = "home" /\ req'.i = 0 /\ req'.height = r
            /\ req'.list = <<>>
        BY <3>0, <3>1, <3>3 DEF Moves
      <4>2. r \in 0..MaxHeight  BY <3>3, Returned, CurrentChain
      <4> QED BY <1>0, <4>1, <4>2 DEF Shape
    <3> QED BY <3>2, <3>3
  <2>3. CASE LoopHash
    <3>1. PICK r \in rpcCall(getblockhash(req.height - req.i)) :
            Moves("block", req.stats, req.height, req.i, r, req.list)
      BY <2>3, HomeMoves
    <3>2. /\ req.pc = "hash" /\ req'.pc = "block" /\ req'.kind = req.kind /\ req'.hash = r
          /\ req'.height = req.height /\ req'.i = req.i /\ req'.list = req.list
      BY <2>3, <3>1, HomeMoves DEF Moves
    <3>3. r # Null => Len(r) = req.height - req.i  BY Returned, AnswerIs, Numbers
    <3> QED BY <1>0, <3>2, <3>3 DEF Shape, TypeOK
  <2>4. CASE LoopBlock
    <3>1. PICK r \in rpcCall(req.hash) :
            Moves(LoopPc(req.i + 1), req.stats, req.height, req.i + 1, req.hash,
                  IF r = Null THEN req.list ELSE Append(req.list, Entry(r)))
      BY <2>4, HomeMoves
    <3>2. /\ req.pc = "block" /\ req'.pc = LoopPc(req.i + 1) /\ req'.kind = req.kind
          /\ req'.height = req.height /\ req'.i = req.i + 1
          /\ req'.list = IF r = Null THEN req.list ELSE Append(req.list, Entry(r))
      BY <2>4, <3>1, HomeMoves DEF Moves
    <3>3. Len(req'.list) <= Len(req.list) + 1
      <4>1. CASE r = Null  BY <1>0, <3>2, <4>1
      <4>2. CASE r # Null
        <5>1. r \in Paths  BY <4>2, Returned, Numbers
        <5>2. Len(req'.list) = Len(req.list) + 1
          BY <3>2, <4>2, <5>1, EntryRow, Numbers, AppendProperties
        <5> QED BY <1>0, <5>2
      <4> QED BY <4>1, <4>2
    <3>4. Len(req.list) <= req.i /\ req.i < COUNT /\ req.kind = "home"  BY <3>2 DEF Shape, TypeOK
    <3>5. req'.list \in Seq(Rows) /\ Len(req'.list) \in Nat
      BY <2>0, LenProperties DEF Requests
    <3>6. Len(req'.list) <= COUNT /\ Len(req'.list) <= req.i + 1  BY <1>0, <3>3, <3>4, <3>5
    <3>7. \/ req'.pc = "hash" /\ req.i + 1 < COUNT /\ req.height - (req.i + 1) >= 0
          \/ req'.pc = "done"
      BY <3>2 DEF LoopPc
    <3> QED BY <3>2, <3>4, <3>6, <3>7 DEF Shape
  <2>5. CASE GetBlockHash
    <3>0. req.pc = "pageHash" /\ req.list = <<>> /\ req.kind = "block"
      BY <2>5, BlockMoves DEF Shape
    <3>1. PICK r \in rpcCall(getblockhash(req.want)) :
            IF r = Null
            THEN Moves("done", req.stats, req.height, req.i, req.hash, <<MOCK_BLOCKS[1]>>)
            ELSE Moves("pageBlock", req.stats, req.height, req.i, r, req.list)
      BY <2>5, BlockMoves
    <3>2. CASE r = Null
      <4>1. req'.pc = "done" /\ req'.list = <<MOCK_BLOCKS[1]>>  BY <3>1, <3>2 DEF Moves
      <4>2. Len(req'.list) <= COUNT  BY <1>0, <4>1
      <4> QED BY <4>1, <4>2 DEF Shape
    <3>3. CASE r # Null
      <4>1. /\ req'.pc = "pageBlock" /\ req'.kind = "block" /\ req'.hash = r
            /\ req'.list = <<>> /\ req'.want = req.want
        BY <3>0, <3>1, <3>3 DEF Moves
      <4>2. Len(r) = req.want  BY <3>3, Returned, AnswerIs, Numbers
      <4> QED BY <1>0, <3>3, <4>1, <4>2 DEF Shape
    <3> QED BY <3>2, <3>3
  <2>6. CASE GetBlock
    <3>0. req.pc = "pageBlock" /\ req.list = <<>> /\ req.kind = "block"
      BY <2>6, BlockMoves DEF Shape
    <3>1. PICK r \in rpcCall(req.hash) :
            IF r = Null
            THEN Moves("error", req.stats, req.height, req.i, req.hash, req.list)
            ELSE Moves("done", req.stats, req.height, req.i, req.hash, <<Entry(r)>>)
      BY <2>6, BlockMoves
    <3>2. CASE r = Null
      <4>1. req'.pc = "error" /\ req'.kind = "block" /\ req'.list = <<>>
        BY <3>0, <3>1, <3>2 DEF Moves
      <4> QED BY <1>0, <4>1 DEF Shape
    <3>3. CASE r # Null
      <4>1. req'.pc = "done" /\ req'.list = <<Entry(r)>>  BY <3>1, <3>3 DEF Moves
      <4>2. Len(req'.list) <= COUNT  BY <1>0, <4>1
      <4> QED BY <4>1, <4>2 DEF Shape
    <3> QED BY <3>2, <3>3
  <2> QED BY <1>3, <2>1, <2>2, <2>3, <2>4, <2>5, <2>6 DEF Render
<1>4. CASE UNCHANGED vars
  BY <1>4 DEF vars, TypeOK, Shape
<1> QED BY <1>1, <1>2, <1>3, <1>4 DEF Next

-----------------------------------------------------------------------------
\* The rows of a list, before and after one is appended.
LEMMA RowsOf ==
  ASSUME NEW l \in Seq(Rows), NEW row \in Rows
  PROVE  /\ DOMAIN l = 1..Len(l) /\ Len(l) \in Nat /\ \A k \in DOMAIN l : l[k] \in Rows
         /\ Append(l, row) \in Seq(Rows) /\ Len(Append(l, row)) = Len(l) + 1
         /\ DOMAIN Append(l, row) = 1..Len(l) + 1
         /\ \A k \in 1..Len(l) : Append(l, row)[k] = l[k]
         /\ Append(l, row)[Len(l) + 1] = row
<1>1. DOMAIN l = 1..Len(l) /\ Len(l) \in Nat  BY LenProperties
<1>2. \A k \in DOMAIN l : l[k] \in Rows  BY <1>1, ElementOfSeq
<1>3. /\ Append(l, row) \in Seq(Rows) /\ Len(Append(l, row)) = Len(l) + 1
      /\ \A k \in 1..Len(l) : Append(l, row)[k] = l[k]
      /\ Append(l, row)[Len(l) + 1] = row
  BY AppendProperties
<1>4. DOMAIN Append(l, row) = 1..Len(l) + 1  BY <1>3, LenProperties
<1> QED BY <1>1, <1>2, <1>3, <1>4

\* Steps that leave the list as it is, or make it one that has nothing to do
\* with the loop; LoopBlock, which does neither, has a lemma of its own.
LEMMA ListMoves ==
  ASSUME TypeOK, Shape, [Next]_vars, ~LoopBlock
  PROVE  \/ /\ req' = req /\ Window \subseteq Window'
         \/ req'.list = <<>>
         \/ /\ req.pc = "hash" /\ req'.pc = "block" /\ req'.list = req.list
            /\ req'.height = req.height /\ req'.i = req.i /\ Window' = Window
         \/ req'.pc = "done" /\ req'.list = MOCK_BLOCKS
         \/ req'.pc = "done" /\ req'.list = <<MOCK_BLOCKS[1]>>
         \/ /\ req.pc = "pageBlock" /\ req'.pc = "done" /\ Window' = Window /\ req.hash # Null
            /\ req'.list = <<Entry(req.hash)>>
<1>0. tips' = tips /\ req'.since = req.since => Window' = Window  BY DEF Window
<1>1. CASE NodeAdvances  BY <1>1, NodeMoves
<1>2. CASE OpenHome \/ OpenBlockPage  BY <1>2, OpenMoves
<1>3. CASE GetStats
  <2>1. req.pc = "stats" /\ req'.list = req.list  BY <1>3, HomeMoves DEF Moves
  <2> QED BY <2>1 DEF Shape
<1>4. CASE GetBlockCount
  <2>1. req.pc = "count" /\ (req'.list = req.list \/ (req'.pc = "done" /\ req'.list = MOCK_BLOCKS))
    BY <1>4, HomeMoves DEF Moves
  <2> QED BY <2>1 DEF Shape
<1>5. CASE LoopHash
  BY <1>0, <1>5, HomeMoves DEF Moves
<1>6. CASE GetBlockHash
  <2>1. /\ req.pc = "pageHash"
        /\ req'.list = req.list \/ (req'.pc = "done" /\ req'.list = <<MOCK_BLOCKS[1]>>)
    BY <1>6, BlockMoves DEF Moves
  <2> QED BY <2>1 DEF Shape
<1>7. CASE GetBlock
  <2>1. PICK r \in rpcCall(req.hash) :
          IF r = Null
          THEN Moves("error", req.stats, req.height, req.i, req.hash, req.list)
          ELSE Moves("done", req.stats, req.height, req.i, req.hash, <<Entry(r)>>)
    BY <1>7, BlockMoves
  <2>2. req.pc = "pageBlock" /\ req.list = <<>> /\ req.hash # Null
    BY <1>7, BlockMoves DEF Shape
  <2>3. CASE r = Null  BY <2>1, <2>2, <2>3 DEF Moves
  <2>4. CASE r # Null
    <3>1. r = req.hash  BY <2>4, Returned
    <3> QED BY <1>0, <2>1, <2>2, <2>4, <3>1 DEF Moves
  <2> QED BY <2>3, <2>4
<1>8. CASE UNCHANGED vars
  BY <1>8 DEF vars, Window
<1> QED BY <1>1, <1>2, <1>3, <1>4, <1>5, <1>6, <1>7, <1>8 DEF Next, Render

\* LoopBlock adds the block in hand, or nothing, and goes on to the next height.
LEMMA LoopMoves ==
  ASSUME TypeOK, Shape, LoopBlock
  PROVE  /\ req.pc = "block" /\ req'.pc \in {"hash", "done"} /\ Window' = Window
         /\ req'.height = req.height /\ req'.i = req.i + 1 /\ req'.kind = req.kind
         /\ req'.pc = LoopPc(req.i + 1) /\ req'.stats = req.stats /\ tips' = tips
         /\ req'.since = req.since
         /\ \/ req'.list = req.list
            \/ /\ req.hash \in Paths /\ Len(req.hash) = req.height - req.i
               /\ req'.list = Append(req.list, Entry(req.hash))
         /\ ~req'.failed =>
               /\ ~req.failed
               /\ req.hash # Null => req'.list = Append(req.list, Entry(req.hash))
<1>1. PICK r \in rpcCall(req.hash) :
        /\ Counted(req.hash, r)
        /\ Moves(LoopPc(req.i + 1), req.stats, req.height, req.i + 1, req.hash,
                 IF r = Null THEN req.list ELSE Append(req.list, Entry(r)))
  BY HomeMoves
<1>2. /\ req.pc = "block" /\ req'.pc = LoopPc(req.i + 1) /\ req'.kind = req.kind
      /\ req'.height = req.height /\ req'.i = req.i + 1 /\ req'.stats = req.stats
      /\ req'.list = IF r = Null THEN req.list ELSE Append(req.list, Entry(r))
      /\ tips' = tips /\ req'.since = req.since
  BY <1>1, HomeMoves DEF Moves
<1>3. Window' = Window  BY <1>2 DEF Window
<1>4. r # Null => r = req.hash /\ req.hash \in Paths /\ Len(req.hash) = req.height - req.i
  <2>1. r # Null => r = req.hash  BY Returned
  <2> QED BY <1>2, <2>1, Numbers DEF Shape
<1>5. ~req'.failed => ~req.failed /\ r = req.hash  BY <1>1 DEF Counted
<1>6. req'.pc \in {"hash", "done"}  BY <1>2 DEF LoopPc
<1> QED BY <1>2, <1>3, <1>4, <1>5, <1>6

\* KeysDistinct is kept because the loop is below every block it has listed.
Below ==
  req.pc \in {"hash", "block"} =>
    \A k \in DOMAIN req.list : req.list[k].height > req.height - req.i

\* Every step lists a height once.
LEMMA KeysStep ==
  ASSUME TypeOK, Shape, Below, KeysDistinct, [Next]_vars
  PROVE  Below' /\ KeysDistinct'
<1>0. DOMAIN <<>> = {}  OBVIOUS
<1>1. CASE LoopBlock
  <2>0. /\ req.list \in Seq(Rows) /\ req.height - req.i \in Int /\ req.i \in Int /\ req.height \in Int
        /\ \A k \in DOMAIN req.list : req.list[k] \in Rows /\ req.list[k].height \in Int
        /\ \A k \in DOMAIN req.list : req.list[k].height > req.height - req.i
    <3>1. req.list \in Seq(Rows) /\ req.i \in 0..COUNT /\ req.height \in 0..MaxHeight
      BY Numbers
    <3>2. \A k \in DOMAIN req.list : req.list[k] \in Rows  BY <3>1, ElementOfSeq, LenProperties
    <3>3. \A row \in Rows : row.height \in Int  BY DEF Rows
    <3>4. req.pc = "block"  BY <1>1, LoopMoves
    <3> QED BY <3>1, <3>2, <3>3, <3>4 DEF Below
  <2>1. CASE req'.list = req.list
    <3>1. KeysDistinct'  BY <2>1 DEF KeysDistinct
    <3>2. req'.height = req.height /\ req'.i = req.i + 1  BY <1>1, LoopMoves
    <3>3. \A k \in DOMAIN req.list : req.list[k].height > req.height - (req.i + 1)
      BY <2>0
    <3> QED BY <2>1, <3>1, <3>2, <3>3 DEF Below
  <2>2. CASE /\ req.hash \in Paths /\ Len(req.hash) = req.height - req.i
             /\ req'.list = Append(req.list, Entry(req.hash))
    <3>1. Entry(req.hash) \in Rows /\ Entry(req.hash).height = req.height - req.i
      BY <2>2, EntryRow
    <3>2. /\ DOMAIN req.list = 1..Len(req.list) /\ Len(req.list) \in Nat
          /\ DOMAIN req'.list = 1..Len(req.list) + 1
          /\ \A k \in 1..Len(req.list) : req'.list[k] = req.list[k]
          /\ req'.list[Len(req.list) + 1] = Entry(req.hash)
      BY <2>0, <2>2, <3>1, RowsOf
    <3>3. \A k \in DOMAIN req'.list :
            \/ k \in DOMAIN req.list /\ req'.list[k] = req.list[k]
            \/ k = Len(req.list) + 1 /\ req'.list[k].height = req.height - req.i
      BY <3>1, <3>2
    <3>4. \A k \in DOMAIN req'.list : req'.list[k].height > req.height - (req.i + 1)
      <4>1. \A k \in DOMAIN req.list : req.list[k].height > req.height - (req.i + 1)
        BY <2>0
      <4>2. req.height - req.i > req.height - (req.i + 1)  BY <2>0
      <4> QED BY <3>3, <4>1, <4>2
    <3>5. KeysDistinct'
      <4> SUFFICES ASSUME NEW j \in DOMAIN req'.list, NEW k \in DOMAIN req'.list, j < k
                   PROVE  req'.list[j].height > req'.list[k].height
        BY DEF KeysDistinct
      <4>1. j \in DOMAIN req.list  BY <3>2
      <4>2. req'.list[j] = req.list[j]  BY <3>2, <4>1
      <4>3. CASE k \in DOMAIN req.list
        BY <3>2, <4>1, <4>2, <4>3 DEF KeysDistinct
      <4>4. CASE k \notin DOMAIN req.list
        BY <2>0, <3>3, <4>1, <4>2, <4>4
      <4> QED BY <4>3, <4>4
    <3>6. req'.height = req.height /\ req'.i = req.i + 1  BY <1>1, LoopMoves
    <3> QED BY <3>4, <3>5, <3>6 DEF Below
  <2> QED BY <1>1, <2>1, <2>2, LoopMoves
<1>2. CASE ~LoopBlock
  <2>1. CASE req' = req  BY <2>1 DEF Below, KeysDistinct
  <2>2. CASE req'.list = <<>>  BY <1>0, <2>2 DEF Below, KeysDistinct
  <2>3. CASE /\ req.pc = "hash" /\ req'.list = req.list
             /\ req'.height = req.height /\ req'.i = req.i
    BY <2>3 DEF Below, KeysDistinct
  <2>4. CASE req'.pc = "done" /\ req'.list = MOCK_BLOCKS
    <3>1. \A k \in 1..COUNT : MOCK_BLOCKS[k].height = MockHeight - k + 1  BY MockRows
    <3>2. \A j, k \in 1..COUNT : j < k => MockHeight - j + 1 > MockHeight - k + 1
      BY NextAssumption
    <3>3. DOMAIN MOCK_BLOCKS = 1..COUNT  BY DEF MOCK_BLOCKS
    <3> QED BY <2>4, <3>1, <3>2, <3>3 DEF Below, KeysDistinct
  <2>5. CASE req'.pc = "done" /\ \E row : req'.list = <<row>>
    <3>1. DOMAIN req'.list = {1}  BY <2>5
    <3> QED BY <2>5, <3>1 DEF Below, KeysDistinct
  <2> QED BY <1>2, <2>1, <2>2, <2>3, <2>4, <2>5, ListMoves
<1> QED BY <1>1, <1>2

\* ShownWasActive is kept because the hash in hand was active when it was read.
PendingWasActive ==
  req.pc \in {"block", "pageBlock"} /\ req.hash # Null =>
    \E t \in Window : IsPrefix(req.hash, t)

\* Every step shows only blocks that were active.
LEMMA ActiveStep ==
  ASSUME TypeOK, Shape, PendingWasActive, ShownWasActive, [Next]_vars
  PROVE  ShownWasActive'
<1>0. DOMAIN <<>> = {}  OBVIOUS
<1>1. CASE LoopBlock
  <2>0. Window' = Window /\ req.pc = "block" /\ req.list \in Seq(Rows)
    BY <1>1, LoopMoves, Numbers
  <2>1. CASE req'.list = req.list  BY <2>0, <2>1 DEF ShownWasActive, IsMock
  <2>2. CASE req.hash \in Paths /\ req'.list = Append(req.list, Entry(req.hash))
    <3>1. Entry(req.hash) \in Rows /\ Entry(req.hash).hash = req.hash  BY <2>2, EntryRow
    <3>2. /\ DOMAIN req.list = 1..Len(req.list) /\ Len(req.list) \in Nat
          /\ DOMAIN req'.list = 1..Len(req.list) + 1
          /\ \A k \in 1..Len(req.list) : req'.list[k] = req.list[k]
          /\ req'.list[Len(req.list) + 1] = Entry(req.hash)
      BY <2>0, <2>2, <3>1, RowsOf
    <3>3. \A k \in DOMAIN req'.list :
            \/ k \in DOMAIN req.list /\ req'.list[k] = req.list[k]
            \/ req'.list[k].hash = req.hash
      BY <3>1, <3>2
    <3>4. \E t \in Window : IsPrefix(req.hash, t)
      BY <2>0, <2>2, NextAssumption DEF PendingWasActive
    <3> QED BY <2>0, <3>3, <3>4 DEF ShownWasActive, IsMock
  <2> QED BY <1>1, <2>1, <2>2, LoopMoves
<1>2. CASE ~LoopBlock
  <2>1. CASE req' = req /\ Window \subseteq Window'
    BY <2>1 DEF ShownWasActive, IsMock
  <2>2. CASE req'.list = <<>>  BY <1>0, <2>2 DEF ShownWasActive
  <2>3. CASE req'.list = req.list /\ Window' = Window
    BY <2>3 DEF ShownWasActive, IsMock
  <2>4. CASE req'.list = MOCK_BLOCKS
    <3>1. DOMAIN MOCK_BLOCKS = 1..COUNT  BY DEF MOCK_BLOCKS
    <3> QED BY <2>4, <3>1, MockRows DEF ShownWasActive, IsMock
  <2>5. CASE req'.list = <<MOCK_BLOCKS[1]>>
    <3>1. 1 \in 1..COUNT  BY NextAssumption
    <3>2. DOMAIN req'.list = {1} /\ req'.list[1] = MOCK_BLOCKS[1]  BY <2>5
    <3> QED BY <3>1, <3>2, MockRows DEF ShownWasActive, IsMock
  <2>6. CASE /\ req.pc = "pageBlock" /\ Window' = Window /\ req.hash # Null
             /\ req'.list = <<Entry(req.hash)>>
    <3>1. DOMAIN req'.list = {1} /\ req'.list[1] = Entry(req.hash)  BY <2>6
    <3>2. Entry(req.hash).hash = req.hash  BY DEF Entry
    <3>3. \E t \in Window : IsPrefix(req.hash, t)  BY <2>6 DEF PendingWasActive
    <3> QED BY <2>6, <3>1, <3>2, <3>3 DEF ShownWasActive, IsMock
  <2> QED BY <1>2, <2>1, <2>2, <2>3, <2>4, <2>5, <2>6, ListMoves
<1> QED BY <1>1, <1>2

\* The hash that an await brings was active at that moment.
LEMMA PendingStep ==
  ASSUME TypeOK, Shape, PendingWasActive, [Next]_vars
  PROVE  PendingWasActive'
<1>0. tips' = tips /\ req'.since = req.since => Window' = Window  BY DEF Window
<1>1. CASE NodeAdvances  BY <1>1, NodeMoves DEF PendingWasActive
<1>2. CASE OpenHome \/ OpenBlockPage  BY <1>2, OpenMoves DEF PendingWasActive
<1>3. CASE GetStats \/ GetBlockCount \/ LoopBlock
  <2>1. req'.pc \in {"count", "done", "hash"}
    BY <1>3, HomeMoves DEF Moves, LoopPc
  <2> QED BY <2>1 DEF PendingWasActive
<1>4. CASE LoopHash
  <2>1. PICK r \in rpcCall(getblockhash(req.height - req.i)) :
          Moves("block", req.stats, req.height, req.i, r, req.list)
    BY <1>4, HomeMoves
  <2>2. r # Null => IsPrefix(r, Chain)  BY Returned, AnswerIs, Numbers
  <2>3. Window' = Window /\ req'.hash = r  BY <1>0, <2>1 DEF Moves
  <2> QED BY <2>2, <2>3, CurrentChain DEF PendingWasActive
<1>5. CASE GetBlockHash
  <2>1. PICK r \in rpcCall(getblockhash(req.want)) :
          IF r = Null
          THEN Moves("done", req.stats, req.height, req.i, req.hash, <<MOCK_BLOCKS[1]>>)
          ELSE Moves("pageBlock", req.stats, req.height, req.i, r, req.list)
    BY <1>5, BlockMoves
  <2>2. r # Null => IsPrefix(r, Chain)  BY Returned, AnswerIs, Numbers
  <2>3. CASE r = Null  BY <2>1, <2>3 DEF Moves, PendingWasActive
  <2>4. CASE r # Null
    <3>1. Window' = Window /\ req'.hash = r  BY <1>0, <2>1, <2>4 DEF Moves
    <3> QED BY <2>2, <2>4, <3>1, CurrentChain DEF PendingWasActive
  <2> QED BY <2>3, <2>4
<1>6. CASE GetBlock
  <2>1. req'.pc \in {"error", "done"}  BY <1>6, BlockMoves DEF Moves
  <2> QED BY <2>1 DEF PendingWasActive
<1>7. CASE UNCHANGED vars
  BY <1>7 DEF vars, PendingWasActive, Window
<1> QED BY <1>1, <1>2, <1>3, <1>4, <1>5, <1>6, <1>7 DEF Next, Render

-----------------------------------------------------------------------------
\* While no call has failed, the height the home page shows is that of a tip the
\* node had since the request.
Answered ==
  ~req.failed /\ req.kind = "home" /\ req.pc # "stats" => \E t \in Window : req.stats = Len(t)

\* Every step keeps that account of the answers.
LEMMA AnsweredStep ==
  ASSUME TypeOK, Shape, Answered, [Next]_vars
  PROVE  Answered'
<1>0. tips' = tips /\ req'.since = req.since => Window' = Window  BY DEF Window
<1>c. Len(Chain) \in 0..MaxHeight /\ Len(Chain) # Null /\ Chain \in Window /\ MaxHeight \in Nat
  BY CurrentChain, NextAssumption
<1>1. CASE NodeAdvances
  <2>1. req' = req /\ Window \subseteq Window'  BY <1>1, NodeMoves
  <2> QED BY <2>1 DEF Answered
<1>2. CASE OpenHome \/ OpenBlockPage  BY <1>2, OpenMoves DEF Answered
<1>3. CASE GetStats
  <2>1. PICK r \in rpcCall(Len(Chain)) :
          /\ Counted(Len(Chain), r)
          /\ Moves("count", IF r = Null THEN MockHeight ELSE r, req.height, req.i, req.hash, req.list)
    BY <1>3, HomeMoves
  <2>2. Window' = Window /\ req'.stats = IF r = Null THEN MockHeight ELSE r
    BY <1>0, <2>1 DEF Moves
  <2>3. ~req'.failed => r = Len(Chain)  BY <2>1 DEF Counted
  <2> QED BY <1>c, <2>2, <2>3 DEF Answered
<1>4. CASE GetBlockCount \/ LoopHash \/ LoopBlock
  <2>1. /\ req.pc # "stats" /\ req'.kind = req.kind /\ req'.stats = req.stats
        /\ Window' = Window /\ (~req'.failed => ~req.failed)
    BY <1>0, <1>4, HomeMoves DEF Moves, Counted
  <2> QED BY <2>1 DEF Answered
<1>5. CASE GetBlockHash \/ GetBlock
  <2>1. req'.kind = "block"  BY <1>5, BlockMoves DEF Moves, Shape
  <2> QED BY <2>1 DEF Answered
<1>6. CASE UNCHANGED vars
  BY <1>6 DEF vars, Answered, Window
<1> QED BY <1>1, <1>2, <1>3, <1>4, <1>5, <1>6 DEF Next, Render

-----------------------------------------------------------------------------
\* The chain has only grown since the page was requested.
Growing == \A j, k \in req.since..Len(tips) : j <= k => IsPrefix(tips[j], tips[k])

(***************************************************************************)
(* ListIsTopOfChain speaks of finished pages.  While the loop runs, over a *)
(* chain that only grows and with every call answered, round k has listed  *)
(* the block of the current chain at height - k + 1.                       *)
(***************************************************************************)
TopOf(c) ==
  /\ req.stats <= req.height /\ req.height <= Len(c)
  /\ Len(req.list) = req.i /\ req.i <= req.height + 1
  /\ \A k \in 1..req.i : req.list[k] = Entry(SubSeq(c, 1, req.height - k + 1))
  /\ req.pc = "block" => req.hash = SubSeq(c, 1, req.height - req.i)
  /\ req.pc = "done" => req.i = COUNT \/ req.i = req.height + 1

Top == req.kind = "home" /\ ~req.failed /\ req.height > 0 /\ Growing => TopOf(Chain)

\* While the chain grows, the current chain holds every tip the page has seen.
LEMMA GrowingChain ==
  ASSUME TypeOK, Growing, NEW t \in Window
  PROVE  IsPrefix(t, Chain) /\ Len(t) <= Len(Chain)
<1>1. PICK j \in req.since..Len(tips) : t = tips[j]  BY DEF Window
<1>2. Len(tips) \in req.since..Len(tips) /\ j <= Len(tips)  BY CurrentChain
<1>3. Chain = tips[Len(tips)]  BY CurrentChain
<1>4. IsPrefix(t, Chain)  BY <1>1, <1>2, <1>3 DEF Growing
<1> QED BY <1>4 DEF IsPrefix

\* What the list says of a chain it says of every chain that extends it.
LEMMA TopExtends ==
  ASSUME TypeOK, NEW c \in Paths, NEW d \in Paths, IsPrefix(c, d), TopOf(c), req.stats \in Int,
         req.pc \in {"hash", "block"} => req.height - req.i >= 0
  PROVE  TopOf(d)
<1>0. /\ Len(c) \in Nat /\ Len(d) \in Nat /\ Len(c) <= Len(d)
      /\ req.height \in Nat /\ req.i \in Nat /\ req.height <= Len(c) /\ req.i <= req.height + 1
  BY PathSeq, Numbers, NextAssumption DEF IsPrefix, TopOf
<1>1. req.height <= Len(d)  BY <1>0
<1>2. \A h \in 0..Len(c) : SubSeq(c, 1, h) = SubSeq(d, 1, h)  BY PrefixKeeps
<1>3. \A k \in 1..req.i : req.height - k + 1 \in 0..Len(c)  BY <1>0
<1>4. \A k \in 1..req.i : req.list[k] = Entry(SubSeq(d, 1, req.height - k + 1))
  BY <1>2, <1>3 DEF TopOf
<1>5. req.pc = "block" => req.height - req.i \in 0..Len(c)  BY <1>0
<1>6. req.pc = "block" => req.hash = SubSeq(d, 1, req.height - req.i)
  BY <1>2, <1>5 DEF TopOf
<1> QED BY <1>1, <1>4, <1>6 DEF TopOf

\* Every step keeps the list the top of the chain.
LEMMA TopStep ==
  ASSUME TypeOK, Shape, Answered, Top, [Next]_vars
  PROVE  Top'
<1> SUFFICES ASSUME req'.kind = "home", ~req'.failed, req'.height > 0, Growing'
             PROVE  TopOf(Chain)'
  BY DEF Top
<1>c. Len(Chain) \in 0..MaxHeight /\ Chain \in Paths /\ MaxHeight \in Nat /\ Chain \in Window
  BY CurrentChain, NextAssumption
<1>n. /\ req.i \in 0..COUNT /\ req.height \in 0..MaxHeight /\ COUNT \in Nat \ {0}
      /\ req.list \in Seq(Rows)
  BY Numbers
<1>w. tips' = tips => Chain' = Chain  BY DEF Chain
<1>g. tips' = tips /\ req'.since = req.since => Growing  BY DEF Growing
<1>1. CASE NodeAdvances
  <2>1. /\ req' = req /\ tips' \in Seq(Paths) /\ Len(tips') = Len(tips) + 1
        /\ \A j \in 1..Len(tips) : tips'[j] = tips[j]
    BY <1>1, NodeMoves
  <2>2. Len(tips) \in Nat \ {0} /\ req.since \in 1..Len(tips) /\ Chain = tips[Len(tips)]
    BY CurrentChain
  <2>3. Growing
    <3> SUFFICES ASSUME NEW j \in req.since..Len(tips), NEW k \in req.since..Len(tips), j <= k
                 PROVE  IsPrefix(tips[j], tips[k])
      BY DEF Growing
    <3>1. /\ j \in req.since..(Len(tips) + 1) /\ k \in req.since..(Len(tips) + 1)
          /\ j \in 1..Len(tips) /\ k \in 1..Len(tips)
      BY <2>2
    <3>2. IsPrefix(tips'[j], tips'[k])  BY <2>1, <3>1 DEF Growing
    <3> QED BY <2>1, <3>1, <3>2
  <2>4. TopOf(Chain)  BY <2>1, <2>3 DEF Top
  <2>5. Chain' = tips'[Len(tips) + 1] /\ Chain' \in Paths
    <3>1. Chain' = tips'[Len(tips')]  BY DEF Chain, Last
    <3>2. Len(tips) + 1 \in 1..Len(tips')  BY <2>1, <2>2
    <3> QED BY <2>1, <3>1, <3>2, ElementOfSeq
  <2>6. IsPrefix(Chain, Chain')
    <3>1. /\ Len(tips) \in req.since..(Len(tips) + 1)
          /\ Len(tips) + 1 \in req.since..(Len(tips) + 1) /\ Len(tips) <= Len(tips) + 1
          /\ Len(tips) \in 1..Len(tips)
      BY <2>2
    <3>2. IsPrefix(tips'[Len(tips)], tips'[Len(tips) + 1])  BY <2>1, <3>1 DEF Growing
    <3> QED BY <2>1, <2>2, <2>5, <3>1, <3>2
  <2>7. \A d \in Paths : IsPrefix(Chain, d) => TopOf(d)
    <3>1. req.stats \in Int
      <4>1. req.pc # "stats"  BY <2>1 DEF Shape
      <4>2. PICK t \in Window : req.stats = Len(t)  BY <2>1, <4>1 DEF Answered
      <4>3. t \in Paths  BY CurrentChain
      <4> QED BY <4>2, <4>3, PathSeq
    <3> QED BY <1>c, <2>4, <3>1, TopExtends DEF TypeOK
  <2>8. TopOf(Chain')  BY <2>5, <2>6, <2>7
  <2> QED BY <2>1, <2>8 DEF TopOf
<1>2. CASE OpenHome \/ OpenBlockPage
  <2>1. req'.height = 0  BY <1>2, OpenMoves
  <2> QED BY <2>1
<1>3. CASE GetStats
  <2>1. req'.height = 0  BY <1>3, HomeMoves DEF Moves, Shape
  <2> QED BY <2>1
<1>4. CASE GetBlockCount
  <2>1. PICK r \in rpcCall(Len(Chain)) :
          /\ Counted(Len(Chain), r)
          /\ IF r \in {Null, 0}
               THEN Moves("done", req.stats, req.height, req.i, req.hash, MOCK_BLOCKS)
               ELSE Moves("hash", req.stats, r, req.i, req.hash, req.list)
    BY <1>4, HomeMoves
  <2>2. /\ req.pc = "count" /\ req.kind = "home" /\ req.list = <<>> /\ req.i = 0 /\ req.height = 0
    BY <1>4, HomeMoves DEF Shape
  <2>3. r \notin {Null, 0}  BY <2>1, <2>2 DEF Moves
  <2>4. /\ req'.pc = "hash" /\ req'.height = r /\ req'.i = 0 /\ req'.list = <<>>
        /\ req'.stats = req.stats /\ tips' = tips /\ req'.since = req.since
    BY <2>1, <2>2, <2>3 DEF Moves
  <2>5. ~req.failed /\ r = Len(Chain)  BY <2>1 DEF Counted
  <2>6. req.stats <= Len(Chain)
    <3>1. PICK t \in Window : req.stats = Len(t)  BY <2>2, <2>5 DEF Answered
    <3> QED BY <1>g, <2>4, <3>1, GrowingChain
  <2>7. Len(req'.list) = 0 /\ 0 <= Len(Chain) + 1 /\ Len(Chain) <= Len(Chain)  BY <1>c, <2>4
  <2>8. 1..0 = {}  OBVIOUS
  <2> QED BY <1>w, <2>4, <2>5, <2>6, <2>7, <2>8 DEF TopOf
<1>5. CASE LoopHash
  <2>1. PICK r \in rpcCall(getblockhash(req.height - req.i)) :
          /\ Counted(getblockhash(req.height - req.i), r)
          /\ Moves("block", req.stats, req.height, req.i, r, req.list)
    BY <1>5, HomeMoves
  <2>2. /\ req.pc = "hash" /\ req'.pc = "block" /\ req'.kind = req.kind /\ req'.hash = r
        /\ req'.stats = req.stats /\ req'.list = req.list /\ req'.height = req.height
        /\ req'.i = req.i /\ tips' = tips /\ req'.since = req.since
        /\ ~req.failed /\ r = getblockhash(req.height - req.i)
    BY <1>5, <2>1, HomeMoves DEF Moves, Counted
  <2>3. TopOf(Chain)  BY <1>g, <2>2 DEF Top
  <2>4. req.height - req.i \in 0..Len(Chain)
    <3>1. req.height - req.i >= 0 /\ req.height <= Len(Chain)  BY <2>2, <2>3 DEF TypeOK, TopOf
    <3> QED BY <1>c, <1>n, <3>1
  <2>5. r = SubSeq(Chain, 1, req.height - req.i)  BY <2>2, <2>4 DEF getblockhash
  <2> QED BY <1>w, <2>2, <2>3, <2>5 DEF TopOf
<1>6. CASE LoopBlock
  <2>1. /\ req.pc = "block" /\ req'.pc = LoopPc(req.i + 1) /\ req'.kind = req.kind
        /\ req'.height = req.height /\ req'.i = req.i + 1 /\ req'.stats = req.stats
        /\ tips' = tips /\ req'.since = req.since /\ ~req.failed
        /\ req.hash # Null => req'.list = Append(req.list, Entry(req.hash))
    BY <1>6, LoopMoves
  <2>2. TopOf(Chain)  BY <1>g, <2>1 DEF Top
  <2>3. /\ req.hash = SubSeq(Chain, 1, req.height - req.i) /\ req.height <= Len(Chain)
        /\ Len(req.list) = req.i /\ req.stats <= req.height
        /\ \A k \in 1..req.i : req.list[k] = Entry(SubSeq(Chain, 1, req.height - k + 1))
        /\ req.i < COUNT /\ req.height - req.i >= 0
    BY <2>1, <2>2 DEF TopOf, TypeOK
  <2>4. req.height - req.i \in 0..Len(Chain)  BY <1>c, <1>n, <2>3
  <2>5. req.hash \in Paths /\ req.hash # Null
    <3>1. SubSeq(Chain, 1, req.height - req.i) \in Paths  BY <1>c, <2>4, PrefixOf
    <3> QED BY <2>3, <3>1, NextAssumption
  <2>6. req'.list = Append(req.list, Entry(req.hash))  BY <2>1, <2>5
  <2>7. Entry(req.hash) \in Rows  BY <2>5, EntryRow
  <2>8. /\ Len(req'.list) = req.i + 1 /\ req'.list[req.i + 1] = Entry(req.hash)
        /\ \A k \in 1..req.i : req'.list[k] = req.list[k]
    BY <1>n, <2>3, <2>6, <2>7, RowsOf
  <2>9. \A k \in 1..req.i + 1 : req'.list[k] = Entry(SubSeq(Chain, 1, req.height - k + 1))
    <3> SUFFICES ASSUME NEW k \in 1..req.i + 1
                 PROVE  req'.list[k] = Entry(SubSeq(Chain, 1, req.height - k + 1))
      OBVIOUS
    <3>1. CASE k \in 1..req.i  BY <2>3, <2>8, <3>1
    <3>2. CASE k = req.i + 1
      <4>1. req.height - k + 1 = req.height - req.i  BY <1>n, <3>2
      <4> QED BY <2>3, <2>8, <3>2, <4>1
    <3> QED BY <1>n, <3>1, <3>2
  <2>10. /\ req.i + 1 <= req.height + 1 /\ LoopPc(req.i + 1) # "block"
         /\ LoopPc(req.i + 1) = "done" => req.i + 1 = COUNT \/ req.i + 1 = req.height + 1
    <3>1. req.i \in Nat /\ req.height \in Nat /\ COUNT \in Nat  BY <1>n
    <3>2. req.i < COUNT /\ req.height - req.i >= 0  BY <2>3
    <3>3. req.i + 1 <= req.height + 1  BY <3>1, <3>2
    <3>4. LoopPc(req.i + 1) # "block"  BY DEF LoopPc
    <3>5. ASSUME LoopPc(req.i + 1) = "done" PROVE req.i + 1 = COUNT \/ req.i + 1 = req.height + 1
      <4>1. ~(req.i + 1 < COUNT /\ req.height - (req.i + 1) >= 0)  BY <3>5 DEF LoopPc
      <4> QED BY <3>1, <3>2, <4>1
    <3> QED BY <3>3, <3>4, <3>5
  <2> QED BY <1>w, <2>1, <2>3, <2>8, <2>9, <2>10 DEF TopOf
<1>7. CASE GetBlockHash \/ GetBlock
  <2>1. req'.kind = "block"  BY <1>7, BlockMoves DEF Moves, Shape
  <2> QED BY <2>1
<1>8. CASE UNCHANGED vars
  BY <1>8 DEF vars, Top, TopOf, Growing, Chain
<1> QED BY <1>1, <1>2, <1>3, <1>4, <1>5, <1>6, <1>7, <1>8 DEF Next, Render

-----------------------------------------------------------------------------
\* The invariant of the pages.
PagesInv ==
  /\ TypeOK /\ Shape
  /\ Below /\ KeysDistinct
  /\ PendingWasActive /\ ShownWasActive
  /\ Answered /\ Top

\* It holds of the first state, in which no page has been requested.
LEMMA PagesInit ==
  ASSUME Init
  PROVE  PagesInv
<1>1. PICK t \in Paths : tips = <<t>>  BY DEF Init
<1>2. /\ tips \in Seq(Paths) /\ Len(tips) = 1 /\ 1 \in 1..MaxTips
  BY <1>1, NextAssumption
<1>3. req = Page("none", "done", 0) /\ configured \in BOOLEAN /\ prerendered \in BOOLEAN
  BY DEF Init
<1>4. /\ MaxHeight \in Nat /\ COUNT \in Nat /\ 0 \in 0..MaxHeight + 1
      /\ 0 \in 0..COUNT /\ 0 \in 0..MaxHeight /\ <<>> \in Seq(Rows) /\ Len(<<>>) = 0
  BY NextAssumption, EmptySeq
<1>5. /\ req \in Requests /\ req.since = 1 /\ req.kind = "none" /\ req.pc = "done"
      /\ req.list = <<>> /\ req.height = 0
  BY <1>2, <1>3, <1>4 DEF Page, Requests
<1>6. TypeOK  BY <1>2, <1>3, <1>4, <1>5 DEF TypeOK
<1>7. Shape /\ Below /\ PendingWasActive /\ Answered /\ Top
  BY <1>5 DEF Shape, Below, PendingWasActive, Answered, Top
<1>8. KeysDistinct /\ ShownWasActive
  BY <1>5 DEF KeysDistinct, ShownWasActive
<1> QED BY <1>6, <1>7, <1>8 DEF PagesInv

\* The pages keep their invariant, for every chain, reorganisation and failure.
THEOREM PagesCorrect == Spec => []PagesInv
<1>1. Init => PagesInv  BY PagesInit
<1>2. PagesInv /\ [Next]_vars => PagesInv'
  BY ShapeStep, KeysStep, PendingStep, ActiveStep, AnsweredStep, TopStep DEF PagesInv
<1> QED BY <1>1, <1>2, PTL DEF Spec

\* No height is listed twice, so React's keys are distinct.
THEOREM KeysCorrect == Spec => []KeysDistinct
<1>1. PagesInv => KeysDistinct  BY DEF PagesInv
<1> QED BY <1>1, PagesCorrect, PTL

\* A block shown as real was on the active chain while the page was made.
THEOREM ShownCorrect == Spec => []ShownWasActive
<1>1. PagesInv => ShownWasActive  BY DEF PagesInv
<1> QED BY <1>1, PagesCorrect, PTL

\* Over a chain that only grows, with every call answered, the home page lists
\* the top of the chain, each block the parent of the one before.
THEOREM TopCorrect == Spec => []ListIsTopOfChain
<1>1. ASSUME PagesInv PROVE ListIsTopOfChain
  <2> SUFFICES ASSUME req.kind = "home", req.pc = "done", ~req.failed, req.height > 0, Growing
               PROVE  /\ Len(req.list) = IF req.height + 1 < COUNT THEN req.height + 1 ELSE COUNT
                      /\ req.list[1].height = req.height /\ req.stats <= req.height
                      /\ \A k \in 1..Len(req.list) - 1 :
                           req.list[k + 1].hash = Front(req.list[k].hash)
    BY DEF ListIsTopOfChain, Growing
  <2>0. TypeOK /\ TopOf(Chain)  BY <1>1 DEF PagesInv, Top
  <2>1. /\ req.stats <= req.height /\ req.height <= Len(Chain) /\ Len(req.list) = req.i
        /\ req.i <= req.height + 1 /\ (req.i = COUNT \/ req.i = req.height + 1)
        /\ \A k \in 1..req.i : req.list[k] = Entry(SubSeq(Chain, 1, req.height - k + 1))
    BY <2>0 DEF TopOf
  <2>2. /\ req.i \in 0..COUNT /\ req.height \in Nat /\ COUNT \in Nat \ {0}
        /\ Chain \in Paths /\ Len(Chain) \in Nat
    BY <2>0, Numbers, CurrentChain, NextAssumption
  <2>3. Len(req.list) = IF req.height + 1 < COUNT THEN req.height + 1 ELSE COUNT
    BY <2>1, <2>2
  <2>4. \A k \in 1..req.i : /\ req.height - k + 1 \in 0..Len(Chain)
                            /\ req.list[k].hash = SubSeq(Chain, 1, req.height - k + 1)
                            /\ req.list[k].height = req.height - k + 1
    <3> SUFFICES ASSUME NEW k \in 1..req.i
                 PROVE  /\ req.height - k + 1 \in 0..Len(Chain)
                        /\ req.list[k].hash = SubSeq(Chain, 1, req.height - k + 1)
                        /\ req.list[k].height = req.height - k + 1
      OBVIOUS
    <3>1. req.height - k + 1 \in 0..Len(Chain)  BY <2>1, <2>2
    <3>2. Len(SubSeq(Chain, 1, req.height - k + 1)) = req.height - k + 1
      BY <2>2, <3>1, PrefixOf
    <3>3. req.list[k] = Entry(SubSeq(Chain, 1, req.height - k + 1))  BY <2>1
    <3>4. \A b : Entry(b).hash = b /\ Entry(b).height = Len(b)  BY DEF Entry
    <3> QED BY <3>1, <3>2, <3>3, <3>4
  <2>5. req.list[1].height = req.height
    <3>1. 1 \in 1..req.i /\ req.height - 1 + 1 = req.height  BY <2>1, <2>2
    <3> QED BY <2>4, <3>1
  <2>6. ASSUME NEW k \in 1..req.i - 1
        PROVE  req.list[k + 1].hash = Front(req.list[k].hash)
    <3>1. /\ k \in 1..req.i /\ k + 1 \in 1..req.i
          /\ req.height - (k + 1) + 1 = (req.height - k + 1) - 1
          /\ req.height - k + 1 \in 1..Len(Chain)
      <4>1. k \in 1..req.i /\ k + 1 \in 1..req.i /\ k \in Nat /\ k <= req.height
        <5>1. req.i <= req.height + 1 /\ req.i \in Nat /\ req.height \in Nat  BY <2>1, <2>2
        <5>2. k \in Nat /\ k >= 1 /\ k <= req.i - 1  BY <5>1
        <5> QED BY <5>1, <5>2
      <4>2. /\ req.height - (k + 1) + 1 = (req.height - k + 1) - 1
            /\ req.height - k + 1 >= 1 /\ req.height - k + 1 <= Len(Chain)
        <5>1. req.height <= Len(Chain)  BY <2>1
        <5> QED BY <2>2, <4>1, <5>1
      <4>3. req.height - k + 1 \in Int  BY <2>2, <4>1
      <4> QED BY <2>2, <4>1, <4>2, <4>3
    <3>2. Front(SubSeq(Chain, 1, req.height - k + 1)) = SubSeq(Chain, 1, (req.height - k + 1) - 1)
      BY <2>2, <3>1, ParentOf
    <3> QED BY <2>4, <3>1, <3>2
  <2> QED BY <2>1, <2>3, <2>5, <2>6
<1> QED BY <1>1, PagesCorrect, PTL
=============================================================================
