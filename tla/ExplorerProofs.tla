--------------------------- MODULE ExplorerProofs ---------------------------
(***************************************************************************)
(* What sync_blocks and the web handlers of explorer/app.py keep, for      *)
(* every number of workers, nodes, branches and heights and every batch    *)
(* size, with RPCs that fail, restarts and reorganisations: the types, the *)
(* gaps of the table of blocks, and the balance.                           *)
(***************************************************************************)
EXTENDS Explorer, FiniteSetTheorems, TLAPS

-----------------------------------------------------------------------------
(* Paths, heights and threads.                                              *)

\* A path is a sequence of at most MaxHeight branches; its ancestors are paths.
LEMMA PathFacts ==
  ASSUME NEW p \in Paths
  PROVE  /\ Len(p) \in Heights
         /\ \A h \in 0..Len(p) : Ancestor(p, h) \in Paths
<1>1. PICK k \in Heights : p \in [1..k -> Branches]
  BY DEF Paths
<1>2. k \in Nat
  BY <1>1, ExplorerAssumption DEF Heights
<1>3. p \in Seq(Branches) /\ Len(p) = k
  BY <1>1, <1>2
<1>4. ASSUME NEW h \in 0..Len(p) PROVE Ancestor(p, h) \in Paths
  <2>1. h \in Heights
    BY <1>1, <1>3, <1>4, ExplorerAssumption DEF Heights
  <2>2. Ancestor(p, h) = [i \in 1..h |-> p[i]]
    BY <1>2, <1>3, <1>4 DEF Ancestor
  <2>3. Ancestor(p, h) \in [1..h -> Branches]
    BY <1>1, <1>2, <1>3, <1>4, <2>2
  <2> QED BY <2>1, <2>3 DEF Paths
<1> QED BY <1>1, <1>3, <1>4

\* The empty path, and with it the idle thread, is well formed.
LEMMA StartTyped == <<>> \in Paths /\ Start \in SyncStates
<1>1. 0 \in Heights
  BY ExplorerAssumption DEF Heights
<1>2. <<>> \in [1..0 -> Branches]
  OBVIOUS
<1>3. <<>> \in Paths
  BY <1>1, <1>2 DEF Paths
<1> QED BY <1>1, <1>3 DEF Start, Thread, SyncStates

\* The effect of NextHeight on a thread whose current height has been stored.
LEMMA NextHeightFacts ==
  ASSUME NEW s \in SyncStates, s.at <= s.last
  PROVE  /\ NextHeight(s) \in SyncStates
         /\ \/ NextHeight(s) = Start
            \/ /\ NextHeight(s).pc = "hash" /\ NextHeight(s).node = s.node
               /\ NextHeight(s).last = s.last
               /\ NextHeight(s).at = s.at + 1 /\ s.at + 1 <= s.last
<1>1. s.at \in Nat /\ s.last \in Heights /\ s.last \in Nat
  BY ExplorerAssumption DEF SyncStates, Heights
<1>2. CASE s.at < s.last
  <2>1. s.at + 1 \in Heights
    BY <1>1, <1>2, ExplorerAssumption DEF Heights
  <2> QED BY <1>1, <1>2, <2>1, StartTyped DEF NextHeight, Thread, SyncStates
<1>3. CASE ~(s.at < s.last)
  BY <1>3, StartTyped DEF NextHeight
<1> QED BY <1>2, <1>3

\* A set of natural numbers has a least element.
LEMMA Least ==
  ASSUME NEW T, T \subseteq Nat, T # {}
  PROVE  \E n \in T : \A m \in T : n <= m
<1>1. IsWellFoundedOn(OpToRel(<, Nat), Nat)  BY NatLessThanWellFounded
<1>2. \E x \in T : \A y \in T : ~(<<y, x>> \in OpToRel(<, Nat))
  <2> DEFINE R == OpToRel(<, Nat)
  <2>1. IsWellFoundedOn(R, Nat)  BY <1>1
  <2> HIDE DEF R
  <2>2. \E x \in T : \A y \in T : ~(<<y, x>> \in R)  BY <2>1, WFMin
  <2> QED BY <2>2 DEF R
<1>3. PICK x \in T : \A y \in T : ~(<<y, x>> \in OpToRel(<, Nat))  BY <1>2
<1>4. \A y \in T : ~(y < x)
  <2> TAKE y \in T
  <2>1. <<y, x>> \notin OpToRel(<, Nat)  BY <1>3
  <2> QED BY <2>1 DEF OpToRel
<1>5. \A y \in T : x <= y
  <2> TAKE y \in T
  <2>1. x \in Nat /\ y \in Nat /\ ~(y < x)  BY <1>4
  <2> QED BY <2>1
<1> QED BY <1>5

\* The greatest height of a set of heights is one of them.
LEMMA MaxHeightIn ==
  ASSUME NEW S, S \subseteq Heights, S # {}
  PROVE  Max(S) \in S /\ \A h \in S : h <= Max(S)
<1>0. MaxHeight \in Nat  BY ExplorerAssumption
<1> DEFINE T == {MaxHeight - h : h \in S}
<1>1. T \subseteq Nat /\ T # {}
  <2>1. \A h \in S : MaxHeight - h \in Nat  BY <1>0 DEF Heights
  <2> QED BY <2>1
<1>2. PICK n \in T : \A m \in T : n <= m  BY <1>1, Least
<1>3. PICK x \in S : n = MaxHeight - x  BY <1>2
<1>4. \A h \in S : x >= h
  <2> TAKE h \in S
  <2>1. MaxHeight - x <= MaxHeight - h  BY <1>2, <1>3
  <2>2. x \in Nat /\ h \in Nat  BY <1>0 DEF Heights
  <2> HIDE DEF T
  <2> QED BY <1>0, <2>1, <2>2
<1>5. Max(S) \in S /\ \A y \in S : Max(S) >= y
  <2> HIDE DEF T
  <2> QED BY <1>3, <1>4 DEF Max
<1>6. \A h \in S : h \in Nat  BY <1>0 DEF Heights
<1> HIDE DEF T
<1> QED BY <1>5, <1>6

\* OurHeight is -1 or a stored height.
LEMMA OurHeightIs ==
  ASSUME DOMAIN blocks \subseteq Heights
  PROVE  /\ OurHeight \in Int /\ OurHeight >= -1
         /\ OurHeight = -1 \/ OurHeight \in DOMAIN blocks
<1>0. Heights \subseteq Nat  BY ExplorerAssumption DEF Heights
<1>1. CASE DOMAIN blocks = {}  BY <1>1 DEF OurHeight
<1>2. CASE DOMAIN blocks # {}
  <2>1. Max(DOMAIN blocks) \in DOMAIN blocks  BY <1>2, MaxHeightIn
  <2>2. Max(DOMAIN blocks) \in Nat  BY <1>0, <2>1
  <2>3. OurHeight = -1 \/ OurHeight = Max(DOMAIN blocks)  BY <1>2 DEF OurHeight
  <2> QED BY <2>1, <2>2, <2>3
<1> QED BY <1>1, <1>2

\* The beginning of a path has the length it was cut to.
LEMMA AncestorLen ==
  ASSUME NEW p \in Paths, NEW h \in 0..Len(p)
  PROVE  Ancestor(p, h) \in Paths /\ Len(Ancestor(p, h)) = h
<1>1. PICK k \in Heights : p \in [1..k -> Branches]  BY DEF Paths
<1>2. k \in Nat  BY <1>1, ExplorerAssumption DEF Heights
<1>3. p \in Seq(Branches) /\ Len(p) = k  BY <1>1, <1>2
<1>4. Len(Ancestor(p, h)) = h  BY <1>2, <1>3 DEF Ancestor
<1> QED BY <1>4, PathFacts

-----------------------------------------------------------------------------
(* The steps of the threads.                                                *)

\* tip and the tables of blocks and threads, as far as the argument needs their types.
SyncTyped ==
  /\ tip \in [Nodes -> Paths]
  /\ DOMAIN blocks \subseteq Heights
  /\ sync \in [Workers -> SyncStates]

\* The locals of a sync_blocks thread: the height is one of the range, and the
\* hash is of the height it was asked for.
InRange(s) ==
  /\ s.pc # "start" => s.node \in Nodes
  /\ s.pc \in {"hash", "block"} => s.at <= s.last
  /\ s.pc = "block" => Len(s.hash) = s.at

\* The row of a height holds a block of that height.
Stored == \A h \in DOMAIN blocks : blocks[h] \in Paths /\ Len(blocks[h]) = h

RangeInv == SyncTyped /\ Stored /\ \A w \in Workers : InRange(sync[w])

\* Where a thread goes when nothing is stored and no height is passed over.
Reads(w, s) ==
  LET t == sync[w]
      last == IF OurHeight + BATCH < t.last THEN OurHeight + BATCH ELSE t.last
  IN  \/ s = Start
      \/ \E n \in Nodes : s = Thread("info", n, 0, 0, <<>>)
      \/ t.pc = "info" /\ s = Thread("select", t.node, 0, Len(tip[t.node]), <<>>)
      \/ /\ t.pc = "select" /\ OurHeight + 1 <= last
         /\ s = Thread("hash", t.node, OurHeight + 1, last, <<>>)
      \/ /\ t.pc = "hash" /\ t.at <= Len(tip[t.node])
         /\ s = Thread("block", t.node, t.at, t.last, Ancestor(tip[t.node], t.at))

\* The rows stay as they are and the thread of worker w goes on at s.
Moves(w, s) ==
  /\ UNCHANGED <<tip, blocks, transactions, tx_inputs>>
  /\ sync' = [sync EXCEPT ![w] = s]

\* The thread of worker w passes over its height.
Skips(w) ==
  /\ sync[w].pc \in {"hash", "block"}
  /\ Moves(w, NextHeight(sync[w]))
  /\ skipped' = skipped \cup {sync[w].at}

\* Every step: it leaves chains, tables and threads alone, a node advances, a
\* thread reads, passes over a height, or stores a block.
LEMMA StepIs ==
  ASSUME [Next]_vars
  PROVE  \/ UNCHANGED <<tip, blocks, transactions, tx_inputs, sync, skipped>>
         \/ \E n \in Nodes, p \in Paths : NodeAdvances(n, p)
         \/ \E w \in Workers : \E s : Moves(w, s) /\ Reads(w, s) /\ skipped' = skipped
         \/ \E w \in Workers : Skips(w)
         \/ \E w \in Workers : SyncStores(w)
<1> DEFINE Goal == \/ UNCHANGED <<tip, blocks, transactions, tx_inputs, sync, skipped>>
                   \/ \E n \in Nodes, p \in Paths : NodeAdvances(n, p)
                   \/ \E w \in Workers : \E s : Moves(w, s) /\ Reads(w, s) /\ skipped' = skipped
                   \/ \E w \in Workers : Skips(w)
                   \/ \E w \in Workers : SyncStores(w)
<1> SUFFICES Goal  OBVIOUS
<1>1. ASSUME UNCHANGED <<tip, blocks, transactions, tx_inputs, sync, skipped>> PROVE Goal  BY <1>1
<1>r. ASSUME NEW w \in Workers, NEW s, Moves(w, s), Reads(w, s), skipped' = skipped
      PROVE  Goal
  BY <1>r
<1>k. ASSUME NEW w \in Workers, Skips(w) PROVE Goal  BY <1>k
<1>s. ASSUME NEW w \in Workers, SyncStores(w) PROVE Goal  BY <1>s
<1>n. ASSUME NEW n \in Nodes, NEW p \in Paths, NodeAdvances(n, p) PROVE Goal  BY <1>n
<1> HIDE DEF Goal
<1>2. ASSUME NEW w \in Workers, SyncStep(w) PROVE Goal
  <2>1. ASSUME NEW n \in Nodes, SyncPicksNode(w, n) PROVE Goal
    <3>1. Reads(w, Thread("info", n, 0, 0, <<>>))  BY DEF Reads
    <3> QED BY <1>r, <2>1, <3>1 DEF SyncPicksNode, SyncUnchanged, Moves, chains
  <2>2. ASSUME NEW ok, SyncReadsInfo(w, ok) PROVE Goal
    <3> DEFINE s == IF ok THEN Thread("select", sync[w].node, 0, Len(tip[sync[w].node]), <<>>)
                    ELSE Start
    <3>1. Reads(w, s)  BY <2>2 DEF Reads, SyncReadsInfo
    <3>2. Moves(w, s) /\ skipped' = skipped
      BY <2>2 DEF SyncReadsInfo, SyncUnchanged, Moves, chains
    <3> HIDE DEF s
    <3> QED BY <1>r, <3>1, <3>2
  <2>3. ASSUME NEW ok, SyncReadsHash(w, ok) PROVE Goal
    <3> DEFINE found == ok /\ sync[w].at <= Len(tip[sync[w].node])
               s == Thread("block", sync[w].node, sync[w].at, sync[w].last,
                           Ancestor(tip[sync[w].node], sync[w].at))
    <3>1. CASE found
      <4>1. Reads(w, s)  BY <2>3, <3>1 DEF Reads, SyncReadsHash
      <4>2. Moves(w, s) /\ skipped' = skipped
        BY <2>3, <3>1 DEF SyncReadsHash, SyncUnchanged, Moves, chains
      <4> HIDE DEF s
      <4> QED BY <1>r, <4>1, <4>2
    <3>2. CASE ~found
      <4>1. Skips(w)
        BY <2>3, <3>2 DEF SyncReadsHash, SyncUnchanged, Moves, Skips, chains
      <4> QED BY <1>k, <4>1
    <3> QED BY <3>1, <3>2
  <2>4. ASSUME SyncReadsOurs(w) PROVE Goal
    <3> DEFINE last == IF OurHeight + BATCH < sync[w].last THEN OurHeight + BATCH ELSE sync[w].last
               s == IF OurHeight + 1 <= last
                    THEN Thread("hash", sync[w].node, OurHeight + 1, last, <<>>) ELSE Start
    <3>1. Reads(w, s)  BY <2>4 DEF Reads, SyncReadsOurs
    <3>2. Moves(w, s) /\ skipped' = skipped
      BY <2>4 DEF SyncReadsOurs, SyncUnchanged, Moves, chains
    <3> HIDE DEF s
    <3> QED BY <1>r, <3>1, <3>2
  <2>5. ASSUME SyncSkipsBlock(w) PROVE Goal
    <3>1. Skips(w)  BY <2>5 DEF SyncSkipsBlock, SyncUnchanged, Moves, Skips, chains
    <3> QED BY <1>k, <3>1
  <2>6. ASSUME NEW ok, SyncReadsBlock(w, ok) PROVE Goal
    BY <1>s, <2>5, <2>6 DEF SyncReadsBlock
  <2> QED BY <1>2, <2>1, <2>2, <2>3, <2>4, <2>6 DEF SyncStep
<1>3. ASSUME NEW w \in Workers, SyncError(w) \/ Restart(w) PROVE Goal
  <2>1. Reads(w, Start)  BY DEF Reads
  <2> QED BY <1>3, <1>r, <2>1 DEF SyncError, Restart, SyncUnchanged, tables, chains, Moves
<1>4. ASSUME NEW w \in Workers, HealthStarts(w) \/ HealthStep(w) PROVE Goal
  BY <1>1, <1>4 DEF HealthStarts, HealthStep, HealthProbes, tables, chains
<1>5. ASSUME NEW w \in Workers, NEW n \in Nodes,
             \/ ApiPicksNode(w, n) \/ RegisterRemembers(w, n) \/ RegisterSaves(w, n)
             \/ \E info \in Outcomes : RegisterProbes(w, n, info)
      PROVE  Goal
  BY <1>1, <1>5 DEF ApiPicksNode, RegisterRemembers, RegisterSaves, RegisterProbes, tables,
                   chains
<1>6. CASE UNCHANGED vars  BY <1>1, <1>6 DEF vars, tables, chains
<1>7. CASE Next
  <2>1. CASE \E n \in Nodes, p \in Paths : NodeAdvances(n, p)
    BY <1>n, <2>1
  <2>2. ASSUME NEW w \in Workers, \E n \in Nodes : ApiPicksNode(w, n) PROVE Goal
    BY <1>5, <2>2
  <2>3. ASSUME NEW w \in Workers, \E n \in Nodes, info \in Outcomes : RegisterProbes(w, n, info)
        PROVE  Goal
    <3>1. PICK n \in Nodes : \E info \in Outcomes : RegisterProbes(w, n, info)  BY <2>3
    <3> QED BY <1>5, <3>1
  <2>4. ASSUME NEW w \in Workers, \E n \in Nodes : RegisterRemembers(w, n) \/ RegisterSaves(w, n)
        PROVE  Goal
    <3>1. PICK n \in Nodes : RegisterRemembers(w, n) \/ RegisterSaves(w, n)  BY <2>4
    <3> QED BY <1>5, <3>1
  <2>5. CASE ~(\E n \in Nodes, p \in Paths : NodeAdvances(n, p))
    <3>1. PICK w \in Workers :
            \/ SyncStep(w) \/ SyncError(w) \/ HealthStarts(w) \/ HealthStep(w)
            \/ \E n \in Nodes : ApiPicksNode(w, n)
            \/ \E n \in Nodes, info \in Outcomes : RegisterProbes(w, n, info)
            \/ \E n \in Nodes : RegisterRemembers(w, n) \/ RegisterSaves(w, n)
            \/ Restart(w)
      BY <1>7, <2>5 DEF Next
    <3> QED BY <1>2, <1>3, <1>4, <2>2, <2>3, <2>4, <3>1
  <2> QED BY <2>1, <2>5
<1> QED BY <1>6, <1>7

\* The thread after its height was stored or passed over.
LEMMA NextInRange ==
  ASSUME RangeInv, NEW w \in Workers, sync[w].pc \in {"hash", "block"}
  PROVE  NextHeight(sync[w]) \in SyncStates /\ InRange(NextHeight(sync[w]))
<1>1. sync[w] \in SyncStates /\ InRange(sync[w])  BY DEF RangeInv, SyncTyped
<1>2. sync[w].node \in Nodes /\ sync[w].at <= sync[w].last  BY <1>1 DEF InRange
<1>3. CASE NextHeight(sync[w]) = Start
  BY <1>3, StartTyped DEF Start, Thread, InRange
<1>4. CASE NextHeight(sync[w]) # Start
  BY <1>1, <1>2, <1>4, NextHeightFacts DEF InRange
<1> QED BY <1>3, <1>4

\* A thread that reads is well typed and stays within its range.
LEMMA ReadsInRange ==
  ASSUME RangeInv, NEW w \in Workers, NEW s, Reads(w, s)
  PROVE  s \in SyncStates /\ InRange(s)
<1> DEFINE t == sync[w]
           n == t.node
           top == Len(tip[n])
<1>1. t \in SyncStates /\ InRange(t) /\ 0 \in Heights /\ Heights \subseteq Nat
  BY ExplorerAssumption DEF RangeInv, SyncTyped, Heights
<1>2. t.at \in Heights /\ t.last \in Heights /\ t.hash \in Paths
  BY <1>1 DEF SyncStates
<1>3. n \in Nodes => tip[n] \in Paths /\ top \in Heights
  BY PathFacts DEF RangeInv, SyncTyped
<1>4. ASSUME s = Start PROVE s \in SyncStates /\ InRange(s)
  BY <1>4, StartTyped DEF Start, Thread, InRange
<1>5. ASSUME NEW m \in Nodes, s = Thread("info", m, 0, 0, <<>>) PROVE s \in SyncStates /\ InRange(s)
  BY <1>1, <1>5, StartTyped DEF Thread, SyncStates, InRange
<1>6. ASSUME t.pc = "info", s = Thread("select", n, 0, top, <<>>)
      PROVE  s \in SyncStates /\ InRange(s)
  <2>1. n \in Nodes /\ top \in Heights  BY <1>1, <1>3, <1>6 DEF InRange
  <2> HIDE DEF top
  <2>2. s \in SyncStates  BY <1>1, <1>6, <2>1, StartTyped DEF Thread, SyncStates
  <2>3. s.pc = "select" /\ s.node = n  BY <1>6 DEF Thread
  <2> QED BY <2>1, <2>2, <2>3 DEF InRange
<1>7. ASSUME NEW last, last = IF OurHeight + BATCH < t.last THEN OurHeight + BATCH ELSE t.last,
             t.pc = "select", OurHeight + 1 <= last,
             s = Thread("hash", n, OurHeight + 1, last, <<>>)
      PROVE  s \in SyncStates /\ InRange(s)
  <2>1. OurHeight \in Int /\ OurHeight >= -1
    BY OurHeightIs DEF RangeInv, SyncTyped
  <2>2. n \in Nodes  BY <1>1, <1>7 DEF InRange
  <2>3. last \in Heights
    BY <1>2, <1>7, <2>1, ExplorerAssumption DEF Heights
  <2>4. OurHeight + 1 \in Heights
    BY <1>7, <2>1, <2>3, ExplorerAssumption DEF Heights
  <2>5. s \in SyncStates  BY <1>7, <2>2, <2>3, <2>4, StartTyped DEF Thread, SyncStates
  <2>6. s.pc = "hash" /\ s.node = n /\ s.last = last /\ s.at = OurHeight + 1  BY <1>7 DEF Thread
  <2> QED BY <1>7, <2>2, <2>5, <2>6 DEF InRange
<1>8. ASSUME t.pc = "hash", t.at <= top,
             s = Thread("block", n, t.at, t.last, Ancestor(tip[n], t.at))
      PROVE  s \in SyncStates /\ InRange(s)
  <2>1. n \in Nodes /\ t.at <= t.last  BY <1>1, <1>8 DEF InRange
  <2>2. t.at \in 0..top
    <3>1. t.at \in Nat /\ top \in Nat  BY <1>1, <1>2, <1>3, <2>1
    <3> HIDE DEF top, t
    <3> QED BY <1>8, <3>1
  <2>3. Ancestor(tip[n], t.at) \in Paths /\ Len(Ancestor(tip[n], t.at)) = t.at
    BY <1>3, <2>1, <2>2, AncestorLen
  <2>4. s \in SyncStates  BY <1>2, <1>8, <2>1, <2>3 DEF Thread, SyncStates
  <2>5. /\ s.pc = "block" /\ s.node = n /\ s.last = t.last /\ s.at = t.at
        /\ s.hash = Ancestor(tip[n], t.at)
    BY <1>8 DEF Thread
  <2> QED BY <2>1, <2>3, <2>4, <2>5 DEF InRange
<1> QED BY <1>4, <1>5, <1>6, <1>7, <1>8 DEF Reads

\* A block is stored at its own height, and the thread goes on to the next.
LEMMA StoresAt ==
  ASSUME RangeInv, NEW w \in Workers, SyncStores(w)
  PROVE  /\ sync[w].pc = "block"
         /\ sync[w].at \in Heights /\ sync[w].hash \in Paths /\ Len(sync[w].hash) = sync[w].at
         /\ blocks' = With(blocks, sync[w].at, sync[w].hash)
         /\ DOMAIN blocks' = DOMAIN blocks \cup {sync[w].at}
         /\ UNCHANGED <<tip, skipped>>
         /\ sync' = [sync EXCEPT ![w] = NextHeight(sync[w])]
<1>1. sync[w].pc = "block" /\ sync[w] \in SyncStates /\ InRange(sync[w])
  BY DEF SyncStores, RangeInv, SyncTyped
<1>2. sync[w].at \in Heights /\ sync[w].hash \in Paths  BY <1>1 DEF SyncStates
<1>3. Len(sync[w].hash) = sync[w].at  BY <1>1 DEF InRange
<1>4. blocks' = With(blocks, sync[w].at, sync[w].hash)  BY DEF SyncStores
<1>5. DOMAIN blocks' = DOMAIN blocks \cup {sync[w].at}  BY <1>4 DEF With
<1>6. UNCHANGED <<tip, skipped>> /\ sync' = [sync EXCEPT ![w] = NextHeight(sync[w])]
  BY DEF SyncStores, SyncUnchanged, chains
<1> QED BY <1>1, <1>2, <1>3, <1>4, <1>5, <1>6

\* The idle threads have no range.
LEMMA RangeInit == Init => RangeInv
<1> SUFFICES ASSUME Init PROVE RangeInv  OBVIOUS
<1>1. DOMAIN blocks = {}  BY DEF Init
<1>2. SyncTyped  BY <1>1, StartTyped DEF Init, SyncTyped
<1>3. ASSUME NEW w \in Workers PROVE InRange(sync[w])  BY DEF Init, InRange, Start, Thread
<1> QED BY <1>1, <1>2, <1>3 DEF RangeInv, Stored

\* What every step preserves: types, ranges and the heights of the stored rows.
LEMMA RangeStep ==
  ASSUME RangeInv, [Next]_vars
  PROVE  RangeInv'
<1>1. ASSUME UNCHANGED <<blocks, sync>>, tip' \in [Nodes -> Paths] PROVE RangeInv'
  BY <1>1 DEF RangeInv, SyncTyped, Stored, InRange
<1>2. ASSUME NEW n \in Nodes, NEW p \in Paths, NodeAdvances(n, p) PROVE RangeInv'
  <2>1. UNCHANGED <<blocks, sync>> /\ tip' = [tip EXCEPT ![n] = p]
    BY <1>2 DEF NodeAdvances, tables
  <2> QED BY <1>1, <2>1 DEF RangeInv, SyncTyped
<1>3. ASSUME NEW w \in Workers, NEW s \in SyncStates, InRange(s), Moves(w, s)
      PROVE  RangeInv'
  <2>1. SyncTyped' /\ Stored'  BY <1>3 DEF RangeInv, SyncTyped, Stored, Moves
  <2>2. ASSUME NEW v \in Workers PROVE InRange(sync[v])'
    <3>1. sync'[v] = s \/ sync'[v] = sync[v]  BY <1>3 DEF RangeInv, SyncTyped, Moves
    <3>2. InRange(sync'[v])  BY <1>3, <3>1 DEF RangeInv
    <3> QED BY <3>2 DEF InRange
  <2> QED BY <2>1, <2>2 DEF RangeInv
<1>4. ASSUME NEW w \in Workers, Skips(w) PROVE RangeInv'
  BY <1>3, <1>4, NextInRange DEF Skips
<1>5. ASSUME NEW w \in Workers, SyncStores(w) PROVE RangeInv'
  <2> DEFINE s == NextHeight(sync[w])
             h == sync[w].at
             p == sync[w].hash
  <2>1. /\ h \in Heights /\ p \in Paths /\ Len(p) = h /\ sync[w].pc = "block"
        /\ blocks' = With(blocks, h, p) /\ DOMAIN blocks' = DOMAIN blocks \cup {h}
        /\ tip' = tip /\ sync' = [sync EXCEPT ![w] = s]
    BY <1>5, StoresAt
  <2>2. s \in SyncStates /\ InRange(s)  BY <2>1, NextInRange
  <2> HIDE DEF s, h, p
  <2>3. SyncTyped'  BY <2>1, <2>2 DEF RangeInv, SyncTyped
  <2>4. ASSUME NEW i \in DOMAIN blocks' PROVE blocks'[i] \in Paths /\ Len(blocks'[i]) = i
    BY <2>1, <2>4 DEF With, RangeInv, Stored
  <2>5. ASSUME NEW v \in Workers PROVE InRange(sync[v])'
    <3>1. sync'[v] = s \/ sync'[v] = sync[v]  BY <2>1 DEF RangeInv, SyncTyped
    <3>2. InRange(sync'[v])  BY <2>2, <3>1 DEF RangeInv
    <3> QED BY <3>2 DEF InRange
  <2> QED BY <2>3, <2>4, <2>5 DEF RangeInv, Stored
<1>6. CASE UNCHANGED <<tip, blocks, transactions, tx_inputs, sync, skipped>>
  BY <1>1, <1>6 DEF RangeInv, SyncTyped
<1> QED BY <1>2, <1>3, <1>4, <1>5, <1>6, StepIs, ReadsInRange

-----------------------------------------------------------------------------
(* TypeOK.                                                                  *)

\* A map from nodes to is_active.
Flags(f) == DOMAIN f \subseteq Nodes /\ f \in [DOMAIN f -> BOOLEAN]

\* The tables of the shared database.
TablesTyped ==
  /\ Flags(nodes)
  /\ blocks \in [DOMAIN blocks -> Paths]
  /\ DOMAIN transactions \subseteq Txs /\ transactions \in [DOMAIN transactions -> Paths]
  /\ DOMAIN tx_inputs \subseteq Txs /\ tx_inputs \in [DOMAIN tx_inputs -> BOOLEAN]

\* The globals of worker w.
WorkerTyped(w) ==
  /\ Flags(registered_nodes[w]) /\ Flags(probed[w]) /\ Flags(saving[w])
  /\ primary_node[w] \in Nodes \cup {NoNode}
  /\ health[w] \subseteq DOMAIN registered_nodes[w]

\* Every worker has its globals.
Indexed ==
  /\ DOMAIN registered_nodes = Workers /\ DOMAIN primary_node = Workers
  /\ DOMAIN health = Workers /\ DOMAIN probed = Workers /\ DOMAIN saving = Workers

TypeInv == RangeInv /\ TablesTyped /\ Indexed /\ \A w \in Workers : WorkerTyped(w)

\* The inductive invariant gives TypeOK.
LEMMA TypeInvOK == TypeInv => TypeOK
  BY DEF TypeInv, RangeInv, SyncTyped, TablesTyped, WorkerTyped, Flags, TypeOK

\* Entering a node in a map, and taking it out.
LEMMA WithFlags ==
  ASSUME NEW f, Flags(f), NEW n \in Nodes, NEW b \in BOOLEAN
  PROVE  Flags(With(f, n, b)) /\ DOMAIN f \subseteq DOMAIN With(f, n, b)
<1>1. DOMAIN With(f, n, b) = DOMAIN f \cup {n}  BY DEF With
<1>2. \A m \in DOMAIN f \cup {n} : With(f, n, b)[m] \in BOOLEAN  BY DEF With, Flags
<1>3. With(f, n, b) \in [DOMAIN f \cup {n} -> BOOLEAN]  BY <1>2 DEF With
<1> QED BY <1>1, <1>3 DEF Flags

\* Taking a node out of a map.
LEMMA WithoutFlags ==
  ASSUME NEW f, Flags(f), NEW n
  PROVE  Flags(Without(f, n))
  BY DEF Flags, Without

\* The initial tables and workers are well typed.
LEMMA TypeInit == Init => TypeInv
<1> SUFFICES ASSUME Init PROVE TypeInv  OBVIOUS
<1>1. RangeInv  BY RangeInit
<1>2. Flags(<<>>)  BY DEF Flags
<1>3. TablesTyped  BY <1>2 DEF Init, TablesTyped
<1>4. Indexed  BY DEF Init, Indexed
<1>5. ASSUME NEW w \in Workers PROVE WorkerTyped(w)  BY <1>2 DEF Init, WorkerTyped
<1> QED BY <1>1, <1>3, <1>4, <1>5 DEF TypeInv

\* A step of one worker leaves the globals of the others alone.
LEMMA OthersKeep ==
  ASSUME TypeInv, NEW w \in Workers, WorkerTyped(w)',
         \A v \in Workers \ {w} :
           /\ registered_nodes'[v] = registered_nodes[v] /\ primary_node'[v] = primary_node[v]
           /\ health'[v] = health[v] /\ probed'[v] = probed[v] /\ saving'[v] = saving[v]
  PROVE  \A v \in Workers : WorkerTyped(v)'
<1> TAKE v \in Workers
<1>1. CASE v = w  BY <1>1
<1>2. CASE v # w  BY <1>2 DEF TypeInv, WorkerTyped
<1> QED BY <1>1, <1>2

\* The transactions of a block, and those of them that spend.
LEMMA TxsTyped ==
  ASSUME NEW p \in Paths
  PROVE  TxsOf(p) \subseteq Txs /\ Spends(p) \subseteq Txs
<1>1. Coinbase(p) \in Txs  BY DEF Txs
<1>2. ASSUME Len(p) = 2 PROVE Spend(Ancestor(p, 1)) \in Txs
  <2>1. 1 \in 0..Len(p)  BY <1>2
  <2>2. Ancestor(p, 1) \in Paths  BY <2>1, PathFacts
  <2> QED BY <2>2 DEF Txs
<1> QED BY <1>1, <1>2 DEF TxsOf, Spends

\* Storing a block keeps the tables well typed.
LEMMA StoreTyped ==
  ASSUME TypeInv, NEW w \in Workers, SyncStores(w)
  PROVE  TablesTyped'
<1> DEFINE h == sync[w].at
           p == sync[w].hash
<1>1. p \in Paths /\ blocks' = With(blocks, h, p)  BY StoresAt DEF TypeInv
<1>2. TxsOf(p) \subseteq Txs /\ Spends(p) \subseteq Txs  BY <1>1, TxsTyped
<1>3. /\ transactions' = [t \in DOMAIN transactions \cup TxsOf(p) |->
                            IF t \in TxsOf(p) THEN p ELSE transactions[t]]
      /\ tx_inputs' = [t \in DOMAIN tx_inputs \cup Spends(p) |->
                         IF t \in Spends(p) THEN Coinbase(t.of) \in DOMAIN transactions
                         ELSE tx_inputs[t]]
      /\ nodes' = nodes
  BY DEF SyncStores, SyncUnchanged
<1> HIDE DEF h, p
<1>4. blocks' \in [DOMAIN blocks' -> Paths]  BY <1>1 DEF TypeInv, TablesTyped, With
<1>5. DOMAIN transactions' \subseteq Txs /\ transactions' \in [DOMAIN transactions' -> Paths]
  BY <1>1, <1>2, <1>3 DEF TypeInv, TablesTyped
<1>6. DOMAIN tx_inputs' = DOMAIN tx_inputs \cup Spends(p)  BY <1>3
<1>7. \A t \in DOMAIN tx_inputs' : tx_inputs'[t] \in BOOLEAN
  <2> TAKE t \in DOMAIN tx_inputs'
  <2>1. (Coinbase(t.of) \in DOMAIN transactions) \in BOOLEAN  OBVIOUS
  <2>2. CASE t \in Spends(p)
    <3>1. tx_inputs'[t] = (Coinbase(t.of) \in DOMAIN transactions)  BY <1>3, <1>6, <2>2
    <3> QED BY <3>1, <2>1
  <2>3. CASE t \notin Spends(p)
    <3>1. t \in DOMAIN tx_inputs /\ tx_inputs'[t] = tx_inputs[t]  BY <1>3, <1>6, <2>3
    <3> QED BY <3>1 DEF TypeInv, TablesTyped
  <2> QED BY <2>2, <2>3
<1>8. tx_inputs' = [t \in DOMAIN tx_inputs' |-> tx_inputs'[t]]  BY <1>3
<1>9. tx_inputs' \in [DOMAIN tx_inputs' -> BOOLEAN]  BY <1>7, <1>8
<1> QED BY <1>2, <1>3, <1>4, <1>5, <1>6, <1>9 DEF TypeInv, TablesTyped

\* Every step keeps the types.
LEMMA TypeStep ==
  ASSUME TypeInv, [Next]_vars
  PROVE  TypeInv'
<1>0. RangeInv' /\ Indexed /\ TablesTyped /\ \A w \in Workers : WorkerTyped(w)
  BY RangeStep DEF TypeInv
<1> DEFINE Rest == TablesTyped' /\ Indexed' /\ \A w \in Workers : WorkerTyped(w)'
<1> SUFFICES Rest  BY <1>0 DEF TypeInv
<1>t. ASSUME UNCHANGED tables PROVE TablesTyped'  BY <1>0, <1>t DEF tables, TablesTyped, Flags
<1>g. ASSUME UNCHANGED <<registered_nodes, primary_node, health, probed, saving>>
      PROVE  Indexed' /\ \A w \in Workers : WorkerTyped(w)'
  BY <1>0, <1>g DEF Indexed, WorkerTyped, Flags
<1>1. ASSUME NEW n \in Nodes, NEW p \in Paths, NodeAdvances(n, p) PROVE Rest
  BY <1>1, <1>t, <1>g DEF NodeAdvances
<1>2. ASSUME NEW w \in Workers, SyncStores(w) PROVE Rest
  BY <1>2, <1>g, StoreTyped DEF SyncStores, SyncUnchanged
<1>3. ASSUME NEW w \in Workers, NEW n \in Nodes,
             primary_node' = [primary_node EXCEPT ![w] = n],
             UNCHANGED <<tables, registered_nodes, health, probed, saving>>
      PROVE  Rest
  <2>1. TablesTyped'  BY <1>3, <1>t
  <2>2. Indexed'  BY <1>0, <1>3 DEF Indexed
  <2>3. WorkerTyped(w)'  BY <1>0, <1>3 DEF WorkerTyped, Indexed, Flags
  <2> QED BY <1>0, <1>3, <2>1, <2>2, <2>3, OthersKeep DEF Indexed
<1>4. ASSUME NEW w \in Workers, NEW n \in Nodes, SyncPicksNode(w, n) \/ ApiPicksNode(w, n) PROVE Rest
  BY <1>3, <1>4 DEF SyncPicksNode, ApiPicksNode, SyncUnchanged, tables
<1>5. ASSUME NEW w \in Workers, NEW ok \in Outcomes,
             \/ SyncReadsInfo(w, ok) \/ SyncReadsHash(w, ok) \/ SyncReadsOurs(w)
             \/ SyncSkipsBlock(w) \/ SyncError(w)
      PROVE  Rest
  BY <1>5, <1>t, <1>g DEF SyncReadsInfo, SyncReadsHash, SyncReadsOurs, SyncSkipsBlock, SyncError,
                          SyncUnchanged, tables
<1>6. ASSUME NEW w \in Workers, HealthStarts(w) PROVE Rest
  <2>1. TablesTyped'  BY <1>6, <1>t DEF HealthStarts
  <2>2. Indexed'  BY <1>0, <1>6 DEF Indexed, HealthStarts
  <2>3. WorkerTyped(w)'  BY <1>0, <1>6 DEF WorkerTyped, Indexed, Flags, HealthStarts
  <2> QED BY <1>0, <1>6, <2>1, <2>2, <2>3, OthersKeep DEF Indexed, HealthStarts
<1>7. ASSUME NEW w \in Workers, NEW n, NEW info \in Outcomes, HealthProbes(w, n, info) PROVE Rest
  <2>0. info \in BOOLEAN  BY ExplorerAssumption DEF Outcomes
  <2>1. TablesTyped'  BY <1>7, <1>t DEF HealthProbes
  <2>2. Indexed'  BY <1>0, <1>7 DEF Indexed, HealthProbes
  <2>3. Flags(registered_nodes[w]) /\ n \in DOMAIN registered_nodes[w]
    BY <1>0, <1>7 DEF HealthProbes, WorkerTyped
  <2>4. registered_nodes'[w] = [registered_nodes[w] EXCEPT ![n] = info]
    BY <1>0, <1>7 DEF HealthProbes, Indexed
  <2>5. Flags(registered_nodes'[w]) /\ DOMAIN registered_nodes'[w] = DOMAIN registered_nodes[w]
    BY <2>0, <2>3, <2>4 DEF Flags
  <2>6. WorkerTyped(w)'
    BY <1>0, <1>7, <2>5 DEF WorkerTyped, Indexed, Flags, HealthProbes
  <2> QED BY <1>0, <1>7, <2>1, <2>2, <2>6, OthersKeep DEF Indexed, HealthProbes
<1>8. ASSUME NEW w \in Workers, NEW n \in Nodes, NEW info \in Outcomes, RegisterProbes(w, n, info)
      PROVE  Rest
  <2>0. info \in BOOLEAN  BY ExplorerAssumption DEF Outcomes
  <2>1. TablesTyped'  BY <1>8, <1>t DEF RegisterProbes
  <2>2. Indexed'  BY <1>0, <1>8 DEF Indexed, RegisterProbes
  <2>3. Flags(With(probed[w], n, info))  BY <1>0, <2>0, WithFlags DEF WorkerTyped
  <2>4. probed'[w] = With(probed[w], n, info)  BY <1>0, <1>8 DEF RegisterProbes, Indexed
  <2>5. WorkerTyped(w)'
    BY <1>0, <1>8, <2>3, <2>4 DEF WorkerTyped, Flags, RegisterProbes
  <2> QED BY <1>0, <1>8, <2>1, <2>2, <2>5, OthersKeep DEF Indexed, RegisterProbes
<1>9. ASSUME NEW w \in Workers, NEW n \in Nodes, RegisterRemembers(w, n) PROVE Rest
  <2> DEFINE b == probed[w][n]
  <2>0. b \in BOOLEAN  BY <1>0, <1>9 DEF RegisterRemembers, WorkerTyped, Flags
  <2>1. TablesTyped'  BY <1>9, <1>t DEF RegisterRemembers
  <2>2. Indexed'  BY <1>0, <1>9 DEF Indexed, RegisterRemembers
  <2>3. /\ registered_nodes'[w] = With(registered_nodes[w], n, b)
        /\ probed'[w] = Without(probed[w], n) /\ saving'[w] = With(saving[w], n, b)
        /\ health'[w] = {} /\ primary_node'[w] = primary_node[w]
    BY <1>0, <1>9 DEF Indexed, RegisterRemembers, LockFree
  <2> HIDE DEF b
  <2>4. Flags(registered_nodes'[w]) /\ Flags(saving'[w])
    BY <1>0, <2>0, <2>3, WithFlags DEF WorkerTyped
  <2>5. Flags(probed'[w])  BY <1>0, <2>3, WithoutFlags DEF WorkerTyped
  <2>6. WorkerTyped(w)'
    BY <1>0, <2>3, <2>4, <2>5 DEF WorkerTyped, Flags
  <2> QED BY <1>0, <1>9, <2>1, <2>2, <2>6, OthersKeep DEF Indexed, RegisterRemembers
<1>10. ASSUME NEW w \in Workers, NEW n \in Nodes, RegisterSaves(w, n) PROVE Rest
  <2> DEFINE b == saving[w][n]
  <2>0. b \in BOOLEAN  BY <1>0, <1>10 DEF RegisterSaves, WorkerTyped, Flags
  <2>1. nodes' = nodes \/ nodes' = With(nodes, n, b)  BY <1>10 DEF RegisterSaves
  <2>2. Flags(With(nodes, n, b))
    <3> HIDE DEF b
    <3> QED BY <1>0, <2>0, WithFlags DEF TablesTyped
  <2>3. Flags(nodes')  BY <1>0, <2>1, <2>2 DEF TablesTyped
  <2>4. TablesTyped'  BY <1>0, <1>10, <2>3 DEF TablesTyped, RegisterSaves, Flags
  <2>5. Indexed'  BY <1>0, <1>10 DEF Indexed, RegisterSaves
  <2>6. saving'[w] = Without(saving[w], n)  BY <1>0, <1>10 DEF Indexed, RegisterSaves
  <2>7. Flags(saving'[w])  BY <1>0, <2>6, WithoutFlags DEF WorkerTyped
  <2>8. WorkerTyped(w)'  BY <1>0, <1>10, <2>7 DEF WorkerTyped, Flags, RegisterSaves
  <2> QED BY <1>0, <1>10, <2>4, <2>5, <2>8, OthersKeep DEF Indexed, RegisterSaves
<1>11. ASSUME NEW w \in Workers, Restart(w) PROVE Rest
  <2>1. TablesTyped'  BY <1>11, <1>t DEF Restart
  <2>2. Indexed'  BY <1>0, <1>11 DEF Indexed, Restart
  <2>3. Flags(nodes) /\ Flags(<<>>)  BY <1>0 DEF TablesTyped, Flags
  <2>4. /\ registered_nodes'[w] = nodes /\ primary_node'[w] = NoNode /\ health'[w] = {}
        /\ probed'[w] = <<>> /\ saving'[w] = <<>>
    BY <1>0, <1>11 DEF Indexed, Restart
  <2>5. WorkerTyped(w)'  BY <2>3, <2>4 DEF WorkerTyped, Flags
  <2> QED BY <1>0, <1>11, <2>1, <2>2, <2>5, OthersKeep DEF Indexed, Restart
<1>12. CASE UNCHANGED vars  BY <1>12, <1>t, <1>g DEF vars
<1> HIDE DEF Rest
<1>13. ASSUME NEW w \in Workers, SyncStep(w) PROVE Rest
  <2>1. TRUE \in Outcomes  BY DEF Outcomes
  <2>2. ASSUME NEW ok \in Outcomes, SyncReadsBlock(w, ok) PROVE Rest
    BY <1>2, <1>5, <2>2 DEF SyncReadsBlock
  <2> QED BY <1>13, <1>4, <1>5, <2>1, <2>2 DEF SyncStep
<1>14. ASSUME NEW w \in Workers, SyncError(w) PROVE Rest
  <2>1. TRUE \in Outcomes  BY DEF Outcomes
  <2> QED BY <1>14, <1>5, <2>1
<1>15. ASSUME NEW w \in Workers, HealthStep(w) PROVE Rest
  BY <1>7, <1>15 DEF HealthStep
<1>16. CASE Next
  <2>1. CASE \E n \in Nodes, p \in Paths : NodeAdvances(n, p)  BY <1>1, <2>1
  <2>2. CASE ~(\E n \in Nodes, p \in Paths : NodeAdvances(n, p))
    <3>1. PICK w \in Workers :
            \/ SyncStep(w) \/ SyncError(w) \/ HealthStarts(w) \/ HealthStep(w)
            \/ \E n \in Nodes : ApiPicksNode(w, n)
            \/ \E n \in Nodes, info \in Outcomes : RegisterProbes(w, n, info)
            \/ \E n \in Nodes : RegisterRemembers(w, n) \/ RegisterSaves(w, n)
            \/ Restart(w)
      BY <1>16, <2>2 DEF Next
    <3>2. CASE \E n \in Nodes : ApiPicksNode(w, n)  BY <1>4, <3>2
    <3>3. CASE \E n \in Nodes, info \in Outcomes : RegisterProbes(w, n, info)  BY <1>8, <3>3
    <3>4. CASE \E n \in Nodes : RegisterRemembers(w, n) \/ RegisterSaves(w, n)
      BY <1>9, <1>10, <3>4
    <3> QED BY <1>6, <1>11, <1>13, <1>14, <1>15, <3>1, <3>2, <3>3, <3>4
  <2> QED BY <2>1, <2>2
<1> QED BY <1>12, <1>16

(***************************************************************************)
(* TypeOK of Explorer, for every number of workers, nodes and branches,    *)
(* with RPCs that fail, workers that restart and nodes that reorganise to  *)
(* shorter chains: among the rest, no thread of sync_blocks asks for       *)
(* height -1, although its range starts from "MAX(height) or -1", and      *)
(* health_check probes only nodes its worker knows.                        *)
(***************************************************************************)
THEOREM ExplorerTypeCorrect == Spec => []TypeOK
<1>1. TypeInv /\ [Next]_vars => TypeInv'  BY TypeStep
<1> QED BY <1>1, TypeInit, TypeInvOK, PTL DEF Spec

-----------------------------------------------------------------------------
(* The gaps of the table of blocks.                                         *)

\* The heights stored or passed over.
Covered == DOMAIN blocks \cup skipped

\* Below a stored height every height is covered.
Gapless == \A h \in DOMAIN blocks : 0..h \subseteq Covered

\* Below the height a thread is at every height is covered.
Behind(s) == s.pc \in {"hash", "block"} => 0..(s.at - 1) \subseteq Covered

GapInv == RangeInv /\ Gapless /\ \A w \in Workers : Behind(sync[w])

\* The empty table has no gap.
LEMMA GapInit == Init => GapInv
<1> SUFFICES ASSUME Init PROVE GapInv  OBVIOUS
<1>1. RangeInv  BY RangeInit
<1>2. Gapless  BY DEF Init, Gapless
<1>3. ASSUME NEW w \in Workers PROVE Behind(sync[w])  BY DEF Init, Start, Thread, Behind
<1> QED BY <1>1, <1>2, <1>3 DEF GapInv

\* A thread starts above a stored height, and reading does not move it.
LEMMA ReadsBehind ==
  ASSUME GapInv, NEW w \in Workers, NEW s, Reads(w, s)
  PROVE  Behind(s)
<1>1. ASSUME s.pc \notin {"hash", "block"} PROVE Behind(s)  BY <1>1 DEF Behind
<1>2. ASSUME NEW n, NEW k, s = Thread("hash", n, OurHeight + 1, k, <<>>) PROVE Behind(s)
  <2>1. OurHeight \in Int /\ (OurHeight = -1 \/ OurHeight \in DOMAIN blocks)
    BY OurHeightIs DEF GapInv, RangeInv, SyncTyped
  <2>2. s.at = OurHeight + 1  BY <1>2 DEF Thread
  <2>3. s.at - 1 = OurHeight  BY <2>1, <2>2
  <2>4. 0..OurHeight \subseteq Covered
    <3>1. CASE OurHeight = -1  BY <3>1
    <3>2. CASE OurHeight \in DOMAIN blocks  BY <3>2 DEF GapInv, Gapless
    <3> QED BY <2>1, <3>1, <3>2
  <2> QED BY <2>3, <2>4 DEF Behind
<1>3. ASSUME sync[w].pc = "hash", NEW n, NEW k, NEW p, s = Thread("block", n, sync[w].at, k, p)
      PROVE  Behind(s)
  <2>1. s.at = sync[w].at  BY <1>3 DEF Thread
  <2>2. 0..(sync[w].at - 1) \subseteq Covered  BY <1>3 DEF GapInv, Behind
  <2> QED BY <2>1, <2>2 DEF Behind
<1>4. ASSUME s = Start PROVE Behind(s)  BY <1>1, <1>4 DEF Start, Thread
<1>5. ASSUME NEW n, s = Thread("info", n, 0, 0, <<>>) PROVE Behind(s)  BY <1>1, <1>5 DEF Thread
<1>6. ASSUME NEW n, NEW k, s = Thread("select", n, 0, k, <<>>) PROVE Behind(s)
  BY <1>1, <1>6 DEF Thread
<1> QED BY <1>2, <1>3, <1>4, <1>5, <1>6 DEF Reads

\* The thread whose height was stored or passed over goes on behind it.
LEMMA NextBehind ==
  ASSUME GapInv, NEW w \in Workers, sync[w].pc \in {"hash", "block"},
         Covered' = Covered \cup {sync[w].at}, sync' = [sync EXCEPT ![w] = NextHeight(sync[w])]
  PROVE  \A v \in Workers : Behind(sync[v])'
<1>1. /\ sync[w] \in SyncStates /\ sync[w].at \in Nat /\ sync[w].at <= sync[w].last
      /\ DOMAIN sync = Workers
  BY ExplorerAssumption DEF GapInv, RangeInv, SyncTyped, InRange, SyncStates, Heights
<1>2. 0..(sync[w].at - 1) \subseteq Covered  BY DEF GapInv, Behind
<1> TAKE v \in Workers
<1>3. CASE v # w
  <2>1. sync'[v] = sync[v] /\ Behind(sync[v])  BY <1>1, <1>3 DEF GapInv
  <2> QED BY <2>1 DEF Behind
<1>4. CASE v = w
  <2> DEFINE s == NextHeight(sync[w])
  <2>1. sync'[v] = s  BY <1>1, <1>4
  <2>2. s = Start \/ s.at = sync[w].at + 1  BY <1>1, NextHeightFacts
  <2> HIDE DEF s
  <2>3. CASE s = Start  BY <2>1, <2>3 DEF Behind, Start, Thread
  <2>4. CASE s.at = sync[w].at + 1
    <3>1. 0..(s.at - 1) \subseteq Covered'  BY <1>1, <1>2, <2>4
    <3> QED BY <2>1, <3>1 DEF Behind
  <2> QED BY <2>2, <2>3, <2>4
<1> QED BY <1>3, <1>4

\* No step leaves an uncovered height below a stored one.
LEMMA GapStep ==
  ASSUME GapInv, [Next]_vars
  PROVE  GapInv'
<1>0. RangeInv /\ RangeInv' /\ DOMAIN sync = Workers
  BY RangeStep DEF GapInv, RangeInv, SyncTyped
<1>1. ASSUME UNCHANGED <<blocks, sync, skipped>> PROVE GapInv'
  BY <1>0, <1>1 DEF GapInv, Gapless, Covered, Behind
<1>2. ASSUME NEW n \in Nodes, NEW p \in Paths, NodeAdvances(n, p) PROVE GapInv'
  BY <1>1, <1>2 DEF NodeAdvances, tables
<1>3. ASSUME NEW w \in Workers, NEW s, Moves(w, s), Reads(w, s), skipped' = skipped PROVE GapInv'
  <2>1. blocks' = blocks /\ sync' = [sync EXCEPT ![w] = s]  BY <1>3 DEF Moves
  <2>2. Behind(s)  BY <1>3, ReadsBehind
  <2>3. ASSUME NEW v \in Workers PROVE Behind(sync[v])'
    <3>1. sync'[v] = s \/ sync'[v] = sync[v]  BY <1>0, <2>1
    <3>2. Behind(sync'[v])  BY <2>2, <3>1 DEF GapInv
    <3> QED BY <1>3, <2>1, <3>2 DEF Behind, Covered
  <2> QED BY <1>0, <1>3, <2>1, <2>3 DEF GapInv, Gapless, Covered
<1>4. ASSUME NEW w \in Workers, Skips(w) PROVE GapInv'
  <2>1. /\ blocks' = blocks /\ skipped' = skipped \cup {sync[w].at}
        /\ sync' = [sync EXCEPT ![w] = NextHeight(sync[w])] /\ sync[w].pc \in {"hash", "block"}
    BY <1>4 DEF Skips, Moves
  <2>2. Covered' = Covered \cup {sync[w].at}  BY <2>1 DEF Covered
  <2>3. \A v \in Workers : Behind(sync[v])'  BY <2>1, <2>2, NextBehind
  <2>4. Gapless'  BY <2>1, <2>2 DEF GapInv, Gapless
  <2> QED BY <1>0, <2>3, <2>4 DEF GapInv
<1>5. ASSUME NEW w \in Workers, SyncStores(w) PROVE GapInv'
  <2> DEFINE a == sync[w].at
  <2>1. /\ DOMAIN blocks' = DOMAIN blocks \cup {a} /\ skipped' = skipped /\ a \in Heights
        /\ sync' = [sync EXCEPT ![w] = NextHeight(sync[w])] /\ sync[w].pc = "block"
    BY <1>0, <1>5, StoresAt
  <2>2. Covered' = Covered \cup {a}  BY <2>1 DEF Covered
  <2>3. \A v \in Workers : Behind(sync[v])'  BY <2>1, <2>2, NextBehind
  <2>4. 0..(a - 1) \subseteq Covered  BY <2>1 DEF GapInv, Behind
  <2>5. a \in Nat  BY <2>1, ExplorerAssumption DEF Heights
  <2> HIDE DEF a
  <2>6. 0..a \subseteq Covered'  BY <2>2, <2>4, <2>5
  <2>7. ASSUME NEW h \in DOMAIN blocks' PROVE 0..h \subseteq Covered'
    <3>1. CASE h = a  BY <2>6, <3>1
    <3>2. CASE h \in DOMAIN blocks  BY <2>2, <3>2 DEF GapInv, Gapless
    <3> QED BY <2>1, <3>1, <3>2
  <2> QED BY <1>0, <2>3, <2>7 DEF GapInv, Gapless
<1> QED BY <1>1, <1>2, <1>3, <1>4, <1>5, StepIs

(***************************************************************************)
(* GapsAreSkips of Explorer, for any number of gunicorn workers, nodes and *)
(* heights, with failed RPCs, rolled back inserts, restarts and            *)
(* reorganisations: only a `continue` of sync_blocks leaves a gap.         *)
(***************************************************************************)
THEOREM GapsHold == Spec => []GapsAreSkips
<1>1. GapInv => GapsAreSkips
  <2> SUFFICES ASSUME GapInv, NEW h \in Gaps PROVE h \in skipped  BY DEF GapsAreSkips
  <2>1. h \in Nat /\ h \notin DOMAIN blocks  BY ExplorerAssumption DEF Gaps, Heights
  <2>2. PICK k \in DOMAIN blocks : h < k  BY DEF Gaps
  <2>3. k \in Nat
    BY ExplorerAssumption DEF GapInv, RangeInv, SyncTyped, Heights
  <2>4. h \in 0..k  BY <2>1, <2>2, <2>3
  <2>5. h \in Covered  BY <2>4 DEF GapInv, Gapless
  <2> QED BY <2>1, <2>5 DEF Covered
<1>2. GapInv /\ [Next]_vars => GapInv'  BY GapStep
<1> QED BY <1>1, <1>2, GapInit, PTL DEF Spec

-----------------------------------------------------------------------------
(* The balance of the miner.                                                *)

\* The condition of BalanceOfChain.
Clean == skipped = {} /\ OneChain

\* The tables hold the transactions of the stored blocks; what they hold more is of
\* blocks of the stored heights that were replaced; and of every input the output it
\* spends was found, while no height is passed over and no block replaced.
RowsInv ==
  /\ \A h \in DOMAIN blocks : /\ TxsOf(blocks[h]) \subseteq DOMAIN transactions
                              /\ Spends(blocks[h]) \subseteq DOMAIN tx_inputs
  /\ \A t \in DOMAIN transactions : \E p \in Paths :
       t \in TxsOf(p) /\ Coinbase(p) \in DOMAIN transactions /\ Len(p) \in DOMAIN blocks
  /\ \A t \in DOMAIN tx_inputs : \E p \in Paths :
       t \in Spends(p) /\ Coinbase(p) \in DOMAIN transactions /\ Len(p) \in DOMAIN blocks
  /\ Clean => \A t \in DOMAIN tx_inputs : tx_inputs[t]

BalanceInv == GapInv /\ TypeInv /\ RowsInv

\* A path extends itself and no other path of its length.
LEMMA ExtendsSame ==
  ASSUME NEW p \in Paths, NEW q \in Paths, Len(p) = Len(q), Extends(p, q)
  PROVE  p = q
<1>1. PICK k \in Heights : p \in [1..k -> Branches]  BY DEF Paths
<1>2. k \in Nat  BY <1>1, ExplorerAssumption DEF Heights
<1>3. p \in Seq(Branches) /\ Len(p) = k  BY <1>1, <1>2
<1>4. Ancestor(p, Len(p)) = p
  <2>1. Ancestor(p, k) = [i \in 1..k |-> p[i]]  BY <1>2, <1>3 DEF Ancestor
  <2>2. p = [i \in 1..k |-> p[i]]  BY <1>1
  <2> QED BY <1>3, <2>1, <2>2
<1> QED BY <1>4 DEF Extends

\* While the stored blocks are of one chain, a longer one descends from a shorter one.
LEMMA Descends ==
  ASSUME OneChain, NEW p \in Paths, NEW q \in Paths, Coinbase(p) \in DOMAIN transactions,
         Coinbase(q) \in DOMAIN transactions, Len(p) >= Len(q)
  PROVE  Ancestor(p, Len(q)) = q
<1>1. /\ Coinbase(p).kind = "coinbase" /\ Coinbase(p).of = p
      /\ Coinbase(q).kind = "coinbase" /\ Coinbase(q).of = q
  BY DEF Coinbase
<1>2. Extends(p, q) \/ Extends(q, p)  BY <1>1 DEF OneChain
<1>3. CASE Extends(p, q)  BY <1>3 DEF Extends
<1>4. CASE Extends(q, p)
  <2>1. Len(p) \in Nat /\ Len(q) \in Nat  BY PathFacts, ExplorerAssumption DEF Heights
  <2>2. Len(p) = Len(q)  BY <1>4, <2>1 DEF Extends
  <2>3. p = q  BY <1>4, <2>2, ExtendsSame
  <2> QED BY <1>4, <2>3 DEF Extends
<1> QED BY <1>2, <1>3, <1>4

\* A block finds the output it spends: the heights below it are stored already.
LEMMA StoreRows ==
  ASSUME BalanceInv, NEW w \in Workers, SyncStores(w)
  PROVE  RowsInv'
<1> DEFINE p == sync[w].hash
           a == sync[w].at
<1>0. Heights \subseteq Nat  BY ExplorerAssumption DEF Heights
<1>1. /\ p \in Paths /\ Len(p) = a /\ a \in Nat /\ skipped' = skipped
      /\ blocks' = With(blocks, a, p) /\ DOMAIN blocks' = DOMAIN blocks \cup {a}
  <2>1. RangeInv  BY DEF BalanceInv, TypeInv
  <2> QED BY <1>0, <2>1, StoresAt
<1>2. /\ transactions' = [t \in DOMAIN transactions \cup TxsOf(p) |->
                            IF t \in TxsOf(p) THEN p ELSE transactions[t]]
      /\ tx_inputs' = [t \in DOMAIN tx_inputs \cup Spends(p) |->
                         IF t \in Spends(p) THEN Coinbase(t.of) \in DOMAIN transactions
                         ELSE tx_inputs[t]]
      /\ sync[w].pc = "block"
  BY DEF SyncStores
<1>3. 0..(a - 1) \subseteq Covered  BY <1>2 DEF BalanceInv, GapInv, Behind
<1> HIDE DEF p, a
<1>4. blocks'[a] = p /\ \A h \in DOMAIN blocks \ {a} : blocks'[h] = blocks[h]  BY <1>1 DEF With
<1>5. DOMAIN transactions' = DOMAIN transactions \cup TxsOf(p)  BY <1>2
<1>6. DOMAIN tx_inputs' = DOMAIN tx_inputs \cup Spends(p)  BY <1>2
<1>7. Coinbase(p) \in DOMAIN transactions'  BY <1>5 DEF TxsOf
<1>8. ASSUME NEW h \in DOMAIN blocks'
      PROVE  /\ TxsOf(blocks'[h]) \subseteq DOMAIN transactions'
             /\ Spends(blocks'[h]) \subseteq DOMAIN tx_inputs'
  <2>1. CASE h = a  BY <1>4, <1>5, <1>6, <2>1
  <2>2. CASE h # a
    <3>1. h \in DOMAIN blocks /\ blocks'[h] = blocks[h]  BY <1>1, <1>4, <2>2
    <3>2. TxsOf(blocks[h]) \subseteq DOMAIN transactions /\ Spends(blocks[h]) \subseteq DOMAIN tx_inputs
      BY <3>1 DEF BalanceInv, RowsInv
    <3> QED BY <1>5, <1>6, <3>1, <3>2
  <2> QED BY <2>1, <2>2
<1>9. ASSUME NEW t \in DOMAIN transactions'
      PROVE  \E q \in Paths : t \in TxsOf(q) /\ Coinbase(q) \in DOMAIN transactions'
                              /\ Len(q) \in DOMAIN blocks'
  <2>1. CASE t \in TxsOf(p)  BY <1>1, <1>7, <2>1
  <2>2. CASE t \notin TxsOf(p)
    <3>1. PICK q \in Paths : t \in TxsOf(q) /\ Coinbase(q) \in DOMAIN transactions
                             /\ Len(q) \in DOMAIN blocks
      BY <1>5, <2>2 DEF BalanceInv, RowsInv
    <3> QED BY <1>1, <1>5, <3>1
  <2> QED BY <2>1, <2>2
<1>10. ASSUME NEW t \in DOMAIN tx_inputs'
       PROVE  \E q \in Paths : t \in Spends(q) /\ Coinbase(q) \in DOMAIN transactions'
                               /\ Len(q) \in DOMAIN blocks'
  <2>1. CASE t \in Spends(p)  BY <1>1, <1>7, <2>1
  <2>2. CASE t \notin Spends(p)
    <3>1. PICK q \in Paths : t \in Spends(q) /\ Coinbase(q) \in DOMAIN transactions
                             /\ Len(q) \in DOMAIN blocks
      BY <1>6, <2>2 DEF BalanceInv, RowsInv
    <3> QED BY <1>1, <1>5, <3>1
  <2> QED BY <2>1, <2>2
<1>11. ASSUME Clean', NEW t \in DOMAIN tx_inputs' PROVE tx_inputs'[t]
  <2>1. skipped = {} /\ OneChain'  BY <1>1, <1>11 DEF Clean
  <2>2. CASE t \in Spends(p)
    <3>1. Len(p) = 2 /\ t = Spend(Ancestor(p, 1))  BY <2>2 DEF Spends
    <3>2. t.of = Ancestor(p, 1)  BY <3>1 DEF Spend
    <3>3. 1 \in DOMAIN blocks
      <4>1. 1 \in 0..(a - 1)  BY <1>1, <3>1
      <4> QED BY <1>3, <2>1, <4>1 DEF Covered
    <3>4. blocks[1] \in Paths /\ Len(blocks[1]) = 1
      BY <3>3 DEF BalanceInv, TypeInv, RangeInv, Stored
    <3>5. Coinbase(blocks[1]) \in DOMAIN transactions  BY <3>3 DEF BalanceInv, RowsInv, TxsOf
    <3>6. \A s, u \in DOMAIN transactions' : s.kind = "coinbase" /\ u.kind = "coinbase" =>
            Extends(s.of, u.of) \/ Extends(u.of, s.of)
      BY <2>1 DEF OneChain
    <3>7. Extends(p, blocks[1]) \/ Extends(blocks[1], p)
      <4>1. Coinbase(blocks[1]) \in DOMAIN transactions'  BY <1>5, <3>5
      <4> QED BY <1>7, <3>6, <4>1 DEF Coinbase
    <3>8. Ancestor(p, 1) = blocks[1]  BY <3>1, <3>4, <3>7 DEF Extends
    <3>9. tx_inputs'[t] = (Coinbase(t.of) \in DOMAIN transactions)  BY <1>2, <1>6, <2>2
    <3> QED BY <3>2, <3>5, <3>8, <3>9
  <2>3. CASE t \notin Spends(p)
    <3>1. t \in DOMAIN tx_inputs /\ tx_inputs'[t] = tx_inputs[t]  BY <1>2, <1>6, <2>3
    <3>2. OneChain
      <4>1. \A s, u \in DOMAIN transactions' : s.kind = "coinbase" /\ u.kind = "coinbase" =>
              Extends(s.of, u.of) \/ Extends(u.of, s.of)
        BY <2>1 DEF OneChain
      <4> QED BY <1>5, <4>1 DEF OneChain
    <3> QED BY <2>1, <3>1, <3>2 DEF BalanceInv, RowsInv, Clean
  <2> QED BY <2>2, <2>3
<1> QED BY <1>8, <1>9, <1>10, <1>11 DEF RowsInv

\* Every step keeps the rows.
LEMMA RowsStep ==
  ASSUME BalanceInv, [Next]_vars
  PROVE  RowsInv'
<1>1. ASSUME UNCHANGED <<blocks, transactions, tx_inputs>>, skipped \subseteq skipped'
      PROVE  RowsInv'
  <2>1. Clean' => Clean  BY <1>1 DEF Clean, OneChain
  <2> QED BY <1>1, <2>1 DEF BalanceInv, RowsInv
<1>2. ASSUME NEW n \in Nodes, NEW p \in Paths, NodeAdvances(n, p) PROVE RowsInv'
  BY <1>1, <1>2 DEF NodeAdvances, tables
<1>3. ASSUME NEW w \in Workers, NEW s, Moves(w, s), skipped' = skipped PROVE RowsInv'
  BY <1>1, <1>3 DEF Moves
<1>4. ASSUME NEW w \in Workers, Skips(w) PROVE RowsInv'
  BY <1>1, <1>4 DEF Skips, Moves
<1>5. CASE UNCHANGED <<tip, blocks, transactions, tx_inputs, sync, skipped>>
  BY <1>1, <1>5
<1> QED BY <1>2, <1>3, <1>4, <1>5, StepIs, StoreRows

\* The tables hold the transactions and inputs of the stored blocks, all of them and no
\* other, and of every input the output it spends was found.
Complete ==
  /\ \A h \in DOMAIN blocks : /\ TxsOf(blocks[h]) \subseteq DOMAIN transactions
                              /\ Spends(blocks[h]) \subseteq DOMAIN tx_inputs
  /\ \A t \in DOMAIN transactions : \E h \in DOMAIN blocks : t \in TxsOf(blocks[h])
  /\ \A t \in DOMAIN tx_inputs : tx_inputs[t] /\ \E h \in DOMAIN blocks : t \in Spends(blocks[h])

\* While no height is passed over and no block replaced, the tables are those of the
\* stored blocks.
LEMMA CleanComplete ==
  ASSUME BalanceInv, Clean
  PROVE  Complete
<1>1. ASSUME NEW p \in Paths, Coinbase(p) \in DOMAIN transactions, Len(p) \in DOMAIN blocks
      PROVE  blocks[Len(p)] = p
  <2> DEFINE q == blocks[Len(p)]
  <2>1. q \in Paths /\ Len(q) = Len(p)
    BY <1>1 DEF BalanceInv, TypeInv, RangeInv, Stored
  <2>2. Coinbase(q) \in DOMAIN transactions  BY <1>1 DEF BalanceInv, RowsInv, TxsOf
  <2>3. Len(p) \in Nat  BY PathFacts, ExplorerAssumption DEF Heights
  <2> HIDE DEF q
  <2>4. Ancestor(p, Len(q)) = q  BY <1>1, <2>1, <2>2, <2>3, Descends DEF Clean
  <2>5. Extends(p, q)  BY <2>1, <2>3, <2>4 DEF Extends
  <2> QED BY <2>1, <2>5, ExtendsSame DEF q
<1>2. ASSUME NEW t \in DOMAIN transactions PROVE \E h \in DOMAIN blocks : t \in TxsOf(blocks[h])
  <2>1. PICK p \in Paths : t \in TxsOf(p) /\ Coinbase(p) \in DOMAIN transactions
                           /\ Len(p) \in DOMAIN blocks
    BY DEF BalanceInv, RowsInv
  <2> QED BY <1>1, <2>1
<1>3. ASSUME NEW t \in DOMAIN tx_inputs
      PROVE  tx_inputs[t] /\ \E h \in DOMAIN blocks : t \in Spends(blocks[h])
  <2>1. PICK p \in Paths : t \in Spends(p) /\ Coinbase(p) \in DOMAIN transactions
                           /\ Len(p) \in DOMAIN blocks
    BY DEF BalanceInv, RowsInv
  <2>2. tx_inputs[t]  BY DEF BalanceInv, RowsInv
  <2> QED BY <1>1, <2>1, <2>2
<1> QED BY <1>2, <1>3 DEF BalanceInv, RowsInv, Complete

\* The outputs of the miner: as many as blocks.
LEMMA CoinbaseCount ==
  ASSUME BalanceInv, Complete, NEW k \in Nat, DOMAIN blocks = 0..(k - 1)
  PROVE  Cardinality({t \in DOMAIN transactions : t.kind = "coinbase"}) = k
<1> DEFINE C == {t \in DOMAIN transactions : t.kind = "coinbase"}
           f == [h \in 0..(k - 1) |-> Coinbase(blocks[h])]
<1>1. \A h \in 0..(k - 1) : blocks[h] \in Paths /\ Len(blocks[h]) = h
  BY DEF BalanceInv, TypeInv, RangeInv, Stored
<1>2. \A h \in 0..(k - 1) : Coinbase(blocks[h]) \in C
  <2> TAKE h \in 0..(k - 1)
  <2>1. Coinbase(blocks[h]) \in DOMAIN transactions  BY DEF Complete, TxsOf
  <2> QED BY <2>1 DEF Coinbase
<1>3. \A t \in C : \E h \in 0..(k - 1) : f[h] = t
  <2> TAKE t \in C
  <2>1. PICK h \in 0..(k - 1) : t \in TxsOf(blocks[h])  BY DEF Complete
  <2>2. t = Coinbase(blocks[h]) \/ t = Spend(Ancestor(blocks[h], 1))  BY <2>1 DEF TxsOf, Spends
  <2>3. t = Coinbase(blocks[h])  BY <2>2 DEF Spend
  <2> QED BY <2>3
<1>4. \A h, i \in 0..(k - 1) : f[h] = f[i] => h = i
  <2> TAKE h, i \in 0..(k - 1)
  <2> HAVE f[h] = f[i]
  <2>1. Coinbase(blocks[h]).of = blocks[h] /\ Coinbase(blocks[i]).of = blocks[i]  BY DEF Coinbase
  <2>2. blocks[h] = blocks[i]  BY <2>1
  <2> QED BY <1>1, <2>2
<1>5. f \in [0..(k - 1) -> C] /\ DOMAIN f = 0..(k - 1)  BY <1>2
<1> HIDE DEF f, C
<1>6. f \in Bijection(0..(k - 1), C)
  BY <1>3, <1>4, <1>5 DEF Bijection, Injection, Surjection, IsInjective
<1>7. IsFiniteSet(0..(k - 1)) /\ Cardinality(0..(k - 1)) = k
  <2>1. k - 1 \in Int /\ 0 \in Int  OBVIOUS
  <2>2. /\ IsFiniteSet(0..(k - 1))
        /\ Cardinality(0..(k - 1)) = IF 0 > k - 1 THEN 0 ELSE (k - 1) - 0 + 1
    BY <2>1, FS_Interval
  <2> QED BY <2>2
<1>8. Cardinality(C) = Cardinality(0..(k - 1))
  BY <1>6, <1>7, FS_Bijection DEF ExistsBijection
<1> QED BY <1>7, <1>8 DEF C

\* The inputs attributed to the miner: one, once the block that spends is stored.
LEMMA SpendCount ==
  ASSUME BalanceInv, Complete, NEW k \in Nat, DOMAIN blocks = 0..(k - 1)
  PROVE  Cardinality({t \in DOMAIN tx_inputs : tx_inputs[t]}) = IF k > 2 THEN 1 ELSE 0
<1> DEFINE S == {t \in DOMAIN tx_inputs : tx_inputs[t]}
<1>1. \A h \in 0..(k - 1) : Len(blocks[h]) = h
  BY DEF BalanceInv, TypeInv, RangeInv, Stored
<1>2. S = DOMAIN tx_inputs  BY DEF Complete
<1>3. CASE k > 2
  <2>1. 2 \in 0..(k - 1)  BY <1>3
  <2>2. Spends(blocks[2]) = {Spend(Ancestor(blocks[2], 1))}  BY <1>1, <2>1 DEF Spends
  <2>3. Spends(blocks[2]) \subseteq S  BY <1>2, <2>1 DEF Complete
  <2>4. \A t \in S : t \in Spends(blocks[2])
    <3> TAKE t \in S
    <3>1. PICK h \in 0..(k - 1) : t \in Spends(blocks[h])  BY DEF Complete
    <3>2. h = 2  BY <1>1, <3>1 DEF Spends
    <3> QED BY <3>1, <3>2
  <2>5. S = {Spend(Ancestor(blocks[2], 1))}  BY <2>2, <2>3, <2>4
  <2>6. Cardinality(S) = 1  BY <2>5, FS_Singleton
  <2> QED BY <1>3, <2>6
<1>4. CASE ~(k > 2)
  <2>1. \A t \in S : FALSE
    <3> TAKE t \in S
    <3>1. PICK h \in 0..(k - 1) : t \in Spends(blocks[h])  BY DEF Complete
    <3>2. h = 2  BY <1>1, <3>1 DEF Spends
    <3> QED BY <1>4, <3>2
  <2>2. S = {}  BY <2>1
  <2>3. Cardinality(S) = 0  BY <2>2, FS_EmptySet
  <2> QED BY <1>4, <2>3
<1> QED BY <1>3, <1>4

\* The tables that are complete give the balance of the stored chain.
LEMMA BalanceOf == BalanceInv => BalanceOfChain
<1> SUFFICES ASSUME BalanceInv, Clean, blocks # <<>>
             PROVE  Balance = ChainBalance(blocks[Max(DOMAIN blocks)])
  BY DEF BalanceOfChain, BalanceCorrect, Clean
<1>1. DOMAIN blocks \subseteq Heights /\ Heights \subseteq Nat
  BY ExplorerAssumption DEF BalanceInv, TypeInv, RangeInv, SyncTyped, Heights
<1>2. DOMAIN blocks # {}
  <2> SUFFICES ASSUME DOMAIN blocks = {} PROVE FALSE  OBVIOUS
  <2>1. blocks = [h \in DOMAIN blocks |-> blocks[h]]  BY DEF BalanceInv, TypeInv, TablesTyped
  <2> QED BY <2>1
<1> DEFINE m == Max(DOMAIN blocks)
<1>3. m \in DOMAIN blocks /\ m \in Nat /\ \A h \in DOMAIN blocks : h <= m
  BY <1>1, <1>2, MaxHeightIn
<1>4. 0..m \subseteq DOMAIN blocks
  <2>1. Covered = DOMAIN blocks  BY DEF Clean, Covered
  <2> QED BY <1>3, <2>1 DEF BalanceInv, GapInv, Gapless
<1> HIDE DEF m
<1>5. DOMAIN blocks = 0..m
  <2>1. \A h \in DOMAIN blocks : h \in 0..m  BY <1>1, <1>3
  <2> QED BY <1>4, <2>1
<1>6. m + 1 \in Nat /\ DOMAIN blocks = 0..((m + 1) - 1)  BY <1>3, <1>5
<1>7. Complete  BY CleanComplete
<1>8. Cardinality({t \in DOMAIN transactions : t.kind = "coinbase"}) = m + 1
  BY <1>6, <1>7, CoinbaseCount
<1>9. Cardinality({t \in DOMAIN tx_inputs : tx_inputs[t]}) = IF m + 1 > 2 THEN 1 ELSE 0
  BY <1>6, <1>7, SpendCount
<1>10. Len(blocks[m]) = m  BY <1>3 DEF BalanceInv, TypeInv, RangeInv, Stored
<1>11. Balance = (m + 1) - (IF m + 1 > 2 THEN 1 ELSE 0)  BY <1>8, <1>9 DEF Balance
<1>12. ChainBalance(blocks[m]) = m + 1 - (IF m >= 2 THEN 1 ELSE 0)  BY <1>10 DEF ChainBalance
<1> QED BY <1>3, <1>11, <1>12 DEF m

(***************************************************************************)
(* BalanceOfChain of Explorer: api_address shows the miner's balance in    *)
(* the stored chain, whichever worker stores a height, with rollbacks and  *)
(* restarts at any point, as long as no height was passed over and no      *)
(* reorganisation replaced a block that had been stored.  That the table   *)
(* has no gap then is what makes it so: an input finds the output it       *)
(* spends only if the height of that output was stored before.             *)
(***************************************************************************)
THEOREM BalanceHolds == Spec => []BalanceOfChain
<1>1. Init => BalanceInv
  <2> SUFFICES ASSUME Init PROVE RowsInv
    BY GapInit, TypeInit DEF BalanceInv
  <2> QED BY DEF Init, RowsInv
<1>2. BalanceInv /\ [Next]_vars => BalanceInv'
  BY GapStep, TypeStep, RowsStep DEF BalanceInv
<1> QED BY <1>1, <1>2, BalanceOf, PTL DEF Spec

=============================================================================
