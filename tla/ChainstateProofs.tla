-------------------------- MODULE ChainstateProofs --------------------------
(***************************************************************************)
(* The chain state for every tree of blocks and any number of crashes.     *)
(***************************************************************************)
EXTENDS Chainstate, FiniteSetTheorems, WellFoundedInduction, TLAPS

(* The chains of the tree.                                                  *)

\* Sets of blocks that hold the parents of their members.
Closed(S) == \A x \in S \ {Genesis} : Parent[x] \in S

\* The least such set with b in it.
Ancestors(b) == {y \in Blocks : \A S \in SUBSET Blocks : b \in S /\ Closed(S) => y \in S}

\* A block other than the first has a parent in the tree.
LEMMA ParentBlock ==
  ASSUME NEW b \in Blocks, b # Genesis
  PROVE  Parent[b] \in Blocks
BY TreeAssumption

\* Ancestors satisfies the equation by which Chain is defined.
LEMMA AncestorsOf ==
  ASSUME NEW b \in Blocks
  PROVE  Ancestors(b) = IF b = Genesis THEN {b} ELSE Ancestors(Parent[b]) \cup {b}
<1>1. CASE b = Genesis
  <2>1. Closed({b}) /\ {b} \in SUBSET Blocks  BY <1>1 DEF Closed
  <2> QED BY <1>1, <2>1 DEF Ancestors
<1>2. CASE b # Genesis
  <2>0. Parent[b] \in Blocks  BY <1>2, ParentBlock
  <2>1. ASSUME NEW y \in Ancestors(b), y # b
        PROVE  y \in Ancestors(Parent[b])
    <3> SUFFICES ASSUME NEW S \in SUBSET Blocks, Parent[b] \in S, Closed(S)
                 PROVE  y \in S
      BY <2>1 DEF Ancestors
    <3>1. S \cup {b} \in SUBSET Blocks /\ b \in S \cup {b} /\ Closed(S \cup {b})
      BY DEF Closed
    <3>2. y \in S \cup {b}  BY <3>1 DEF Ancestors
    <3> QED BY <2>1, <3>2
  <2>2. ASSUME NEW y \in Ancestors(Parent[b])
        PROVE  y \in Ancestors(b)
    <3> SUFFICES ASSUME NEW S \in SUBSET Blocks, b \in S, Closed(S)
                 PROVE  y \in S
      BY DEF Ancestors
    <3>1. Parent[b] \in S  BY <1>2 DEF Closed
    <3> QED BY <3>1 DEF Ancestors
  <2>3. b \in Ancestors(b)  BY DEF Ancestors
  <2> QED BY <1>2, <2>1, <2>2, <2>3
<1> QED BY <1>1, <1>2

\* Chain is defined: it satisfies its own equation.
LEMMA ChainOf ==
  ASSUME NEW b \in Blocks
  PROVE  Chain[b] = IF b = Genesis THEN {b} ELSE Chain[Parent[b]] \cup {b}
<1> DEFINE F(f) == [x \in Blocks |-> IF x = Genesis THEN {x} ELSE f[Parent[x]] \cup {x}]
           A == [x \in Blocks |-> Ancestors(x)]
<1>1. A = F(A)
  <2>1. \A x \in Blocks : A[x] = IF x = Genesis THEN {x} ELSE A[Parent[x]] \cup {x}
    <3> SUFFICES ASSUME NEW x \in Blocks
                 PROVE  A[x] = IF x = Genesis THEN {x} ELSE A[Parent[x]] \cup {x}
      OBVIOUS
    <3>1. x # Genesis => A[Parent[x]] = Ancestors(Parent[x])  BY ParentBlock
    <3> QED BY <3>1, AncestorsOf
  <2> QED BY <2>1
<1>2. Chain = CHOOSE f : f = F(f)  BY DEF Chain
<1>3. Chain = F(Chain)
  <2> HIDE DEF F, A
  <2> QED BY <1>1, <1>2
<1> QED BY <1>3

-----------------------------------------------------------------------------
(* Where the node is, and what it has on disk.                              *)

\* The chain of b is in the index, with undo data for all of it but the first block.
Complete(index, undone, b) ==
  Chain[b] \subseteq index /\ Chain[b] \ {Genesis} \subseteq DOMAIN undone

\* The types of the control state.
Places ==
  /\ bestBlock \in Blocks \cup {NoBlock}
  /\ headBlocks = <<>> \/ headBlocks \in Blocks \X (Blocks \cup {NoBlock})
  /\ diskIndex \subseteq Blocks /\ DOMAIN diskUndo \subseteq Blocks
  /\ pc \in {"idle", "if_needed", "coins", "replay", "down", "failed"}
  /\ blockIndex \subseteq Blocks /\ DOMAIN undo \subseteq Blocks
  /\ pc \in {"idle", "if_needed", "coins", "replay"} => hashBlock \in Blocks
  /\ pc = "idle" => tip = hashBlock

\* A database in transition is being continued towards its first head, or waits
\* for the next start.
Targeted ==
  /\ pc \in {"coins", "replay"} /\ headBlocks # <<>> => headBlocks[1] = hashBlock
  /\ pc \in {"idle", "if_needed"} => headBlocks = <<>>

\* What the coins database says of itself, the block index can tell more about.
OnDisk ==
  /\ bestBlock # NoBlock => Complete(diskIndex, diskUndo, bestBlock)
  /\ headBlocks # <<>> =>
       /\ Complete(diskIndex, diskUndo, headBlocks[1])
       /\ headBlocks[2] # NoBlock => Complete(diskIndex, diskUndo, headBlocks[2])

\* Memory knows what the disk knows, and the disk what the coins being written need.
InMemory ==
  /\ pc \in {"idle", "if_needed", "coins"} => Complete(blockIndex, undo, hashBlock)
  /\ pc \in {"idle", "if_needed", "coins", "replay"} =>
       diskIndex \subseteq blockIndex /\ DOMAIN diskUndo \subseteq DOMAIN undo
  /\ pc \in {"coins", "replay"} => Complete(diskIndex, diskUndo, hashBlock)

\* The invariant of the start and of the write order.
DiskInv == Places /\ Targeted /\ OnDisk /\ InMemory

\* More index and more undo data keep a chain complete.
LEMMA CompleteGrows ==
  ASSUME NEW i, NEW j, NEW u, NEW v, NEW b, i \subseteq j, DOMAIN u \subseteq DOMAIN v,
         Complete(i, u, b)
  PROVE  Complete(j, v, b)
BY DEF Complete

\* Every step keeps the invariant.
LEMMA DiskStep ==
  ASSUME DiskInv, [Next]_vars
  PROVE  DiskInv'
<1> USE DEF DiskInv
<1>0. NoBlock \notin Blocks /\ Genesis \in Blocks  BY StateAssumption, TreeAssumption
<1>1. ASSUME NEW b \in Blocks, AcceptBlock(b) PROVE DiskInv'
  <2>1. /\ UNCHANGED <<bestBlock, headBlocks, diskIndex, diskUndo, pc, undo, tip, hashBlock>>
        /\ blockIndex' = blockIndex \cup {b}
    BY <1>1 DEF AcceptBlock, coinsDb, indexDb
  <2> QED BY <2>1 DEF Places, Targeted, OnDisk, InMemory, Complete
<1>2. ASSUME NEW b \in Blocks, ConnectTip(b) PROVE DiskInv'
  <2>1. /\ UNCHANGED <<bestBlock, headBlocks, diskIndex, diskUndo, tip, blockIndex>>
        /\ pc = "idle" /\ b \in blockIndex \ {Genesis} /\ Parent[b] = tip
        /\ hashBlock' = b /\ pc' = "if_needed"
        /\ DOMAIN undo' = DOMAIN undo \cup {b}
    BY <1>2 DEF ConnectTip, coinsDb, indexDb
  <2>2. Complete(blockIndex', undo', hashBlock')
    <3>1. Chain[b] = Chain[tip] \cup {b}  BY <2>1, ChainOf
    <3>2. Complete(blockIndex, undo, tip)  BY <2>1 DEF Places, InMemory
    <3> QED BY <2>1, <3>1, <3>2 DEF Complete
  <2>3. Places'  BY <2>1 DEF Places
  <2>4. Targeted'  BY <2>1 DEF Targeted
  <2>5. OnDisk'  BY <2>1 DEF OnDisk
  <2>6. InMemory'  BY <2>1, <2>2 DEF InMemory
  <2> QED BY <2>3, <2>4, <2>5, <2>6
<1>3. ASSUME DisconnectTip PROVE DiskInv'
  <2>1. /\ UNCHANGED <<bestBlock, headBlocks, diskIndex, diskUndo, tip, blockIndex, undo>>
        /\ pc = "idle" /\ tip # Genesis
        /\ \/ hashBlock' = Parent[tip] /\ pc' = "if_needed"
           \/ hashBlock' = hashBlock /\ pc' = "failed"
    BY <1>3 DEF DisconnectTip, coinsDb, indexDb
  <2>2. tip \in Blocks /\ Parent[tip] \in Blocks  BY <2>1, ParentBlock DEF Places
  <2>3. Complete(blockIndex, undo, Parent[tip])
    <3>1. Chain[Parent[tip]] \subseteq Chain[tip]  BY <2>1, <2>2, ChainOf
    <3>2. Complete(blockIndex, undo, tip)  BY <2>1 DEF Places, InMemory
    <3> QED BY <3>1, <3>2 DEF Complete
  <2>4. Places'  BY <2>1, <2>2 DEF Places
  <2>5. Targeted'  BY <2>1 DEF Targeted
  <2>6. OnDisk'  BY <2>1 DEF OnDisk
  <2>7. InMemory'  BY <2>1, <2>3 DEF InMemory
  <2> QED BY <2>4, <2>5, <2>6, <2>7
<1>4. ASSUME NoFlush PROVE DiskInv'
  <2>1. /\ UNCHANGED <<bestBlock, headBlocks, diskIndex, diskUndo, blockIndex, undo, hashBlock>>
        /\ pc = "if_needed" /\ tip' = hashBlock /\ pc' = "idle"
    BY <1>4 DEF NoFlush, coinsDb, indexDb
  <2> QED BY <2>1 DEF Places, Targeted, OnDisk, InMemory
<1>5. ASSUME NEW empty_cache \in BOOLEAN, FlushStateToDisk(empty_cache) PROVE DiskInv'
  <2>1. /\ UNCHANGED <<bestBlock, headBlocks, blockIndex, undo, tip, hashBlock>>
        /\ pc \in {"idle", "if_needed"} /\ diskIndex' = blockIndex /\ diskUndo' = undo
        /\ pc' = "coins"
    BY <1>5 DEF FlushStateToDisk, coinsDb
  <2>2. Places' /\ Targeted'  BY <2>1 DEF Places, Targeted
  <2>3. OnDisk'
    <3>1. headBlocks' = <<>>  BY <2>1 DEF Targeted
    <3>2. diskIndex \subseteq diskIndex' /\ DOMAIN diskUndo \subseteq DOMAIN diskUndo'
      BY <2>1 DEF InMemory
    <3> QED BY <2>1, <3>1, <3>2, CompleteGrows DEF OnDisk
  <2>4. InMemory'  BY <2>1 DEF InMemory
  <2> QED BY <2>2, <2>3, <2>4
<1>6. ASSUME NEW o \in Txs, WritePartialBatch(o) PROVE DiskInv'
  <2>1. /\ UNCHANGED <<diskIndex, diskUndo, pc, blockIndex, undo, tip, hashBlock>>
        /\ pc \in {"coins", "replay"} /\ headBlocks' = <<hashBlock, OldTip>>
        /\ bestBlock' = NoBlock
    BY <1>6 DEF WritePartialBatch, indexDb
  <2>2. /\ OldTip \in Blocks \cup {NoBlock}
        /\ OldTip # NoBlock => Complete(diskIndex, diskUndo, OldTip)
    <3>1. CASE bestBlock = NoBlock /\ headBlocks # <<>>
      <4>1. headBlocks[2] \in Blocks \cup {NoBlock}  BY <3>1 DEF Places
      <4> QED BY <3>1, <4>1 DEF OldTip, OnDisk
    <3>2. CASE ~(bestBlock = NoBlock /\ headBlocks # <<>>)
      BY <3>2 DEF OldTip, OnDisk, Places
    <3> QED BY <3>1, <3>2
  <2>3. /\ headBlocks' \in Blocks \X (Blocks \cup {NoBlock})
        /\ headBlocks'[1] = hashBlock /\ headBlocks'[2] = OldTip
    BY <2>1, <2>2 DEF Places
  <2>4. Places'  BY <2>1, <2>3 DEF Places
  <2>5. Targeted'  BY <2>1, <2>3 DEF Targeted
  <2>6. OnDisk'  BY <2>1, <2>2, <2>3 DEF OnDisk, InMemory
  <2>7. InMemory'  BY <2>1 DEF InMemory
  <2> QED BY <2>4, <2>5, <2>6, <2>7
<1>7. ASSUME WriteFinalBatch PROVE DiskInv'
  <2>1. /\ UNCHANGED <<diskIndex, diskUndo, blockIndex, undo, hashBlock>>
        /\ pc \in {"coins", "replay"} /\ headBlocks' = <<>> /\ bestBlock' = hashBlock
        /\ tip' = hashBlock /\ pc' = "idle"
    BY <1>7 DEF WriteFinalBatch, indexDb
  <2>2. Complete(diskIndex, diskUndo, hashBlock) /\ Complete(blockIndex, undo, hashBlock)
    <3>1. Complete(diskIndex, diskUndo, hashBlock)  BY <2>1 DEF InMemory
    <3>2. diskIndex \subseteq blockIndex /\ DOMAIN diskUndo \subseteq DOMAIN undo
      BY <2>1 DEF InMemory
    <3> QED BY <3>1, <3>2, CompleteGrows
  <2>3. Places'  BY <2>1 DEF Places
  <2>4. Targeted'  BY <2>1 DEF Targeted
  <2>5. OnDisk'  BY <2>1, <2>2 DEF OnDisk
  <2>6. InMemory'  BY <2>1, <2>2 DEF InMemory
  <2> QED BY <2>3, <2>4, <2>5, <2>6
<1>8. ASSUME Crash PROVE DiskInv'
  <2>1. /\ UNCHANGED <<bestBlock, headBlocks, diskIndex, diskUndo>>
        /\ pc' = "down" /\ blockIndex' = {} /\ undo' = <<>>
    BY <1>8 DEF Crash, coinsDb, indexDb
  <2>2. DOMAIN undo' = {}  BY <2>1
  <2> QED BY <2>1, <2>2 DEF Places, Targeted, OnDisk, InMemory
<1>9. ASSUME LoadChainTip PROVE DiskInv'
  <2> DEFINE best == IF bestBlock = NoBlock THEN Genesis ELSE bestBlock
  <2>1. /\ UNCHANGED <<bestBlock, headBlocks, diskIndex, diskUndo>>
        /\ headBlocks = <<>> /\ blockIndex' = diskIndex \cup {Genesis} /\ undo' = diskUndo
        /\ tip' = best /\ hashBlock' = best /\ pc' \in {"idle", "failed"}
    BY <1>9 DEF LoadChainTip, OrGenesis, coinsDb, indexDb
  <2>2. best \in Blocks /\ Complete(blockIndex', undo', best)
    <3>1. CASE bestBlock = NoBlock
      <4>1. Chain[Genesis] = {Genesis}  BY <1>0, ChainOf
      <4> QED BY <1>0, <2>1, <3>1, <4>1 DEF Complete
    <3>2. CASE bestBlock # NoBlock
      <4>1. Complete(diskIndex, diskUndo, bestBlock) /\ bestBlock \in Blocks
        BY <3>2 DEF OnDisk, Places
      <4> QED BY <2>1, <3>2, <4>1 DEF Complete
    <3> QED BY <3>1, <3>2
  <2> HIDE DEF best
  <2>3. Places'  BY <1>0, <2>1, <2>2 DEF Places
  <2>4. Targeted' /\ OnDisk'  BY <2>1 DEF Targeted, OnDisk
  <2>5. InMemory'  BY <2>1, <2>2 DEF InMemory
  <2> QED BY <2>3, <2>4, <2>5
<1>10. ASSUME ReplayBlocks PROVE DiskInv'
  <2>1. /\ UNCHANGED <<bestBlock, headBlocks, diskIndex, diskUndo>>
        /\ headBlocks # <<>> /\ blockIndex' = diskIndex \cup {Genesis} /\ undo' = diskUndo
        /\ \/ hashBlock' = headBlocks[1] /\ pc' = "replay"
           \/ hashBlock' = hashBlock /\ pc' = "failed"
    BY <1>10 DEF ReplayBlocks, coinsDb, indexDb
  <2>2. headBlocks[1] \in Blocks /\ Complete(diskIndex, diskUndo, headBlocks[1])
    BY <2>1 DEF Places, OnDisk
  <2>3. Places'  BY <1>0, <2>1, <2>2 DEF Places
  <2>4. Targeted' /\ OnDisk'  BY <2>1 DEF Targeted, OnDisk
  <2>5. InMemory'  BY <2>1, <2>2 DEF InMemory
  <2> QED BY <2>3, <2>4, <2>5
<1>11. CASE UNCHANGED vars
  BY <1>11 DEF vars, coinsDb, indexDb, Places, Targeted, OnDisk, InMemory
<1> QED BY <1>1, <1>2, <1>3, <1>4, <1>5, <1>6, <1>7, <1>8, <1>9, <1>10, <1>11 DEF Next

\* The invariant holds of the first state.
LEMMA DiskInit ==
  ASSUME Init
  PROVE  DiskInv
<1>1. NoBlock \notin Blocks /\ Genesis \in Blocks  BY StateAssumption, TreeAssumption
<1>2. Chain[Genesis] = {Genesis}  BY <1>1, ChainOf
<1>3. DOMAIN <<>> = {}  OBVIOUS
<1> QED BY <1>1, <1>2, <1>3 DEF Init, DiskInv, Places, Targeted, OnDisk, InMemory, Complete

\* The invariant of the start and the write order, whatever crashes.
THEOREM DiskCorrect == Spec => []DiskInv
<1>1. Init => DiskInv  BY DiskInit
<1>2. DiskInv /\ [Next]_vars => DiskInv'  BY DiskStep
<1> QED BY <1>1, <1>2, PTL DEF Spec

\* BatchWrite's assertion on the old heads never fails.
THEOREM TargetCorrect == Spec => []SameTarget
<1>1. DiskInv => SameTarget  BY DEF DiskInv, Targeted, SameTarget
<1> QED BY <1>1, DiskCorrect, PTL

\* LoadChainTip finds the best block in the index.
LEMMA LoadSucceeds ==
  ASSUME DiskInv, LoadChainTip
  PROVE  pc' = "idle"
<1>1. CASE bestBlock = NoBlock
  BY <1>1 DEF LoadChainTip, OrGenesis
<1>2. CASE bestBlock # NoBlock
  <2>1. bestBlock \in Blocks /\ Complete(diskIndex, diskUndo, bestBlock)
    BY <1>2 DEF DiskInv, OnDisk, Places
  <2>2. bestBlock \in Chain[bestBlock]  BY <2>1, ChainOf
  <2> QED BY <1>2, <2>1, <2>2 DEF LoadChainTip, OrGenesis, Complete
<1> QED BY <1>1, <1>2

\* ReplayBlocks finds the blocks and the undo data that it reads.
LEMMA ReplaySucceeds ==
  ASSUME DiskInv, ReplayBlocks
  PROVE  CanReplay(headBlocks[1], headBlocks[2])
<1>1. headBlocks # <<>>  BY DEF ReplayBlocks
<1> DEFINE new == headBlocks[1]
           old == headBlocks[2]
<1>2. /\ new \in Blocks /\ old \in Blocks \cup {NoBlock} /\ new # NoBlock
      /\ Complete(diskIndex, diskUndo, new)
      /\ old # NoBlock => Complete(diskIndex, diskUndo, old)
  BY <1>1, StateAssumption DEF DiskInv, Places, OnDisk
<1>3. new \in Chain[new] /\ Genesis \in Chain[new] /\ (old # NoBlock => old \in Chain[old])
  <2>1. \A b \in Blocks : b \in Chain[b]  BY ChainOf
  <2>2. Genesis \in Chain[new]  BY <1>2, RootAssumption
  <2> QED BY <1>2, <2>1, <2>2
<1> HIDE DEF new, old
<1>4. /\ OrGenesis(new) = new
      /\ Chain[new] \ {Genesis} \subseteq diskIndex
      /\ Chain[OrGenesis(old)] \ {Genesis} \subseteq diskIndex \cap DOMAIN diskUndo
      /\ Genesis \in Chain[OrGenesis(old)]
  <2>1. CASE old = NoBlock
    <3>1. Chain[Genesis] = {Genesis}  BY TreeAssumption, ChainOf
    <3> QED BY <1>2, <2>1, <3>1 DEF OrGenesis, Complete
  <2>2. CASE old # NoBlock
    BY <1>2, <2>2, RootAssumption DEF OrGenesis, Complete
  <2> QED BY <2>1, <2>2
<1>5. CanReplay(new, old)
  BY <1>2, <1>3, <1>4 DEF CanReplay, Apart, Complete
<1> QED BY <1>5 DEF new, old

\* A start that ends in an error.
StartFails == pc = "down" /\ pc' = "failed"

\* No start fails: a best block is in the index, and what ReplayBlocks reads of
\* blocks and undo data is on disk, because FlushStateToDisk writes both before
\* any coin.
THEOREM StartSucceeds == Spec => [][~StartFails]_vars
<1>1. DiskInv /\ [Next]_vars => [~StartFails]_vars
  <2> SUFFICES ASSUME DiskInv, Next, pc = "down", pc' = "failed"
               PROVE  FALSE
    BY DEF StartFails
  <2>1. LoadChainTip \/ ReplayBlocks
    BY DEF Next, AcceptBlock, ConnectTip, DisconnectTip, NoFlush, FlushStateToDisk,
           WritePartialBatch, WriteFinalBatch, Crash
  <2>2. LoadChainTip => FALSE  BY LoadSucceeds
  <2>3. ReplayBlocks => FALSE  BY ReplaySucceeds DEF ReplayBlocks
  <2> QED BY <2>1, <2>2, <2>3
<1> QED BY <1>1, DiskCorrect, PTL DEF Spec

-----------------------------------------------------------------------------
(* Induction: on the numbers up to a bound, and along the chains.           *)

\* Every nonempty set of natural numbers has a least one.
LEMMA LeastOf ==
  ASSUME NEW T, T \subseteq Nat, T # {}
  PROVE  \E n \in T : \A m \in T : n <= m
<1> DEFINE R == OpToRel(<, Nat)
<1>1. IsWellFoundedOn(R, Nat)  BY NatLessThanWellFounded
<1>2. \E x \in T : \A y \in T : ~(<<y, x>> \in R)
  <2> HIDE DEF R
  <2> QED BY <1>1, WFMin
<1>3. PICK x \in T : \A y \in T : ~(<<y, x>> \in R)  BY <1>2
<1>4. ASSUME NEW y \in T PROVE x <= y
  <2>1. x \in Nat /\ y \in Nat  OBVIOUS
  <2>2. <<y, x>> \notin R  BY <1>3
  <2>3. ~(y < x)  BY <2>1, <2>2 DEF OpToRel
  <2> QED BY <2>1, <2>3
<1> HIDE DEF R
<1> QED BY <1>4

\* A set with 0 and with the successors of its members below N holds 0..N.
LEMMA CountUp ==
  ASSUME NEW N \in Nat, NEW T, 0 \in T, \A n \in 1..N : n - 1 \in T => n \in T
  PROVE  0..N \subseteq T
<1> DEFINE M == (0..N) \ T
<1> SUFFICES ASSUME M # {} PROVE FALSE  OBVIOUS
<1>0. M \subseteq Nat  OBVIOUS
<1>1. PICK n \in M : \A m \in M : n <= m
  <2> HIDE DEF M
  <2> QED BY <1>0, LeastOf
<1>2. n \in 1..N /\ n - 1 \in 0..N /\ ~(n <= n - 1)  OBVIOUS
<1> QED BY <1>1, <1>2

\* A block is one higher than its parent.
LEMMA HeightOf ==
  /\ \A b \in Blocks : Cardinality(Chain[b]) \in Nat /\ Height(b) \in Nat
  /\ \A b \in Blocks \ {Genesis} : Cardinality(Chain[b]) = Cardinality(Chain[Parent[b]]) + 1
<1>1. ASSUME NEW b \in Blocks PROVE Cardinality(Chain[b]) \in Nat /\ Height(b) \in Nat
  <2>1. IsFiniteSet(Chain[b]) /\ Chain[b] # {}  BY RootAssumption
  <2>2. Cardinality(Chain[b]) \in Nat /\ Cardinality(Chain[b]) # 0
    BY <2>1, FS_CardinalityType, FS_EmptySet
  <2> QED BY <2>2 DEF Height
<1>2. ASSUME NEW b \in Blocks \ {Genesis}
      PROVE  Cardinality(Chain[b]) = Cardinality(Chain[Parent[b]]) + 1
  <2>1. Parent[b] \in Blocks /\ Chain[b] = Chain[Parent[b]] \cup {b}  BY ParentBlock, ChainOf
  <2>2. IsFiniteSet(Chain[Parent[b]]) /\ b \notin Chain[Parent[b]]  BY <2>1, RootAssumption
  <2> QED BY <2>1, <2>2, FS_AddElement
<1> QED BY <1>1, <1>2

\* A set with Genesis and with the children of its members holds all blocks.
LEMMA AlongChains ==
  ASSUME NEW T, Genesis \in T, \A b \in Blocks \ {Genesis} : Parent[b] \in T => b \in T
  PROVE  Blocks \subseteq T
<1> SUFFICES ASSUME Blocks \ T # {} PROVE FALSE  OBVIOUS
<1> DEFINE H == {Cardinality(Chain[b]) : b \in Blocks \ T}
<1>1. H \subseteq Nat /\ H # {}  BY HeightOf
<1>2. PICK k \in H : \A m \in H : k <= m
  <2> HIDE DEF H
  <2> QED BY <1>1, LeastOf
<1>3. PICK b \in Blocks \ T : k = Cardinality(Chain[b])  BY <1>2
<1>4. Parent[b] \in Blocks \ T  BY <1>3, ParentBlock
<1>5. k \in Nat /\ Cardinality(Chain[Parent[b]]) \in Nat /\ k = Cardinality(Chain[Parent[b]]) + 1
  BY <1>3, <1>4, HeightOf
<1>6. k <= Cardinality(Chain[Parent[b]])  BY <1>2, <1>4
<1> QED BY <1>5, <1>6

\* The chain of a block is made of blocks, and holds the chains of its members.
LEMMA ChainClosed ==
  ASSUME NEW b \in Blocks
  PROVE  /\ b \in Chain[b] /\ Chain[b] \subseteq Blocks
         /\ \A x \in Chain[b] : Chain[x] \subseteq Chain[b]
         /\ \A x \in Chain[b] \ {Genesis} : Parent[x] \in Chain[b]
<1> DEFINE Q(x) == Chain[x] \subseteq Blocks /\ \A y \in Chain[x] : Chain[y] \subseteq Chain[x]
           T == {x \in Blocks : Q(x)}
<1>0. Genesis \in Blocks  BY TreeAssumption
<1>1. Genesis \in T
  <2>1. Chain[Genesis] = {Genesis}  BY <1>0, ChainOf
  <2> QED BY <1>0, <2>1
<1>2. ASSUME NEW x \in Blocks \ {Genesis}, Parent[x] \in T PROVE x \in T
  <2>1. Chain[x] = Chain[Parent[x]] \cup {x}  BY ChainOf
  <2> QED BY <1>2, <2>1
<1>3. Q(b)
  <2> HIDE DEF Q
  <2>1. Blocks \subseteq T  BY <1>1, <1>2, AlongChains
  <2> QED BY <2>1
<1>4. b \in Chain[b]  BY ChainOf
<1>5. ASSUME NEW x \in Chain[b] \ {Genesis} PROVE Parent[x] \in Chain[b]
  <2>1. x \in Blocks /\ Chain[x] \subseteq Chain[b]  BY <1>3
  <2>2. Parent[x] \in Blocks /\ Chain[x] = Chain[Parent[x]] \cup {x}  BY <2>1, ParentBlock, ChainOf
  <2>3. Parent[x] \in Chain[Parent[x]]  BY <2>2, ChainOf
  <2> QED BY <2>1, <2>2, <2>3
<1> QED BY <1>3, <1>4, <1>5

\* Of two blocks of a chain one descends from the other.
LEMMA ChainLinear ==
  ASSUME NEW b \in Blocks
  PROVE  \A x, y \in Chain[b] : x \in Chain[y] \/ y \in Chain[x]
<1> DEFINE Q(c) == \A x, y \in Chain[c] : x \in Chain[y] \/ y \in Chain[x]
           T == {c \in Blocks : Q(c)}
<1>0. Genesis \in Blocks  BY TreeAssumption
<1>1. Genesis \in T
  <2>1. Chain[Genesis] = {Genesis}  BY <1>0, ChainOf
  <2> QED BY <1>0, <2>1
<1>2. ASSUME NEW c \in Blocks \ {Genesis}, Parent[c] \in T PROVE c \in T
  <2>1. Chain[c] = Chain[Parent[c]] \cup {c}  BY ChainOf
  <2> QED BY <1>2, <2>1
<1> HIDE DEF Q
<1>3. Blocks \subseteq T  BY <1>1, <1>2, AlongChains
<1>4. Q(b)  BY <1>3
<1> QED BY <1>4 DEF Q

\* Two blocks that descend from each other are one.
LEMMA ChainAntisymmetric ==
  ASSUME NEW x \in Blocks, NEW y \in Blocks, x \in Chain[y], y \in Chain[x]
  PROVE  x = y
<1> SUFFICES ASSUME x # y PROVE FALSE  OBVIOUS
<1>1. CASE y = Genesis
  BY <1>1, ChainOf
<1>2. CASE y # Genesis
  <2>0. Parent[y] \in Blocks /\ Chain[y] = Chain[Parent[y]] \cup {y}  BY <1>2, ParentBlock, ChainOf
  <2>1. Parent[y] \in Blocks /\ x \in Chain[Parent[y]]  BY <2>0
  <2>2. Chain[x] \subseteq Chain[Parent[y]]  BY <2>1, ChainClosed
  <2> QED BY <1>2, <2>2, RootAssumption
<1> QED BY <1>1, <1>2

-----------------------------------------------------------------------------
(* The coins of a chain, transaction by transaction.                        *)

\* The height at which the chain of b creates o.
Made(b, o) == Height(CHOOSE x \in Chain[b] : o \in TxsOf(x))

\* The coins after the first n transactions of b.
CoinsUpTo(b, n) ==
  [o \in Txs |-> IF o \in TxsUpTo(b, n) \ SpentBy(TxsUpTo(b, n)) THEN Made(b, o) ELSE NoCoin]

\* The transactions of a block.
LEMMA BlockOf ==
  ASSUME NEW b \in Blocks
  PROVE  /\ BlockTxs[b] \in Seq(Txs) /\ Len(BlockTxs[b]) \in Nat
         /\ \A n \in 1..Len(BlockTxs[b]) : BlockTxs[b][n] \in Txs
         /\ TxsOf(b) = {BlockTxs[b][n] : n \in 1..Len(BlockTxs[b])}
<1>1. BlockTxs[b] \in Seq(Txs)  BY TreeAssumption
<1>2. TxsOf(b) = {BlockTxs[b][n] : n \in DOMAIN BlockTxs[b]}  BY DEF TxsOf, ToSet
<1> QED BY <1>1, <1>2

\* What a transaction spends are outpoints.
LEMMA InputsOf ==
  ASSUME NEW t \in Txs
  PROVE  Inputs[t] \subseteq Txs
BY TreeAssumption

\* The transactions of a chain are those of its last block and of its parent's chain.
LEMMA ChainTxsOf ==
  /\ ChainTxs(Genesis) = {}
  /\ \A b \in Blocks \ {Genesis} : ChainTxs(b) = ChainTxs(Parent[b]) \cup TxsOf(b)
  /\ \A b \in Blocks : ChainTxs(b) \subseteq Txs
<1>0. Genesis \in Blocks  BY TreeAssumption
<1>1. ChainTxs(Genesis) = {}
  <2>1. Chain[Genesis] = {Genesis}  BY <1>0, ChainOf
  <2>2. TxsOf(Genesis) = {}
    <3>1. Len(BlockTxs[Genesis]) = 0  BY TreeAssumption
    <3> QED BY <1>0, <3>1, BlockOf
  <2> QED BY <2>1, <2>2 DEF ChainTxs
<1>2. ASSUME NEW b \in Blocks \ {Genesis} PROVE ChainTxs(b) = ChainTxs(Parent[b]) \cup TxsOf(b)
  <2>1. Chain[b] = Chain[Parent[b]] \cup {b}  BY ChainOf
  <2> QED BY <2>1 DEF ChainTxs
<1>3. ASSUME NEW b \in Blocks PROVE ChainTxs(b) \subseteq Txs
  <2>1. \A x \in Chain[b] : TxsOf(x) \subseteq Txs  BY ChainClosed, BlockOf
  <2> QED BY <2>1 DEF ChainTxs
<1> QED BY <1>1, <1>2, <1>3

\* The transactions up to the n-th of a block, and what they spend.
LEMMA UpTo ==
  ASSUME NEW b \in Blocks \ {Genesis}
  PROVE  /\ TxsUpTo(b, 0) = ChainTxs(Parent[b])
         /\ TxsUpTo(b, Len(BlockTxs[b])) = ChainTxs(b)
         /\ \A n \in 1..Len(BlockTxs[b]) : TxsUpTo(b, n) = TxsUpTo(b, n - 1) \cup {BlockTxs[b][n]}
         /\ \A n \in 0..Len(BlockTxs[b]) : TxsUpTo(b, n) \subseteq ChainTxs(b)
<1>1. /\ Len(BlockTxs[b]) \in Nat /\ TxsOf(b) = {BlockTxs[b][n] : n \in 1..Len(BlockTxs[b])}
      /\ ChainTxs(b) = ChainTxs(Parent[b]) \cup TxsOf(b)
  BY BlockOf, ChainTxsOf
<1>2. TxsUpTo(b, 0) = ChainTxs(Parent[b])  BY DEF TxsUpTo
<1>3. TxsUpTo(b, Len(BlockTxs[b])) = ChainTxs(b)  BY <1>1 DEF TxsUpTo
<1>4. ASSUME NEW n \in 1..Len(BlockTxs[b])
      PROVE  TxsUpTo(b, n) = TxsUpTo(b, n - 1) \cup {BlockTxs[b][n]}
  <2>1. 1..n = 1..(n - 1) \cup {n}  BY <1>1
  <2>2. {BlockTxs[b][i] : i \in 1..n} = {BlockTxs[b][i] : i \in 1..(n - 1)} \cup {BlockTxs[b][n]}
    BY <2>1
  <2> QED BY <2>2 DEF TxsUpTo
<1>5. ASSUME NEW n \in 0..Len(BlockTxs[b]) PROVE TxsUpTo(b, n) \subseteq ChainTxs(b)
  <2>1. 1..n \subseteq 1..Len(BlockTxs[b])  BY <1>1
  <2> QED BY <1>1, <2>1 DEF TxsUpTo
<1> QED BY <1>2, <1>3, <1>4, <1>5

\* The n-th transaction of a block is new and spends what is there.
LEMMA ValidTx ==
  ASSUME NEW b \in Blocks \ {Genesis}, NEW n \in 1..Len(BlockTxs[b])
  PROVE  /\ BlockTxs[b][n] \notin TxsUpTo(b, n - 1)
         /\ Inputs[BlockTxs[b][n]] \subseteq TxsUpTo(b, n - 1) \ SpentBy(TxsUpTo(b, n - 1))
BY ValidAssumption

\* A chain creates an output once.
LEMMA MadeOnce ==
  ASSUME NEW b \in Blocks
  PROVE  \A x, y \in Chain[b] : TxsOf(x) \cap TxsOf(y) # {} => x = y
<1> DEFINE Q(c) == \A x, y \in Chain[c] : TxsOf(x) \cap TxsOf(y) # {} => x = y
           T == {c \in Blocks : Q(c)}
<1>0. Genesis \in Blocks  BY TreeAssumption
<1>1. Genesis \in T
  <2>1. Chain[Genesis] = {Genesis}  BY <1>0, ChainOf
  <2> QED BY <1>0, <2>1
<1>2. ASSUME NEW c \in Blocks \ {Genesis}, Parent[c] \in T PROVE c \in T
  <2>1. Chain[c] = Chain[Parent[c]] \cup {c}  BY ChainOf
  <2>2. ASSUME NEW x \in Chain[Parent[c]], NEW o \in TxsOf(x) \cap TxsOf(c) PROVE FALSE
    <3>1. PICK n \in 1..Len(BlockTxs[c]) : o = BlockTxs[c][n]  BY <2>2, BlockOf
    <3>2. o \in TxsUpTo(c, n - 1)  BY <2>2 DEF TxsUpTo, ChainTxs
    <3> QED BY <3>1, <3>2, ValidTx
  <2> QED BY <1>2, <2>1, <2>2
<1> HIDE DEF Q
<1>3. Blocks \subseteq T  BY <1>1, <1>2, AlongChains
<1>4. Q(b)  BY <1>3
<1> QED BY <1>4 DEF Q

\* Where the output was created is well defined.
LEMMA MadeAt ==
  ASSUME NEW b \in Blocks, NEW x \in Chain[b], NEW o \in TxsOf(x)
  PROVE  Made(b, o) = Height(x)
<1> DEFINE y == CHOOSE y \in Chain[b] : o \in TxsOf(y)
<1>1. y \in Chain[b] /\ o \in TxsOf(y)  OBVIOUS
<1>2. y = x
  <2> HIDE DEF y
  <2> QED BY <1>1, MadeOnce
<1> QED BY <1>2 DEF Made

\* A coin is a height.
LEMMA MadeIsCoin ==
  ASSUME NEW b \in Blocks, NEW o \in ChainTxs(b)
  PROVE  Made(b, o) \in CoinHeights
<1>1. PICK x \in Chain[b] : o \in TxsOf(x)  BY DEF ChainTxs
<1>2. x \in Blocks  BY ChainClosed
<1>3. Made(b, o) = Height(x)  BY <1>1, MadeAt
<1> QED BY <1>2, <1>3 DEF CoinHeights

\* A child has the coins of its parent's chain at the same heights.
LEMMA MadeBefore ==
  ASSUME NEW b \in Blocks \ {Genesis}, NEW o \in ChainTxs(Parent[b])
  PROVE  Made(b, o) = Made(Parent[b], o)
<1>1. PICK x \in Chain[Parent[b]] : o \in TxsOf(x)  BY DEF ChainTxs
<1>2. Parent[b] \in Blocks /\ x \in Chain[b]  BY ParentBlock, ChainOf
<1> QED BY <1>1, <1>2, MadeAt

\* Only what was created is spent.
LEMMA SpentWasMade ==
  /\ \A b \in Blocks : SpentBy(ChainTxs(b)) \subseteq ChainTxs(b)
  /\ \A b \in Blocks \ {Genesis} : \A n \in 0..Len(BlockTxs[b]) :
       SpentBy(TxsUpTo(b, n)) \subseteq TxsUpTo(b, n)
<1> DEFINE T == {b \in Blocks : SpentBy(ChainTxs(b)) \subseteq ChainTxs(b)}
<1>0. Genesis \in Blocks  BY TreeAssumption
<1>1. Genesis \in T  BY <1>0, ChainTxsOf DEF SpentBy
<1>2. ASSUME NEW b \in Blocks \ {Genesis}, Parent[b] \in T, NEW n \in 0..Len(BlockTxs[b])
      PROVE  SpentBy(TxsUpTo(b, n)) \subseteq TxsUpTo(b, n)
  <2>1. ASSUME NEW u \in TxsUpTo(b, n) PROVE Inputs[u] \subseteq TxsUpTo(b, n)
    <3>1. CASE u \in ChainTxs(Parent[b])
      BY <1>2, <3>1 DEF TxsUpTo, SpentBy
    <3>2. CASE u \notin ChainTxs(Parent[b])
      <4>1. PICK i \in 1..n : u = BlockTxs[b][i]  BY <3>2 DEF TxsUpTo
      <4>2. i \in 1..Len(BlockTxs[b]) /\ 1..(i - 1) \subseteq 1..n  BY BlockOf
      <4>3. TxsUpTo(b, i - 1) \subseteq TxsUpTo(b, n)  BY <4>2 DEF TxsUpTo
      <4> QED BY <4>1, <4>2, <4>3, ValidTx
    <3> QED BY <3>1, <3>2
  <2> QED BY <2>1 DEF SpentBy
<1>3. ASSUME NEW b \in Blocks \ {Genesis}, Parent[b] \in T PROVE b \in T
  <2>1. Len(BlockTxs[b]) \in 0..Len(BlockTxs[b])  BY BlockOf
  <2> QED BY <1>2, <1>3, <2>1, UpTo
<1>4. Blocks \subseteq T
  <2> HIDE DEF T
  <2> QED BY <1>1, <1>3, AlongChains
<1>5. \A b \in Blocks \ {Genesis} : Parent[b] \in T  BY <1>4, ParentBlock
<1> QED BY <1>2, <1>4, <1>5

\* Utxo in terms of the sets.
LEMMA UtxoOf ==
  ASSUME NEW b \in Blocks
  PROVE  Utxo(b) = [o \in Txs |-> IF o \in ChainTxs(b) \ SpentBy(ChainTxs(b))
                                  THEN Made(b, o) ELSE NoCoin]
<1>1. ASSUME NEW o \in Txs
      PROVE  /\ (\E y \in Chain[b] : \E t \in TxsOf(y) : o \in Inputs[t]) <=> o \in SpentBy(ChainTxs(b))
             /\ (\E x \in Chain[b] : o \in TxsOf(x)) <=> o \in ChainTxs(b)
  BY DEF SpentBy, ChainTxs
<1> QED BY <1>1 DEF Utxo, Made

\* The coins before the first transaction of a block are its parent's, those after
\* the last its own.
LEMMA CoinsEnds ==
  ASSUME NEW b \in Blocks \ {Genesis}
  PROVE  CoinsUpTo(b, 0) = Utxo(Parent[b]) /\ CoinsUpTo(b, Len(BlockTxs[b])) = Utxo(b)
<1>1. Parent[b] \in Blocks  BY ParentBlock
<1>2. \A o \in ChainTxs(Parent[b]) : Made(b, o) = Made(Parent[b], o)  BY MadeBefore
<1> QED BY <1>1, <1>2, UtxoOf, UpTo DEF CoinsUpTo

\* What the n-th transaction of a block does to the coins.
LEMMA CoinsStep ==
  ASSUME NEW b \in Blocks \ {Genesis}, NEW n \in 1..Len(BlockTxs[b]), NEW t, t = BlockTxs[b][n]
  PROVE  /\ t \in Txs /\ t \notin Inputs[t] /\ Inputs[t] \subseteq Txs
         /\ CoinsUpTo(b, n - 1)[t] = NoCoin /\ CoinsUpTo(b, n)[t] = Height(b)
         /\ \A o \in Inputs[t] : /\ CoinsUpTo(b, n - 1)[o] = Made(b, o) /\ Made(b, o) \in CoinHeights
                                 /\ CoinsUpTo(b, n)[o] = NoCoin
         /\ \A o \in Txs \ Inputs[t] : o # t => CoinsUpTo(b, n)[o] = CoinsUpTo(b, n - 1)[o]
<1> DEFINE R == TxsUpTo(b, n - 1)
           S == TxsUpTo(b, n)
<1>1. t \in Txs /\ Inputs[t] \subseteq Txs  BY BlockOf, InputsOf
<1>2. t \notin R /\ Inputs[t] \subseteq R \ SpentBy(R)  BY ValidTx
<1>3. S = R \cup {t} /\ R \subseteq ChainTxs(b)
  <2>1. n - 1 \in 0..Len(BlockTxs[b])  BY BlockOf
  <2> QED BY <2>1, UpTo
<1>4. SpentBy(S) = SpentBy(R) \cup Inputs[t]  BY <1>3 DEF SpentBy
<1>5. SpentBy(R) \subseteq R
  <2>1. n - 1 \in 0..Len(BlockTxs[b])  BY BlockOf
  <2> QED BY <2>1, SpentWasMade
<1>6. Made(b, t) = Height(b)
  <2>1. b \in Chain[b]  BY ChainOf
  <2>2. t \in TxsOf(b)  BY BlockOf
  <2> QED BY <2>1, <2>2, MadeAt
<1>7. \A o \in R : Made(b, o) \in CoinHeights  BY <1>3, MadeIsCoin
<1>8. \A o \in Txs : /\ CoinsUpTo(b, n - 1)[o] = IF o \in R \ SpentBy(R) THEN Made(b, o) ELSE NoCoin
                     /\ CoinsUpTo(b, n)[o] = IF o \in S \ SpentBy(S) THEN Made(b, o) ELSE NoCoin
  BY DEF CoinsUpTo
<1> HIDE DEF R, S
<1> QED BY <1>1, <1>2, <1>3, <1>4, <1>5, <1>6, <1>7, <1>8

\* Coins are heights, and none is no height.
LEMMA CoinTypes ==
  /\ NoCoin \notin CoinHeights
  /\ \A b \in Blocks : Height(b) \in CoinHeights /\ Utxo(b) \in [Txs -> CoinOrNone]
<1>1. CoinHeights \subseteq Nat  BY HeightOf DEF CoinHeights
<1>2. ASSUME NEW b \in Blocks PROVE Utxo(b) \in [Txs -> CoinOrNone]
  <2>1. \A o \in ChainTxs(b) : Made(b, o) \in CoinOrNone  BY MadeIsCoin DEF CoinOrNone
  <2>2. NoCoin \in CoinOrNone  BY DEF CoinOrNone
  <2> QED BY <2>1, <2>2, UtxoOf
<1> QED BY <1>1, <1>2, TreeAssumption DEF CoinHeights

\* Genesis has no coins.
LEMMA UtxoGenesis == Genesis \in Blocks /\ Utxo(Genesis) = [o \in Txs |-> NoCoin]
<1>1. Genesis \in Blocks  BY TreeAssumption
<1> QED BY <1>1, UtxoOf, ChainTxsOf

-----------------------------------------------------------------------------
(* The entry of one outpoint, as in CoinsCacheProofs.                       *)

\* Entry e is sound over a base that shows c: without DIRTY it repeats the base, and
\* FRESH it hides nothing of it.
Sound(e, c) ==
  /\ ~e.cached => e = Absent
  /\ e.cached /\ ~e.dirty => e.coin = c /\ c # NoCoin /\ ~e.fresh
  /\ e.fresh => e.coin # NoCoin /\ c = NoCoin

\* An absent entry is sound over every base and shows it.
LEMMA AbsentSound ==
  ASSUME NEW c \in CoinOrNone
  PROVE  Absent \in Entries /\ Sound(Absent, c) /\ Value(Absent, c) = c
BY CoinTypes DEF Absent, Entries, CoinOrNone, Sound, Value

\* A sound entry shows a coin or none.
LEMMA ValueType ==
  ASSUME NEW e \in Entries, NEW c \in CoinOrNone
  PROVE  Value(e, c) \in CoinOrNone
BY DEF Value, Entries

\* FetchCoin keeps an entry sound and changes nothing that is shown.
LEMMA FetchedSound ==
  ASSUME NEW e \in Entries, NEW c \in CoinOrNone, Sound(e, c)
  PROVE  /\ Fetched(e, c) \in Entries /\ Sound(Fetched(e, c), c)
         /\ Value(Fetched(e, c), c) = Value(e, c) /\ Fetched(e, c).coin = Value(e, c)
<1>1. CASE e.cached
  BY <1>1 DEF Fetched, Sound, Value
<1>2. CASE ~e.cached /\ c = NoCoin
  <2>1. Fetched(e, c) = e
    BY <1>2 DEF Fetched
  <2> QED
    BY <1>2, <2>1 DEF Sound, Value, Absent
<1>3. CASE ~e.cached /\ c # NoCoin
  <2>1. Fetched(e, c) = [cached |-> TRUE, coin |-> c, dirty |-> FALSE, fresh |-> FALSE]
    BY <1>3 DEF Fetched, Entry
  <2> QED
    BY <1>3, <2>1 DEF Entries, Sound, Value
<1> QED
  BY <1>1, <1>2, <1>3

\* AddCoin, with the caller's promise, shows the new coin.
LEMMA AddedSound ==
  ASSUME NEW e \in Entries, NEW c \in CoinOrNone, Sound(e, c),
         NEW k \in CoinHeights, NEW overwrite \in BOOLEAN,
         overwrite \/ Value(e, c) = NoCoin
  PROVE  /\ Added(e, k, overwrite) \in Entries /\ Sound(Added(e, k, overwrite), c)
         /\ Value(Added(e, k, overwrite), c) = k
BY CoinTypes DEF Added, Entries, CoinOrNone, Sound, Value, Entry, Absent

\* SpendCoin shows that there is no coin.
LEMMA SpentSound ==
  ASSUME NEW e \in Entries, NEW c \in CoinOrNone, Sound(e, c)
  PROVE  /\ SpentIn(e, c) \in Entries /\ Sound(SpentIn(e, c), c)
         /\ Value(SpentIn(e, c), c) = NoCoin
<1> DEFINE f == Fetched(e, c)
<1>1. f \in Entries /\ Sound(f, c) /\ f.coin = Value(e, c) /\ Value(f, c) = Value(e, c)
  BY FetchedSound
<1>2. SpentIn(e, c) = IF ~f.cached \/ f.fresh THEN Absent ELSE [f EXCEPT !.dirty = TRUE, !.coin = NoCoin]
  BY DEF SpentIn
<1> HIDE DEF f
<1> QED
  BY <1>1, <1>2, AbsentSound, CoinTypes DEF Entries, CoinOrNone, Sound, Value, Absent

\* BatchWrite moves what the child shows into the parent, whatever the flags.
LEMMA WrittenSound ==
  ASSUME NEW parent \in Entries, NEW child \in Entries, NEW c \in CoinOrNone,
         Sound(parent, c), Sound(child, Value(parent, c))
  PROVE  /\ Written(child, parent) \in Entries /\ Sound(Written(child, parent), c)
         /\ Value(Written(child, parent), c) = Value(child, Value(parent, c))
<1> DEFINE w == Written(child, parent)
<1>1. CASE ~child.dirty
  <2>1. w = parent
    BY <1>1 DEF Written
  <2> QED
    BY <1>1, <2>1 DEF Sound, Value, Absent
<1>2. CASE child.dirty /\ ~parent.cached
  <2>1. Value(parent, c) = c /\ child.cached
    BY <1>2 DEF Sound, Value, Absent
  <2>2. ~(child.fresh /\ child.coin = NoCoin)
    BY DEF Sound
  <2>3. w = [cached |-> TRUE, coin |-> child.coin, dirty |-> TRUE, fresh |-> child.fresh]
    BY <1>2, <2>2 DEF Written, Entry
  <2>4. w \in Entries
    BY <2>3 DEF Entries
  <2>5. Sound(w, c) /\ Value(w, c) = child.coin
    BY <2>1, <2>3 DEF Sound, Value
  <2> QED
    BY <2>1, <2>4, <2>5 DEF Value
<1>3. CASE child.dirty /\ parent.cached /\ parent.fresh /\ child.coin = NoCoin
  <2>1. w = Absent
    BY <1>3 DEF Written
  <2>2. c = NoCoin /\ child.cached
    BY <1>3 DEF Sound, Absent
  <2> QED
    BY <1>3, <2>1, <2>2, AbsentSound DEF Value
<1>4. CASE child.dirty /\ parent.cached /\ ~(parent.fresh /\ child.coin = NoCoin)
  <2>1. w = [cached |-> TRUE, coin |-> child.coin, dirty |-> TRUE, fresh |-> parent.fresh]
    BY <1>4 DEF Written, Entry
  <2>2. child.cached
    BY <1>4 DEF Sound, Absent
  <2>3. w \in Entries
    BY <2>1 DEF Entries
  <2>4. Sound(w, c) /\ Value(w, c) = child.coin
    BY <1>4, <2>1 DEF Sound, Value
  <2> QED
    BY <2>2, <2>3, <2>4 DEF Value
<1> QED
  BY <1>1, <1>2, <1>3, <1>4 DEF Entries

\* Writing to the database stores what the cache shows.
LEMMA StoredValue ==
  ASSUME NEW e \in Entries, NEW c \in CoinOrNone, Sound(e, c)
  PROVE  Stored(e, c) = Value(e, c)
BY CoinTypes DEF Stored, Entries, Sound, Value, Absent

\* After Sync the entry repeats the database.
LEMMA CleanedSound ==
  ASSUME NEW e \in Entries, NEW c \in CoinOrNone, Sound(e, c)
  PROVE  /\ Cleaned(e) \in Entries /\ Sound(Cleaned(e), Value(e, c))
         /\ Value(Cleaned(e), Value(e, c)) = Value(e, c)
<1>1. CASE ~e.dirty /\ ~e.fresh
  BY <1>1 DEF Cleaned, Sound, Value, Absent
<1>2. CASE (e.dirty \/ e.fresh) /\ e.coin = NoCoin
  <2>1. Cleaned(e) = Absent /\ Value(e, c) = NoCoin
    BY <1>2 DEF Cleaned, Sound, Value, Absent
  <2> QED
    BY <2>1, AbsentSound DEF CoinOrNone
<1>3. CASE (e.dirty \/ e.fresh) /\ e.coin # NoCoin
  <2>1. Cleaned(e) = [cached |-> TRUE, coin |-> e.coin, dirty |-> FALSE, fresh |-> FALSE]
    BY <1>3 DEF Cleaned, Entry
  <2>2. Value(e, c) = e.coin
    BY <1>3 DEF Sound, Value, Absent
  <2> QED
    BY <1>3, <2>1, <2>2 DEF Entries, Sound, Value
<1> QED
  BY <1>1, <1>2, <1>3

-----------------------------------------------------------------------------
(* Views: caches whose entries are sound over a base.                       *)

Maps == [Txs -> CoinOrNone]
Views(base) == {v \in [Txs -> Entries] : \A o \in Txs : Sound(v[o], base[o])}

\* q comes from p as Y comes from X: where it does not show Y, neither has changed.
Toward(p, q, X, Y) == \A o \in Txs : q[o] = Y[o] \/ (q[o] = p[o] /\ Y[o] = X[o])

\* It composes.
LEMMA TowardTrans ==
  ASSUME NEW p, NEW q, NEW r, NEW X, NEW Y, NEW Z, Toward(p, q, X, Y), Toward(q, r, Y, Z)
  PROVE  Toward(p, r, X, Z)
BY DEF Toward

\* An empty view shows the base.
LEMMA EmptyView ==
  ASSUME NEW base \in Maps
  PROVE  Empty \in Views(base) /\ Shown(Empty, base) = base
<1>1. \A o \in Txs : Empty[o] = Absent /\ base[o] \in CoinOrNone  BY DEF Empty, Maps
<1>2. \A o \in Txs : Empty[o] \in Entries /\ Sound(Empty[o], base[o]) /\ Value(Empty[o], base[o]) = base[o]
  BY <1>1, AbsentSound
<1>3. Empty \in [Txs -> Entries]  BY <1>2 DEF Empty
<1>4. Shown(Empty, base) = base  BY <1>2 DEF Shown, Maps
<1> QED BY <1>2, <1>3, <1>4 DEF Views

\* The types of the operators on one entry, sound or not.
LEMMA EntryTypes ==
  ASSUME NEW e \in Entries, NEW c \in CoinOrNone, NEW k \in CoinHeights, NEW overwrite \in BOOLEAN
  PROVE  /\ Fetched(e, c) \in Entries /\ Fetched(e, c).coin \in CoinOrNone
         /\ SpentIn(e, c) \in Entries /\ Added(e, k, overwrite) \in Entries
<1>1. Fetched(e, c) \in Entries  BY DEF Fetched, Entry, Entries
<1>2. Fetched(e, c).coin \in CoinOrNone  BY <1>1 DEF Entries
<1>3. Absent \in Entries /\ NoCoin \in CoinOrNone  BY DEF Absent, Entries, CoinOrNone
<1>4. SpentIn(e, c) \in Entries
  <2> DEFINE f == Fetched(e, c)
  <2>1. SpentIn(e, c) = IF ~f.cached \/ f.fresh THEN Absent ELSE [f EXCEPT !.dirty = TRUE, !.coin = NoCoin]
    BY DEF SpentIn
  <2>2. f \in Entries  BY <1>1
  <2> HIDE DEF f
  <2> QED BY <1>3, <2>1, <2>2 DEF Entries
<1>5. Added(e, k, overwrite) \in Entries  BY DEF Added, Entry, Entries, CoinOrNone
<1> QED BY <1>1, <1>2, <1>4, <1>5

\* A view shows a map.
LEMMA ShownMap ==
  ASSUME NEW base \in Maps, NEW v \in [Txs -> Entries]
  PROVE  /\ Shown(v, base) \in Maps
         /\ \A o \in Txs : /\ v[o] \in Entries /\ base[o] \in CoinOrNone
                           /\ Shown(v, base)[o] = Value(v[o], base[o])
                           /\ Value(v[o], base[o]) \in CoinOrNone
<1>1. \A o \in Txs : v[o] \in Entries /\ base[o] \in CoinOrNone  BY DEF Maps
<1>2. \A o \in Txs : Value(v[o], base[o]) \in CoinOrNone  BY <1>1, ValueType
<1> QED BY <1>1, <1>2 DEF Shown, Maps

\* Spending a set of outpoints.
LEMMA SpendView ==
  ASSUME NEW base \in Maps, NEW v \in [Txs -> Entries], NEW S
  PROVE  /\ Spend(v, base, S) \in [Txs -> Entries]
         /\ v \in Views(base) =>
              /\ Spend(v, base, S) \in Views(base)
              /\ \A o \in Txs : Value(Spend(v, base, S)[o], base[o])
                                  = IF o \in S THEN NoCoin ELSE Value(v[o], base[o])
<1>1. \A o \in Txs : v[o] \in Entries /\ base[o] \in CoinOrNone  BY DEF Maps
<1>2. \A o \in Txs : Spend(v, base, S)[o] = IF o \in S THEN SpentIn(v[o], base[o]) ELSE v[o]
  BY DEF Spend
<1>3. \A o \in Txs : SpentIn(v[o], base[o]) \in Entries
  <2> TAKE o \in Txs
  <2>1. PICK k : k \in CoinHeights  BY CoinTypes, UtxoGenesis
  <2> QED BY <1>1, <2>1, EntryTypes
<1>4. Spend(v, base, S) \in [Txs -> Entries]  BY <1>1, <1>3 DEF Spend
<1>5. ASSUME v \in Views(base), NEW o \in Txs
      PROVE  /\ Sound(Spend(v, base, S)[o], base[o])
             /\ Value(Spend(v, base, S)[o], base[o]) = IF o \in S THEN NoCoin ELSE Value(v[o], base[o])
  <2>1. Sound(v[o], base[o])  BY <1>5 DEF Views
  <2> QED BY <1>1, <1>2, <2>1, SpentSound
<1> QED BY <1>4, <1>5 DEF Views

-----------------------------------------------------------------------------
(* One transaction.                                                         *)

\* RollforwardTx leads from the coins before the transaction to those after it.
LEMMA RollforwardTxStep ==
  ASSUME NEW base \in Maps, NEW v \in Views(base),
         NEW b \in Blocks \ {Genesis}, NEW n \in 1..Len(BlockTxs[b])
  PROVE  LET w == RollforwardTx(base, v, BlockTxs[b][n], Height(b))
         IN  /\ w \in Views(base)
             /\ Toward(Shown(v, base), Shown(w, base), CoinsUpTo(b, n - 1), CoinsUpTo(b, n))
<1> DEFINE t == BlockTxs[b][n]
           h == Height(b)
           s == Spend(v, base, Inputs[t])
           w == RollforwardTx(base, v, t, h)
           over == Value(s[t], base[t]) # NoCoin
<1>0. v \in [Txs -> Entries]  BY DEF Views
<1>1. /\ t \in Txs /\ t \notin Inputs[t] /\ Inputs[t] \subseteq Txs
      /\ CoinsUpTo(b, n)[t] = h
      /\ \A o \in Inputs[t] : CoinsUpTo(b, n)[o] = NoCoin
      /\ \A o \in Txs \ Inputs[t] : o # t => CoinsUpTo(b, n)[o] = CoinsUpTo(b, n - 1)[o]
  BY CoinsStep
<1>2. /\ s \in [Txs -> Entries] /\ s \in Views(base)
      /\ \A o \in Txs : Value(s[o], base[o]) = IF o \in Inputs[t] THEN NoCoin ELSE Value(v[o], base[o])
  BY <1>0, SpendView
<1>3. w = [s EXCEPT ![t] = Added(s[t], h, over)]  BY <1>2 DEF RollforwardTx
<1>4. h \in CoinHeights  BY CoinTypes
<1>5. /\ Added(s[t], h, over) \in Entries /\ Sound(Added(s[t], h, over), base[t])
      /\ Value(Added(s[t], h, over), base[t]) = h
  <2>1. s[t] \in Entries /\ base[t] \in CoinOrNone /\ Sound(s[t], base[t])
    BY <1>1, <1>2, ShownMap DEF Views
  <2>2. over \in BOOLEAN /\ (over \/ Value(s[t], base[t]) = NoCoin)  OBVIOUS
  <2> HIDE DEF s, over, h
  <2> QED BY <1>4, <2>1, <2>2, AddedSound
<1> HIDE DEF s, w, over, h
<1>6. w \in [Txs -> Entries] /\ \A o \in Txs : w[o] = IF o = t THEN Added(s[t], h, over) ELSE s[o]
  BY <1>1, <1>2, <1>3, <1>5
<1>7. w \in Views(base)
  <2>1. \A o \in Txs : Sound(w[o], base[o])  BY <1>2, <1>5, <1>6 DEF Views
  <2> QED BY <1>6, <2>1 DEF Views
<1>8. \A o \in Txs : Shown(w, base)[o] = Value(w[o], base[o]) /\ Shown(v, base)[o] = Value(v[o], base[o])
  BY DEF Shown
<1>9. \A o \in Txs : Value(w[o], base[o]) = IF o = t THEN h ELSE IF o \in Inputs[t] THEN NoCoin ELSE Value(v[o], base[o])
  BY <1>2, <1>5, <1>6
<1>10. Toward(Shown(v, base), Shown(w, base), CoinsUpTo(b, n - 1), CoinsUpTo(b, n))
  BY <1>1, <1>8, <1>9 DEF Toward
<1> QED BY <1>7, <1>10 DEF w, h

\* Any view stays one under RollforwardTx.
LEMMA RollforwardTxType ==
  ASSUME NEW base \in Maps, NEW v \in [Txs -> Entries], NEW t \in Txs, NEW h \in CoinHeights
  PROVE  RollforwardTx(base, v, t, h) \in [Txs -> Entries]
<1> DEFINE s == Spend(v, base, Inputs[t])
           over == Value(s[t], base[t]) # NoCoin
<1>1. s \in [Txs -> Entries]  BY SpendView
<1>2. RollforwardTx(base, v, t, h) = [s EXCEPT ![t] = Added(s[t], h, over)]
  BY <1>1 DEF RollforwardTx
<1>3. s[t] \in Entries /\ base[t] \in CoinOrNone /\ over \in BOOLEAN  BY <1>1, ShownMap
<1> HIDE DEF s, over
<1>4. Added(s[t], h, over) \in Entries  BY <1>3, EntryTypes
<1> QED BY <1>1, <1>2, <1>4

\* DisconnectTx leads back from the coins after the transaction to those before it,
\* and is clean where all of them are there.
LEMMA DisconnectTxStep ==
  ASSUME NEW base \in Maps, NEW v \in Views(base), NEW clean \in BOOLEAN,
         NEW b \in Blocks \ {Genesis}, NEW n \in 1..Len(BlockTxs[b]),
         NEW undone, \A o \in Inputs[BlockTxs[b][n]] : undone[o] = Made(b, o)
  PROVE  LET s == DisconnectTx(base, [view |-> v, clean |-> clean], BlockTxs[b][n], Height(b), undone)
         IN  /\ s.view \in Views(base)
             /\ Toward(Shown(v, base), Shown(s.view, base), CoinsUpTo(b, n), CoinsUpTo(b, n - 1))
             /\ clean /\ Shown(v, base) = CoinsUpTo(b, n) => s.clean
<1> DEFINE t == BlockTxs[b][n]
           h == Height(b)
           g == Spend(v, base, {t})
           have(o) == Value(g[o], base[o]) # NoCoin
           s == DisconnectTx(base, [view |-> v, clean |-> clean], t, h, undone)
           w == [o \in Txs |-> IF o \in Inputs[t] THEN Added(g[o], undone[o], have(o)) ELSE g[o]]
<1>0. v \in [Txs -> Entries]  BY DEF Views
<1>1. /\ t \in Txs /\ t \notin Inputs[t] /\ Inputs[t] \subseteq Txs
      /\ CoinsUpTo(b, n - 1)[t] = NoCoin /\ CoinsUpTo(b, n)[t] = h
      /\ \A o \in Inputs[t] : /\ CoinsUpTo(b, n - 1)[o] = undone[o] /\ undone[o] \in CoinHeights
                              /\ CoinsUpTo(b, n)[o] = NoCoin
      /\ \A o \in Txs \ Inputs[t] : o # t => CoinsUpTo(b, n)[o] = CoinsUpTo(b, n - 1)[o]
  BY CoinsStep
<1>2. /\ g \in [Txs -> Entries] /\ g \in Views(base)
      /\ \A o \in Txs : Value(g[o], base[o]) = IF o = t THEN NoCoin ELSE Value(v[o], base[o])
  BY <1>0, SpendView
<1>3. s.view = w /\ s.clean = (/\ clean /\ Fetched(v[t], base[t]).coin = h
                               /\ \A o \in Inputs[t] : ~have(o))
  BY DEF DisconnectTx
<1>4. ASSUME NEW o \in Inputs[t]
      PROVE  /\ w[o] \in Entries /\ Sound(w[o], base[o]) /\ Value(w[o], base[o]) = undone[o]
  <2>1. o \in Txs /\ g[o] \in Entries /\ base[o] \in CoinOrNone /\ Sound(g[o], base[o])
    BY <1>1, <1>2, ShownMap DEF Views
  <2>2. have(o) \in BOOLEAN /\ (have(o) \/ Value(g[o], base[o]) = NoCoin)  OBVIOUS
  <2>3. w[o] = Added(g[o], undone[o], have(o))  BY <2>1
  <2> HIDE DEF g, have, w
  <2> QED BY <1>1, <2>1, <2>2, <2>3, AddedSound
<1>5. \A o \in Txs \ Inputs[t] : w[o] = g[o]  OBVIOUS
<1>6. DOMAIN w = Txs /\ w = [o \in Txs |-> w[o]]  OBVIOUS
<1> HIDE DEF s, g, w, h
<1>7. \A o \in Txs : w[o] \in Entries /\ Sound(w[o], base[o])  BY <1>2, <1>4, <1>5 DEF Views
<1>8. w \in Views(base)  BY <1>6, <1>7 DEF Views
<1>9. \A o \in Txs : Value(w[o], base[o]) = IF o \in Inputs[t] THEN undone[o]
                                            ELSE IF o = t THEN NoCoin ELSE Value(v[o], base[o])
  BY <1>2, <1>4, <1>5
<1>10. \A o \in Txs : Shown(w, base)[o] = Value(w[o], base[o]) /\ Shown(v, base)[o] = Value(v[o], base[o])
  BY DEF Shown
<1>11. Toward(Shown(v, base), Shown(w, base), CoinsUpTo(b, n), CoinsUpTo(b, n - 1))
  BY <1>1, <1>9, <1>10 DEF Toward
<1>12. ASSUME clean, Shown(v, base) = CoinsUpTo(b, n) PROVE s.clean
  <2>1. \A o \in Txs : Value(v[o], base[o]) = CoinsUpTo(b, n)[o]  BY <1>10, <1>12
  <2>2. v[t] \in Entries /\ base[t] \in CoinOrNone /\ Sound(v[t], base[t])
    BY <1>0, <1>1, ShownMap DEF Views
  <2>3. Fetched(v[t], base[t]).coin = h  BY <1>1, <2>1, <2>2, FetchedSound
  <2>4. \A o \in Inputs[t] : ~have(o)  BY <1>1, <1>2, <2>1
  <2> QED BY <1>3, <1>12, <2>3, <2>4
<1> QED BY <1>3, <1>8, <1>11, <1>12 DEF s, h

\* Any view stays one under DisconnectTx.
LEMMA DisconnectTxType ==
  ASSUME NEW base \in Maps, NEW s \in [view : [Txs -> Entries], clean : BOOLEAN],
         NEW t \in Txs, NEW h, NEW undone, \A o \in Inputs[t] : undone[o] \in CoinHeights
  PROVE  DisconnectTx(base, s, t, h, undone) \in [view : [Txs -> Entries], clean : BOOLEAN]
<1> DEFINE g == Spend(s.view, base, {t})
           have(o) == Value(g[o], base[o]) # NoCoin
           w == [o \in Txs |-> IF o \in Inputs[t] THEN Added(g[o], undone[o], have(o)) ELSE g[o]]
           c == /\ s.clean /\ Fetched(s.view[t], base[t]).coin = h
                /\ \A o \in Inputs[t] : ~have(o)
<1>1. DisconnectTx(base, s, t, h, undone) = [view |-> w, clean |-> c]  BY DEF DisconnectTx
<1>2. g \in [Txs -> Entries]  BY SpendView
<1>3. \A o \in Txs : g[o] \in Entries /\ base[o] \in CoinOrNone /\ have(o) \in BOOLEAN
  BY <1>2 DEF Maps
<1>4. \A o \in Txs : w[o] \in Entries
  <2> TAKE o \in Txs
  <2>1. CASE o \in Inputs[t]
    <3>1. w[o] = Added(g[o], undone[o], have(o))  BY <2>1
    <3> HIDE DEF g, have, w
    <3> QED BY <1>3, <2>1, <3>1, EntryTypes
  <2>2. CASE o \notin Inputs[t]
    BY <1>3, <2>2
  <2> QED BY <2>1, <2>2
<1>5. w \in [Txs -> Entries]  BY <1>4
<1>6. c \in BOOLEAN  OBVIOUS
<1> HIDE DEF w, c
<1> QED BY <1>1, <1>5, <1>6

\* The undo data of the first n transactions of b.
UndoUpTo(b, n) == [o \in SpentBy({BlockTxs[b][i] : i \in 1..n}) |-> Made(b, o)]
UndoOf(b) == [o \in SpentBy(TxsOf(b)) |-> Made(b, o)]

\* UpdateCoins leads from the coins before the transaction to those after it, and
\* remembers those it spends.
LEMMA UpdateCoinsStep ==
  ASSUME NEW base \in Maps, NEW v \in Views(base),
         NEW b \in Blocks \ {Genesis}, NEW n \in 1..Len(BlockTxs[b]),
         Shown(v, base) = CoinsUpTo(b, n - 1)
  PROVE  LET s == UpdateCoins(base, [view |-> v, undo |-> UndoUpTo(b, n - 1)], BlockTxs[b][n], Height(b))
         IN  /\ s.view \in Views(base) /\ Shown(s.view, base) = CoinsUpTo(b, n)
             /\ s.undo = UndoUpTo(b, n)
<1> DEFINE t == BlockTxs[b][n]
           h == Height(b)
           g == Spend(v, base, Inputs[t])
           s == UpdateCoins(base, [view |-> v, undo |-> UndoUpTo(b, n - 1)], t, h)
           w == [g EXCEPT ![t] = Added(g[t], h, IsCoinBase(t))]
           spent == [o \in Inputs[t] |-> Fetched(v[o], base[o]).coin]
<1>0. v \in [Txs -> Entries]  BY DEF Views
<1>1. /\ t \in Txs /\ t \notin Inputs[t] /\ Inputs[t] \subseteq Txs
      /\ CoinsUpTo(b, n - 1)[t] = NoCoin /\ CoinsUpTo(b, n)[t] = h
      /\ \A o \in Inputs[t] : CoinsUpTo(b, n - 1)[o] = Made(b, o) /\ CoinsUpTo(b, n)[o] = NoCoin
      /\ \A o \in Txs \ Inputs[t] : o # t => CoinsUpTo(b, n)[o] = CoinsUpTo(b, n - 1)[o]
  BY CoinsStep
<1>2. /\ g \in [Txs -> Entries] /\ g \in Views(base)
      /\ \A o \in Txs : Value(g[o], base[o]) = IF o \in Inputs[t] THEN NoCoin ELSE Value(v[o], base[o])
  BY <1>0, SpendView
<1>3. /\ s.view = w
      /\ s.undo = [o \in DOMAIN UndoUpTo(b, n - 1) \cup Inputs[t] |->
                     IF o \in Inputs[t] THEN spent[o] ELSE UndoUpTo(b, n - 1)[o]]
  BY <1>2 DEF UpdateCoins
<1>4. \A o \in Txs : Value(v[o], base[o]) = CoinsUpTo(b, n - 1)[o]
  <2>1. \A o \in Txs : Shown(v, base)[o] = Value(v[o], base[o])  BY DEF Shown
  <2> QED BY <2>1
<1>5. \A o \in Inputs[t] : spent[o] = Made(b, o)
  <2> TAKE o \in Inputs[t]
  <2>1. v[o] \in Entries /\ base[o] \in CoinOrNone /\ Sound(v[o], base[o])
    BY <1>0, <1>1, ShownMap DEF Views
  <2>2. Fetched(v[o], base[o]).coin = Value(v[o], base[o])  BY <2>1, FetchedSound
  <2> QED BY <1>1, <1>4, <2>2
<1>6. /\ Added(g[t], h, IsCoinBase(t)) \in Entries /\ Sound(Added(g[t], h, IsCoinBase(t)), base[t])
      /\ Value(Added(g[t], h, IsCoinBase(t)), base[t]) = h
  <2>1. g[t] \in Entries /\ base[t] \in CoinOrNone /\ Sound(g[t], base[t])
    BY <1>1, <1>2, ShownMap DEF Views
  <2>2. IsCoinBase(t) \in BOOLEAN /\ Value(g[t], base[t]) = NoCoin
    BY <1>1, <1>2, <1>4 DEF IsCoinBase
  <2>3. h \in CoinHeights  BY CoinTypes
  <2> HIDE DEF g, h
  <2> QED BY <2>1, <2>2, <2>3, AddedSound
<1>7. w \in [Txs -> Entries] /\ \A o \in Txs : w[o] = IF o = t THEN Added(g[t], h, IsCoinBase(t)) ELSE g[o]
  <2> HIDE DEF g, h
  <2> QED BY <1>1, <1>2, <1>6
<1> HIDE DEF s, g, w, h, spent
<1>8. w \in Views(base)
  <2>1. \A o \in Txs : Sound(w[o], base[o])  BY <1>2, <1>6, <1>7 DEF Views
  <2> QED BY <1>7, <2>1 DEF Views
<1>9. \A o \in Txs : Value(w[o], base[o]) = CoinsUpTo(b, n)[o]
  BY <1>1, <1>2, <1>4, <1>6, <1>7
<1>10. Shown(w, base) = CoinsUpTo(b, n)
  <2>1. CoinsUpTo(b, n) = [o \in Txs |-> CoinsUpTo(b, n)[o]]  BY DEF CoinsUpTo
  <2> QED BY <1>9, <2>1 DEF Shown
<1>11. s.undo = UndoUpTo(b, n)
  <2>1. SpentBy({BlockTxs[b][i] : i \in 1..n}) = SpentBy({BlockTxs[b][i] : i \in 1..(n - 1)}) \cup Inputs[t]
    <3>1. 1..n = 1..(n - 1) \cup {n}  BY BlockOf
    <3> QED BY <3>1 DEF SpentBy
  <2> QED BY <1>3, <1>5, <2>1 DEF UndoUpTo
<1> QED BY <1>3, <1>8, <1>10, <1>11 DEF s, h

-----------------------------------------------------------------------------
(* A loop over the transactions of a block.                                 *)

\* f runs in N steps from s0 through S, the n-th by G[n].
Runs(f, S, s0, N, G) == f \in [0..N -> S] /\ f[0] = s0 /\ \A n \in 1..N : f[n] = G[n][f[n - 1]]
Steps(S, N, G) == N \in Nat /\ G \in [1..N -> [S -> S]]

\* There is such a run.
LEMMA Iterate ==
  ASSUME NEW S, NEW s0 \in S, NEW N, NEW G, Steps(S, N, G)
  PROVE  \E f : Runs(f, S, s0, N, G)
<1>0. N \in Nat /\ G \in [1..N -> [S -> S]]  BY DEF Steps
<1> DEFINE Good(f, k) == Runs(f, S, s0, k, G)
           T == {k \in 0..N : \E f : Good(f, k)}
<1>1. 0 \in T
  <2>1. Good([k \in 0..0 |-> s0], 0)  BY DEF Runs
  <2> HIDE DEF Good
  <2> QED BY <1>0, <2>1
<1>2. ASSUME NEW k \in 1..N, k - 1 \in T PROVE k \in T
  <2>0. PICK f : Good(f, k - 1)  BY <1>2
  <2>1. f \in [0..(k - 1) -> S] /\ f[0] = s0 /\ \A n \in 1..(k - 1) : f[n] = G[n][f[n - 1]]
    BY <2>0 DEF Runs
  <2> DEFINE g == [m \in 0..k |-> IF m = k THEN G[k][f[k - 1]] ELSE f[m]]
  <2>2. k \in 1..N /\ k - 1 \in 0..(k - 1) /\ f[k - 1] \in S  BY <1>0, <2>1
  <2>3. G[k][f[k - 1]] \in S  BY <1>0, <2>2
  <2>4. g \in [0..k -> S]  BY <1>0, <2>1, <2>3
  <2>5. g[0] = s0  BY <1>0, <2>1
  <2>6. ASSUME NEW m \in 1..k PROVE g[m] = G[m][g[m - 1]]
    <3>1. m \in 0..k /\ m - 1 \in 0..k /\ m - 1 # k  BY <1>0
    <3>2. g[m - 1] = f[m - 1]  BY <3>1
    <3>3. CASE m = k
      BY <3>1, <3>2, <3>3
    <3>4. CASE m # k
      <4>1. m \in 1..(k - 1)  BY <1>0, <3>4
      <4> QED BY <2>1, <3>1, <3>2, <3>4, <4>1
    <3> QED BY <3>3, <3>4
  <2>7. Good(g, k)  BY <2>4, <2>5, <2>6 DEF Runs
  <2> HIDE DEF Good, g
  <2>8. k \in 0..N  BY <1>0
  <2> QED BY <2>7, <2>8
<1>3. N \in T
  <2> HIDE DEF T
  <2>1. 0..N \subseteq T  BY <1>0, <1>1, <1>2, CountUp
  <2> QED BY <1>0, <2>1
<1> QED BY <1>3

\* RollforwardBlock runs through the transactions in order.
LEMMA RollforwardBlockIs ==
  ASSUME NEW base \in Maps, NEW v \in [Txs -> Entries], NEW b \in Blocks
  PROVE  \E a \in [0..Len(BlockTxs[b]) -> [Txs -> Entries]] :
           /\ a[0] = v /\ RollforwardBlock(base, v, b) = a[Len(BlockTxs[b])]
           /\ \A n \in 1..Len(BlockTxs[b]) :
                a[n] = RollforwardTx(base, a[n - 1], BlockTxs[b][n], Height(b))
<1> DEFINE N == Len(BlockTxs[b])
           V == [Txs -> Entries]
           s0 == v
           Step(n, u) == RollforwardTx(base, u, BlockTxs[b][n], Height(b))
           G == [n \in 1..N |-> [u \in V |-> Step(n, u)]]
           F(f) == [n \in 0..N |-> IF n = 0 THEN s0 ELSE Step(n, f[n - 1])]
           a == CHOOSE f : f = F(f)
<1>1. N \in Nat /\ \A n \in 1..N : BlockTxs[b][n] \in Txs  BY BlockOf
<1>2. \A n \in 1..N : \A u \in V : Step(n, u) \in V
  BY <1>1, CoinTypes, RollforwardTxType
<1>3. RollforwardBlock(base, v, b) = a[N]  BY DEF RollforwardBlock
<1> HIDE DEF N, V, Step, s0
<1>4. PICK f : Runs(f, V, s0, N, G)
  <2>1. Steps(V, N, G)  BY <1>1, <1>2 DEF Steps
  <2>2. s0 \in V  BY DEF V, s0
  <2> HIDE DEF G
  <2> QED BY <2>1, <2>2, Iterate
<1>5. f = F(f)
  <2>0. f \in [0..N -> V] /\ f[0] = s0 /\ \A n \in 1..N : f[n] = G[n][f[n - 1]]
    BY <1>4 DEF Runs
  <2>1. ASSUME NEW n \in 0..N PROVE f[n] = IF n = 0 THEN s0 ELSE Step(n, f[n - 1])
    <3>1. CASE n = 0
      BY <2>0, <3>1
    <3>2. CASE n # 0
      <4>1. n \in 1..N /\ n - 1 \in 0..N  BY <1>1, <3>2
      <4>2. f[n - 1] \in V  BY <2>0, <4>1
      <4> QED BY <2>0, <3>2, <4>1, <4>2
    <3> QED BY <3>1, <3>2
  <2>2. f = [n \in 0..N |-> f[n]]  BY <2>0
  <2> QED BY <2>1, <2>2
<1>6. a = F(a)
  <2> HIDE DEF F
  <2> QED BY <1>5
<1> HIDE DEF a
<1>7. a[0] = s0 /\ \A n \in 1..N : a[n] = Step(n, a[n - 1])
  <2>1. 0 \in 0..N /\ \A n \in 1..N : n \in 0..N /\ n # 0  BY <1>1
  <2>2. \A n \in 0..N : a[n] = IF n = 0 THEN s0 ELSE Step(n, a[n - 1])  BY <1>6
  <2> QED BY <2>1, <2>2
<1>8. a \in [0..N -> V]
  <2> DEFINE T == {n \in 0..N : a[n] \in V}
  <2>0. s0 \in V  BY DEF V, s0
  <2>1. 0 \in T  BY <1>1, <1>7, <2>0
  <2>2. ASSUME NEW n \in 1..N, n - 1 \in T PROVE n \in T
    <3>1. n \in 0..N  BY <1>1
    <3> QED BY <1>2, <1>7, <2>2, <3>1
  <2>3. 0..N \subseteq T
    <3> HIDE DEF T
    <3> QED BY <1>1, <2>1, <2>2, CountUp
  <2>4. \A n \in 0..N : a[n] \in V  BY <2>3
  <2>5. a = [n \in 0..N |-> a[n]]  BY <1>6
  <2> QED BY <2>4, <2>5
<1> QED BY <1>3, <1>7, <1>8 DEF N, V, Step, s0


\* undone has a coin for everything b spends.
Undoes(undone, b) ==
  \A n \in 1..Len(BlockTxs[b]) : \A o \in Inputs[BlockTxs[b][n]] : undone[o] \in CoinHeights

\* DisconnectBlock runs through them in reverse order.
LEMMA DisconnectBlockIs ==
  ASSUME NEW base \in Maps, NEW v \in [Txs -> Entries], NEW b \in Blocks, NEW undone,
         Undoes(undone, b)
  PROVE  \E a \in [0..Len(BlockTxs[b]) -> [view : [Txs -> Entries], clean : BOOLEAN]] :
           /\ a[0] = [view |-> v, clean |-> TRUE]
           /\ DisconnectBlock(base, v, b, undone) = a[Len(BlockTxs[b])]
           /\ \A n \in 1..Len(BlockTxs[b]) :
                a[n] = DisconnectTx(base, a[n - 1], BlockTxs[b][Len(BlockTxs[b]) + 1 - n], Height(b), undone)
<1> DEFINE N == Len(BlockTxs[b])
           V == [view : [Txs -> Entries], clean : BOOLEAN]
           s0 == [view |-> v, clean |-> TRUE]
           Step(n, u) == DisconnectTx(base, u, BlockTxs[b][N + 1 - n], Height(b), undone)
           G == [n \in 1..N |-> [u \in V |-> Step(n, u)]]
           F(f) == [n \in 0..N |-> IF n = 0 THEN s0 ELSE Step(n, f[n - 1])]
           a == CHOOSE f : f = F(f)
<1>1. N \in Nat /\ \A n \in 1..N : BlockTxs[b][n] \in Txs  BY BlockOf
<1>2. ASSUME NEW n \in 1..N, NEW u \in V PROVE Step(n, u) \in V
  <2>1. N + 1 - n \in 1..N  BY <1>1
  <2>2. /\ BlockTxs[b][N + 1 - n] \in Txs
        /\ \A o \in Inputs[BlockTxs[b][N + 1 - n]] : undone[o] \in CoinHeights
    BY <1>1, <2>1 DEF Undoes
  <2> QED BY <2>2, DisconnectTxType
<1>3. DisconnectBlock(base, v, b, undone) = a[N]  BY DEF DisconnectBlock
<1> HIDE DEF N, V, Step, s0
<1>4. PICK f : Runs(f, V, s0, N, G)
  <2>1. Steps(V, N, G)  BY <1>1, <1>2 DEF Steps
  <2>2. s0 \in V  BY DEF V, s0
  <2> HIDE DEF G
  <2> QED BY <2>1, <2>2, Iterate
<1>5. f = F(f)
  <2>0. f \in [0..N -> V] /\ f[0] = s0 /\ \A n \in 1..N : f[n] = G[n][f[n - 1]]
    BY <1>4 DEF Runs
  <2>1. ASSUME NEW n \in 0..N PROVE f[n] = IF n = 0 THEN s0 ELSE Step(n, f[n - 1])
    <3>1. CASE n = 0
      BY <2>0, <3>1
    <3>2. CASE n # 0
      <4>1. n \in 1..N /\ n - 1 \in 0..N  BY <1>1, <3>2
      <4>2. f[n - 1] \in V  BY <2>0, <4>1
      <4> QED BY <2>0, <3>2, <4>1, <4>2
    <3> QED BY <3>1, <3>2
  <2>2. f = [n \in 0..N |-> f[n]]  BY <2>0
  <2> QED BY <2>1, <2>2
<1>6. a = F(a)
  <2> HIDE DEF F
  <2> QED BY <1>5
<1> HIDE DEF a
<1>7. a[0] = s0 /\ \A n \in 1..N : a[n] = Step(n, a[n - 1])
  <2>1. 0 \in 0..N /\ \A n \in 1..N : n \in 0..N /\ n # 0  BY <1>1
  <2>2. \A n \in 0..N : a[n] = IF n = 0 THEN s0 ELSE Step(n, a[n - 1])  BY <1>6
  <2> QED BY <2>1, <2>2
<1>8. a \in [0..N -> V]
  <2> DEFINE T == {n \in 0..N : a[n] \in V}
  <2>0. s0 \in V  BY DEF V, s0
  <2>1. 0 \in T  BY <1>1, <1>7, <2>0
  <2>2. ASSUME NEW n \in 1..N, n - 1 \in T PROVE n \in T
    <3>1. n \in 0..N  BY <1>1
    <3> QED BY <1>2, <1>7, <2>2, <3>1
  <2>3. 0..N \subseteq T
    <3> HIDE DEF T
    <3> QED BY <1>1, <2>1, <2>2, CountUp
  <2>4. \A n \in 0..N : a[n] \in V  BY <2>3
  <2>5. a = [n \in 0..N |-> a[n]]  BY <1>6
  <2> QED BY <2>4, <2>5
<1> QED BY <1>3, <1>7, <1>8 DEF N, V, Step, s0

\* Any view and undo data stay such under UpdateCoins.
Undos == UNION {[D -> CoinOrNone] : D \in SUBSET Txs}

LEMMA UpdateCoinsType ==
  ASSUME NEW base \in Maps, NEW s \in [view : [Txs -> Entries], undo : Undos],
         NEW t \in Txs, NEW h \in CoinHeights
  PROVE  UpdateCoins(base, s, t, h) \in [view : [Txs -> Entries], undo : Undos]
<1> DEFINE g == Spend(s.view, base, Inputs[t])
           spent == [o \in Inputs[t] |-> Fetched(s.view[o], base[o]).coin]
           w == [g EXCEPT ![t] = Added(g[t], h, IsCoinBase(t))]
           u == [o \in DOMAIN s.undo \cup Inputs[t] |-> IF o \in Inputs[t] THEN spent[o] ELSE s.undo[o]]
<1>1. g \in [Txs -> Entries]  BY SpendView
<1>2. UpdateCoins(base, s, t, h) = [view |-> w, undo |-> u]  BY <1>1 DEF UpdateCoins
<1>3. Inputs[t] \subseteq Txs /\ IsCoinBase(t) \in BOOLEAN  BY InputsOf DEF IsCoinBase
<1>4. \A o \in Txs : s.view[o] \in Entries /\ g[o] \in Entries /\ base[o] \in CoinOrNone
  BY <1>1 DEF Maps
<1>5. \A o \in Inputs[t] : spent[o] \in CoinOrNone
  <2> TAKE o \in Inputs[t]
  <2>1. Fetched(s.view[o], base[o]).coin \in CoinOrNone  BY <1>3, <1>4, EntryTypes
  <2> QED BY <2>1
<1>6. w \in [Txs -> Entries]
  <2>1. Added(g[t], h, IsCoinBase(t)) \in Entries
    <3> HIDE DEF g
    <3> QED BY <1>3, <1>4, EntryTypes
  <2> HIDE DEF g
  <2> QED BY <1>1, <2>1
<1>7. u \in Undos
  <2>1. PICK D \in SUBSET Txs : s.undo \in [D -> CoinOrNone]  BY DEF Undos
  <2> HIDE DEF spent
  <2>2. u \in [D \cup Inputs[t] -> CoinOrNone]  BY <1>5, <2>1
  <2>3. D \cup Inputs[t] \in SUBSET Txs  BY <1>3
  <2> HIDE DEF u
  <2> QED BY <2>2, <2>3 DEF Undos
<1> HIDE DEF w, u
<1> QED BY <1>2, <1>6, <1>7

\* ConnectBlock runs through the transactions in order.
LEMMA ConnectBlockIs ==
  ASSUME NEW base \in Maps, NEW b \in Blocks
  PROVE  \E a :
           /\ a[0] = [view |-> Empty, undo |-> <<>>]
           /\ ConnectBlock(base, b) = a[Len(BlockTxs[b])]
           /\ \A n \in 1..Len(BlockTxs[b]) :
                a[n] = UpdateCoins(base, a[n - 1], BlockTxs[b][n], Height(b))
<1> DEFINE N == Len(BlockTxs[b])
           V == [view : [Txs -> Entries], undo : Undos]
           s0 == [view |-> Empty, undo |-> <<>>]
           Step(n, u) == UpdateCoins(base, u, BlockTxs[b][n], Height(b))
           G == [n \in 1..N |-> [u \in V |-> Step(n, u)]]
           F(f) == [n \in 0..N |-> IF n = 0 THEN s0 ELSE Step(n, f[n - 1])]
           a == CHOOSE f : f = F(f)
<1>1. N \in Nat /\ \A n \in 1..N : BlockTxs[b][n] \in Txs  BY BlockOf
<1>2. \A n \in 1..N : \A u \in V : Step(n, u) \in V
  BY <1>1, CoinTypes, UpdateCoinsType
<1>3. ConnectBlock(base, b) = a[N]  BY DEF ConnectBlock
<1> HIDE DEF N, V, Step, s0
<1>4. PICK f : Runs(f, V, s0, N, G)
  <2>1. Steps(V, N, G)  BY <1>1, <1>2 DEF Steps
  <2>2. s0 \in V
    <3>1. Empty \in [Txs -> Entries]  BY EmptyView DEF Views
    <3>2. <<>> \in [{} -> CoinOrNone] /\ {} \in SUBSET Txs  OBVIOUS
    <3>3. <<>> \in Undos  BY <3>2 DEF Undos
    <3> QED BY <3>1, <3>3 DEF V, s0
  <2> HIDE DEF G
  <2> QED BY <2>1, <2>2, Iterate
<1>5. f = F(f)
  <2>0. f \in [0..N -> V] /\ f[0] = s0 /\ \A n \in 1..N : f[n] = G[n][f[n - 1]]
    BY <1>4 DEF Runs
  <2>1. ASSUME NEW n \in 0..N PROVE f[n] = IF n = 0 THEN s0 ELSE Step(n, f[n - 1])
    <3>1. CASE n = 0
      BY <2>0, <3>1
    <3>2. CASE n # 0
      <4>1. n \in 1..N /\ n - 1 \in 0..N  BY <1>1, <3>2
      <4>2. f[n - 1] \in V  BY <2>0, <4>1
      <4> QED BY <2>0, <3>2, <4>1, <4>2
    <3> QED BY <3>1, <3>2
  <2>2. f = [n \in 0..N |-> f[n]]  BY <2>0
  <2> QED BY <2>1, <2>2
<1>6. a = F(a)
  <2> HIDE DEF F
  <2> QED BY <1>5
<1> HIDE DEF a
<1>7. a[0] = s0 /\ \A n \in 1..N : a[n] = Step(n, a[n - 1])
  <2>1. 0 \in 0..N /\ \A n \in 1..N : n \in 0..N /\ n # 0  BY <1>1
  <2>2. \A n \in 0..N : a[n] = IF n = 0 THEN s0 ELSE Step(n, a[n - 1])  BY <1>6
  <2> QED BY <2>1, <2>2
<1> QED BY <1>3, <1>7 DEF N, Step, s0

-----------------------------------------------------------------------------
(* Whole blocks.                                                            *)

\* RollforwardBlock leads from the coins of the parent to those of the block.
LEMMA RollforwardBlockStep ==
  ASSUME NEW base \in Maps, NEW v \in Views(base), NEW b \in Blocks \ {Genesis}
  PROVE  LET w == RollforwardBlock(base, v, b)
         IN  w \in Views(base) /\ Toward(Shown(v, base), Shown(w, base), Utxo(Parent[b]), Utxo(b))
<1> DEFINE N == Len(BlockTxs[b])
           Q(u, n) == u \in Views(base) /\ Toward(Shown(v, base), Shown(u, base), CoinsUpTo(b, 0), CoinsUpTo(b, n))
<1>0. N \in Nat /\ v \in [Txs -> Entries]  BY BlockOf DEF Views
<1>1. PICK a \in [0..N -> [Txs -> Entries]] :
        /\ a[0] = v /\ RollforwardBlock(base, v, b) = a[N]
        /\ \A n \in 1..N : a[n] = RollforwardTx(base, a[n - 1], BlockTxs[b][n], Height(b))
  BY <1>0, RollforwardBlockIs
<1> DEFINE T == {n \in 0..N : Q(a[n], n)}
<1>2. 0 \in T  BY <1>0, <1>1 DEF Toward
<1>3. ASSUME NEW n \in 1..N, n - 1 \in T PROVE n \in T
  <2>1. Q(a[n - 1], n - 1) /\ n \in 0..N  BY <1>0, <1>3
  <2>2. /\ a[n] \in Views(base)
        /\ Toward(Shown(a[n - 1], base), Shown(a[n], base), CoinsUpTo(b, n - 1), CoinsUpTo(b, n))
    BY <1>1, <2>1, RollforwardTxStep
  <2> QED BY <2>1, <2>2, TowardTrans
<1>4. Q(a[N], N)
  <2> HIDE DEF Q
  <2>1. 0..N \subseteq T
    <3> HIDE DEF T
    <3> QED BY <1>0, <1>2, <1>3, CountUp
  <2> QED BY <1>0, <2>1
<1> QED BY <1>1, <1>4, CoinsEnds

\* The undo data of a block has what it spends.
LEMMA UndoComplete ==
  ASSUME NEW b \in Blocks \ {Genesis}
  PROVE  /\ Undoes(UndoOf(b), b)
         /\ \A n \in 1..Len(BlockTxs[b]) : \A o \in Inputs[BlockTxs[b][n]] : UndoOf(b)[o] = Made(b, o)
<1>1. ASSUME NEW n \in 1..Len(BlockTxs[b]), NEW o \in Inputs[BlockTxs[b][n]]
      PROVE  UndoOf(b)[o] = Made(b, o) /\ UndoOf(b)[o] \in CoinHeights
  <2>1. BlockTxs[b][n] \in TxsOf(b)  BY BlockOf
  <2>2. o \in SpentBy(TxsOf(b))  BY <2>1 DEF SpentBy
  <2>3. Made(b, o) \in CoinHeights  BY CoinsStep
  <2> QED BY <2>2, <2>3 DEF UndoOf
<1> QED BY <1>1 DEF Undoes

\* DisconnectBlock leads from the coins of the block to those of its parent, and is
\* clean where they are all there.
LEMMA DisconnectBlockStep ==
  ASSUME NEW base \in Maps, NEW v \in Views(base), NEW b \in Blocks \ {Genesis}
  PROVE  LET s == DisconnectBlock(base, v, b, UndoOf(b))
         IN  /\ s.view \in Views(base)
             /\ Toward(Shown(v, base), Shown(s.view, base), Utxo(b), Utxo(Parent[b]))
             /\ Shown(v, base) = Utxo(b) => s.clean
<1> DEFINE N == Len(BlockTxs[b])
           undone == UndoOf(b)
           Q(s, n) == /\ s.view \in Views(base) /\ s.clean \in BOOLEAN
                      /\ Toward(Shown(v, base), Shown(s.view, base), CoinsUpTo(b, N), CoinsUpTo(b, N - n))
                      /\ Shown(v, base) = Utxo(b) => s.clean /\ Shown(s.view, base) = CoinsUpTo(b, N - n)
<1>0. N \in Nat /\ v \in [Txs -> Entries]  BY BlockOf DEF Views
<1>u. \A n \in 1..N : \A o \in Inputs[BlockTxs[b][n]] : undone[o] = Made(b, o)  BY UndoComplete
<1>v. Undoes(undone, b)  BY UndoComplete
<1> HIDE DEF undone
<1>1. PICK a \in [0..N -> [view : [Txs -> Entries], clean : BOOLEAN]] :
        /\ a[0] = [view |-> v, clean |-> TRUE] /\ DisconnectBlock(base, v, b, undone) = a[N]
        /\ \A n \in 1..N : a[n] = DisconnectTx(base, a[n - 1], BlockTxs[b][N + 1 - n], Height(b), undone)
  BY <1>0, <1>v, DisconnectBlockIs, SMTT(30)
<1>e. CoinsUpTo(b, 0) = Utxo(Parent[b]) /\ CoinsUpTo(b, N) = Utxo(b)  BY CoinsEnds
<1> DEFINE T == {n \in 0..N : Q(a[n], n)}
<1>2. 0 \in T
  <2>1. a[0].view = v /\ a[0].clean = TRUE /\ N - 0 = N /\ 0 \in 0..N  BY <1>0, <1>1
  <2> QED BY <2>1, <1>e DEF Toward
<1>3. ASSUME NEW n \in 1..N, n - 1 \in T PROVE n \in T
  <2> DEFINE m == N + 1 - n
             r == a[n - 1]
             s == a[n]
  <2>1. /\ Q(r, n - 1) /\ n \in 0..N /\ m \in 1..N /\ N - (n - 1) = m /\ N - n = m - 1
        /\ n - 1 \in 0..N
    BY <1>0, <1>3
  <2>2. r = [view |-> r.view, clean |-> r.clean]  BY <1>1, <2>1
  <2>3. s = DisconnectTx(base, [view |-> r.view, clean |-> r.clean], BlockTxs[b][m], Height(b), undone)
    BY <1>1, <2>2
  <2>4. s.clean \in BOOLEAN  BY <1>1, <2>1
  <2> HIDE DEF m, r, s
  <2>5. /\ r.view \in Views(base) /\ r.clean \in BOOLEAN
        /\ Toward(Shown(v, base), Shown(r.view, base), CoinsUpTo(b, N), CoinsUpTo(b, m))
        /\ Shown(v, base) = Utxo(b) => r.clean /\ Shown(r.view, base) = CoinsUpTo(b, m)
    BY <2>1
  <2>6. \A o \in Inputs[BlockTxs[b][m]] : undone[o] = Made(b, o)  BY <1>u, <2>1
  <2>7. /\ s.view \in Views(base)
        /\ Toward(Shown(r.view, base), Shown(s.view, base), CoinsUpTo(b, m), CoinsUpTo(b, m - 1))
        /\ r.clean /\ Shown(r.view, base) = CoinsUpTo(b, m) => s.clean
    BY <2>1, <2>3, <2>5, <2>6, DisconnectTxStep
  <2>8. Toward(Shown(v, base), Shown(s.view, base), CoinsUpTo(b, N), CoinsUpTo(b, m - 1))
    BY <2>5, <2>7, TowardTrans
  <2>9. Shown(r.view, base) = CoinsUpTo(b, m) => Shown(s.view, base) = CoinsUpTo(b, m - 1)
    <3>1. /\ DOMAIN Shown(s.view, base) = Txs /\ DOMAIN CoinsUpTo(b, m - 1) = Txs
          /\ Shown(s.view, base) = [o \in Txs |-> Shown(s.view, base)[o]]
          /\ CoinsUpTo(b, m - 1) = [o \in Txs |-> CoinsUpTo(b, m - 1)[o]]
      BY DEF Shown, CoinsUpTo
    <3> QED BY <2>7, <3>1 DEF Toward
  <2>10. Q(s, n)  BY <2>1, <2>4, <2>5, <2>7, <2>8, <2>9
  <2> HIDE DEF Q
  <2> QED BY <2>1, <2>10 DEF s
<1>4. Q(a[N], N)
  <2> HIDE DEF Q
  <2>1. 0..N \subseteq T
    <3> HIDE DEF T
    <3> QED BY <1>0, <1>2, <1>3, CountUp
  <2> QED BY <1>0, <2>1
<1>5. N - N = 0  BY <1>0
<1> QED BY <1>1, <1>4, <1>5, <1>e DEF undone

\* ConnectBlock on the coins of the parent gives those of the block, and its undo data.
LEMMA ConnectBlockStep ==
  ASSUME NEW b \in Blocks \ {Genesis}
  PROVE  LET s == ConnectBlock(Utxo(Parent[b]), b)
         IN  /\ s.view \in Views(Utxo(Parent[b])) /\ Shown(s.view, Utxo(Parent[b])) = Utxo(b)
             /\ s.undo = UndoOf(b)
<1> DEFINE N == Len(BlockTxs[b])
           base == Utxo(Parent[b])
           Q(s, n) == /\ s = [view |-> s.view, undo |-> UndoUpTo(b, n)]
                      /\ s.view \in Views(base) /\ Shown(s.view, base) = CoinsUpTo(b, n)
<1>0. N \in Nat /\ base \in Maps  BY BlockOf, ParentBlock, CoinTypes DEF Maps
<1>e. CoinsUpTo(b, 0) = base /\ CoinsUpTo(b, N) = Utxo(b)  BY CoinsEnds
<1> HIDE DEF base
<1>1. PICK a : /\ a[0] = [view |-> Empty, undo |-> <<>>] /\ ConnectBlock(base, b) = a[N]
               /\ \A n \in 1..N : a[n] = UpdateCoins(base, a[n - 1], BlockTxs[b][n], Height(b))
  BY <1>0, ConnectBlockIs
<1> DEFINE T == {n \in 0..N : Q(a[n], n)}
<1>2. 0 \in T
  <2>1. UndoUpTo(b, 0) = <<>>
    <3>1. SpentBy({BlockTxs[b][i] : i \in 1..0}) = {}  BY DEF SpentBy
    <3> QED BY <3>1 DEF UndoUpTo
  <2>2. a[0].view = Empty /\ a[0] = [view |-> a[0].view, undo |-> UndoUpTo(b, 0)] /\ 0 \in 0..N
    BY <1>0, <1>1, <2>1
  <2>3. Empty \in Views(base) /\ Shown(Empty, base) = base  BY <1>0, EmptyView
  <2> QED BY <1>e, <2>2, <2>3
<1>3. ASSUME NEW n \in 1..N, n - 1 \in T PROVE n \in T
  <2> DEFINE r == a[n - 1]
             s == a[n]
  <2>1. Q(r, n - 1) /\ n \in 0..N  BY <1>0, <1>3
  <2>2. s = UpdateCoins(base, [view |-> r.view, undo |-> UndoUpTo(b, n - 1)], BlockTxs[b][n], Height(b))
    BY <1>1, <2>1
  <2>3. r.view \in Views(base) /\ Shown(r.view, base) = CoinsUpTo(b, n - 1)  BY <2>1
  <2> HIDE DEF r, s, Q
  <2>4. s.view \in Views(base) /\ Shown(s.view, base) = CoinsUpTo(b, n) /\ s.undo = UndoUpTo(b, n)
    BY <1>0, <2>2, <2>3, UpdateCoinsStep
  <2>5. s = [view |-> s.view, undo |-> s.undo]  BY <2>2 DEF UpdateCoins
  <2>6. Q(s, n)  BY <2>4, <2>5 DEF Q
  <2> QED BY <2>1, <2>6 DEF s
<1>4. Q(a[N], N)
  <2> HIDE DEF Q
  <2>1. 0..N \subseteq T
    <3> HIDE DEF T
    <3> QED BY <1>0, <1>2, <1>3, CountUp
  <2> QED BY <1>0, <2>1
<1>5. UndoUpTo(b, N) = UndoOf(b)
  <2>1. TxsOf(b) = {BlockTxs[b][i] : i \in 1..N}  BY BlockOf
  <2> QED BY <2>1 DEF UndoUpTo, UndoOf
<1>6. a[N].undo = UndoUpTo(b, N)  BY <1>4
<1> QED BY <1>1, <1>4, <1>5, <1>6, <1>e DEF base

-----------------------------------------------------------------------------
(* ReplayBlocks.                                                            *)

\* f takes a view back from each block of A to the first one in K, by D.
TakesBack(f, V, A, K, D) ==
  /\ f \in [A -> [V -> V]]
  /\ \A b \in A : \A v \in V : f[b][v] = IF b \in K THEN v ELSE f[Parent[b]][D[b][v]]

\* g takes w forward from K along A, by R.
TakesForward(g, V, A, K, w, R) ==
  /\ g \in [A -> V]
  /\ \A b \in A : g[b] = IF b \in K THEN w ELSE R[b][g[Parent[b]]]

\* There is such a recursion back along a chain.
LEMMA BackExists ==
  ASSUME NEW V, NEW K, Genesis \in K, NEW old \in Blocks, NEW D, D \in [Chain[old] \ K -> [V -> V]]
  PROVE  \E f : TakesBack(f, V, Chain[old], K, D)
<1> DEFINE Q(x) == x \in Chain[old] => \E f : TakesBack(f, V, Chain[x], K, D)
           T == {x \in Blocks : Q(x)}
<1>0. Genesis \in Blocks /\ Chain[Genesis] = {Genesis}  BY TreeAssumption, ChainOf
<1>1. Genesis \in T
  <2> DEFINE f == [x \in {Genesis} |-> [v \in V |-> v]]
  <2>1. TakesBack(f, V, Chain[Genesis], K, D)  BY <1>0 DEF TakesBack
  <2> HIDE DEF f
  <2> QED BY <1>0, <2>1
<1>2. ASSUME NEW x \in Blocks \ {Genesis}, Parent[x] \in T PROVE x \in T
  <2> SUFFICES ASSUME x \in Chain[old] PROVE \E f : TakesBack(f, V, Chain[x], K, D)
    OBVIOUS
  <2> DEFINE p == Parent[x]
  <2>1. /\ p \in Blocks /\ Chain[x] = Chain[p] \cup {x} /\ x \notin Chain[p] /\ p \in Chain[p]
        /\ Chain[x] \subseteq Chain[old] /\ p \in Chain[old]
    BY ParentBlock, ChainOf, ChainClosed, RootAssumption
  <2>2. PICK f : TakesBack(f, V, Chain[p], K, D)  BY <1>2, <2>1
  <2> DEFINE g == [y \in Chain[x] |->
                     IF y = x THEN [v \in V |-> IF x \in K THEN v ELSE f[p][D[x][v]]] ELSE f[y]]
  <2>3. /\ f \in [Chain[p] -> [V -> V]]
        /\ \A b \in Chain[p] : \A v \in V : f[b][v] = IF b \in K THEN v ELSE f[Parent[b]][D[b][v]]
    BY <2>2 DEF TakesBack
  <2>4. \A v \in V : x \notin K => D[x][v] \in V /\ f[p][D[x][v]] \in V
    BY <2>1, <2>3
  <2>5. g \in [Chain[x] -> [V -> V]]  BY <2>1, <2>3, <2>4
  <2>6. ASSUME NEW y \in Chain[x], NEW v \in V
        PROVE  g[y][v] = IF y \in K THEN v ELSE g[Parent[y]][D[y][v]]
    <3>1. CASE y = x
      <4>1. g[p] = f[p]  BY <2>1
      <4> QED BY <2>1, <3>1, <4>1
    <3>2. CASE y # x
      <4>1. y \in Chain[p] /\ g[y] = f[y]  BY <2>1, <3>2
      <4>2. CASE y \in K
        BY <2>3, <4>1, <4>2
      <4>3. CASE y \notin K
        <5>1. Parent[y] \in Chain[p]  BY <2>1, <4>1, <4>3, ChainClosed
        <5>2. g[Parent[y]] = f[Parent[y]]  BY <2>1, <5>1
        <5>3. f[y][v] = f[Parent[y]][D[y][v]]  BY <2>3, <4>1, <4>3
        <5> QED BY <4>1, <4>3, <5>2, <5>3
      <4> QED BY <4>2, <4>3
    <3> QED BY <3>1, <3>2
  <2>7. TakesBack(g, V, Chain[x], K, D)  BY <2>5, <2>6 DEF TakesBack
  <2> HIDE DEF g
  <2> QED BY <2>7
<1>3. Q(old)
  <2> HIDE DEF Q
  <2>1. Blocks \subseteq T  BY <1>1, <1>2, AlongChains
  <2> QED BY <2>1
<1>4. old \in Chain[old]  BY ChainClosed
<1> QED BY <1>3, <1>4

\* There is such a recursion forward along a chain.
LEMMA ForwardExists ==
  ASSUME NEW V, NEW K, Genesis \in K, NEW new \in Blocks, NEW w \in V, NEW R, R \in [Blocks \ {Genesis} -> [V -> V]]
  PROVE  \E g : TakesForward(g, V, Chain[new], K, w, R)
<1> DEFINE Q(x) == \E g : TakesForward(g, V, Chain[x], K, w, R)
           T == {x \in Blocks : Q(x)}
<1>0. Genesis \in Blocks /\ Chain[Genesis] = {Genesis}  BY TreeAssumption, ChainOf
<1>1. Genesis \in T
  <2> DEFINE g == [x \in {Genesis} |-> w]
  <2>1. TakesForward(g, V, Chain[Genesis], K, w, R)  BY <1>0 DEF TakesForward
  <2> HIDE DEF g
  <2> QED BY <1>0, <2>1
<1>2. ASSUME NEW x \in Blocks \ {Genesis}, Parent[x] \in T PROVE x \in T
  <2> DEFINE p == Parent[x]
  <2>1. /\ p \in Blocks /\ Chain[x] = Chain[p] \cup {x} /\ x \notin Chain[p] /\ p \in Chain[p]
    BY ParentBlock, ChainOf, ChainClosed, RootAssumption
  <2>2. PICK f : TakesForward(f, V, Chain[p], K, w, R)  BY <1>2, <2>1
  <2> DEFINE g == [y \in Chain[x] |-> IF y # x THEN f[y] ELSE IF x \in K THEN w ELSE R[x][f[p]]]
  <2>3. /\ f \in [Chain[p] -> V]
        /\ \A b \in Chain[p] : f[b] = IF b \in K THEN w ELSE R[b][f[Parent[b]]]
    BY <2>2 DEF TakesForward
  <2>4. f[p] \in V /\ R[x][f[p]] \in V  BY <2>1, <2>3
  <2>5. g \in [Chain[x] -> V]  BY <2>1, <2>3, <2>4
  <2>6. ASSUME NEW y \in Chain[x]
        PROVE  g[y] = IF y \in K THEN w ELSE R[y][g[Parent[y]]]
    <3>1. CASE y = x
      <4>1. g[p] = f[p]  BY <2>1
      <4> QED BY <2>1, <3>1, <4>1
    <3>2. CASE y # x
      <4>1. y \in Chain[p] /\ g[y] = f[y]  BY <2>1, <3>2
      <4>2. CASE y \in K
        BY <2>3, <4>1, <4>2
      <4>3. CASE y \notin K
        <5>1. Parent[y] \in Chain[p]  BY <2>1, <4>1, <4>3, ChainClosed
        <5>2. g[Parent[y]] = f[Parent[y]]  BY <2>1, <5>1
        <5> QED BY <2>3, <4>1, <4>3, <5>2
      <4> QED BY <4>2, <4>3
    <3> QED BY <3>1, <3>2
  <2>7. TakesForward(g, V, Chain[x], K, w, R)  BY <2>5, <2>6 DEF TakesForward
  <2> HIDE DEF g
  <2> QED BY <2>7
<1>3. Q(new)
  <2> HIDE DEF Q
  <2>1. Blocks \subseteq T  BY <1>1, <1>2, AlongChains
  <2> QED BY <2>1
<1> QED BY <1>3

\* Any view stays one under RollforwardBlock, and under DisconnectBlock with its undo data.
LEMMA BlockTypes ==
  ASSUME NEW base \in Maps, NEW v \in [Txs -> Entries], NEW b \in Blocks \ {Genesis}
  PROVE  /\ RollforwardBlock(base, v, b) \in [Txs -> Entries]
         /\ DisconnectBlock(base, v, b, UndoOf(b)).view \in [Txs -> Entries]
<1> DEFINE N == Len(BlockTxs[b])
<1>0. N \in Nat /\ N \in 0..N  BY BlockOf
<1>1. RollforwardBlock(base, v, b) \in [Txs -> Entries]
  <2>1. PICK a \in [0..N -> [Txs -> Entries]] : RollforwardBlock(base, v, b) = a[N]
    BY RollforwardBlockIs
  <2> QED BY <1>0, <2>1
<1>2. DisconnectBlock(base, v, b, UndoOf(b)).view \in [Txs -> Entries]
  <2> DEFINE undone == UndoOf(b)
  <2>0. Undoes(undone, b)  BY UndoComplete
  <2> HIDE DEF undone
  <2>1. PICK a \in [0..N -> [view : [Txs -> Entries], clean : BOOLEAN]] :
          /\ a[0] = [view |-> v, clean |-> TRUE] /\ DisconnectBlock(base, v, b, undone) = a[N]
          /\ \A n \in 1..N : a[n] = DisconnectTx(base, a[n - 1], BlockTxs[b][N + 1 - n], Height(b), undone)
    BY <2>0, DisconnectBlockIs, SMTT(30)
  <2>2. a[N] \in [view : [Txs -> Entries], clean : BOOLEAN]  BY <1>0, <2>1
  <2> QED BY <2>1, <2>2 DEF undone
<1> QED BY <1>1, <1>2

\* The fork of two chains: in both, and above all that is in both.
Fork(y, old, new) == y \in Chain[old] \cap Chain[new] /\ Chain[old] \cap Chain[new] \subseteq Chain[y]

\* The equation of the loop back along the old chain.
GoesBack(back, old, new) ==
  \A b \in Chain[old] : \A v \in [Txs -> Entries] :
    back[b][v] = IF b \in Chain[new] THEN v
                 ELSE back[Parent[b]][DisconnectBlock(db, v, b, diskUndo[b]).view]

\* From the old tip the loop comes back to the fork, with a view that shows its coins
\* where the database did not show others.
LEMMA BackLeads ==
  ASSUME db \in Maps, NEW new \in Blocks, NEW old \in Blocks,
         NEW back, GoesBack(back, old, new),
         \A b \in Chain[old] \ Chain[new] : diskUndo[b] = UndoOf(b)
  PROVE  \E y : /\ Fork(y, old, new) /\ back[old][Empty] \in Views(db)
                /\ Toward(db, Shown(back[old][Empty], db), Utxo(old), Utxo(y))
<1> DEFINE Leads(x, v, y) == /\ Fork(y, x, new) /\ back[x][v] \in Views(db)
                             /\ Toward(Shown(v, db), Shown(back[x][v], db), Utxo(x), Utxo(y))
           Q(x) == x \in Chain[old] => \A v \in Views(db) : \E y : Leads(x, v, y)
           T == {x \in Blocks : Q(x)}
<1>0. Genesis \in Blocks /\ Genesis \in Chain[new]  BY TreeAssumption, RootAssumption
<1>1. ASSUME NEW x \in Blocks, x \in Chain[new] PROVE Q(x)
  <2> SUFFICES ASSUME x \in Chain[old], NEW v \in Views(db) PROVE \E y : Leads(x, v, y)
    OBVIOUS
  <2>1. back[x][v] = v
    <3>1. v \in [Txs -> Entries]  BY DEF Views
    <3> QED BY <1>1, <3>1 DEF GoesBack
  <2>2. x \in Chain[x]  BY ChainClosed
  <2>3. Leads(x, v, x)  BY <1>1, <2>1, <2>2 DEF Fork, Toward
  <2> HIDE DEF Leads
  <2> QED BY <2>3
<1>2. ASSUME NEW x \in Blocks \ {Genesis}, Parent[x] \in T, x \notin Chain[new] PROVE Q(x)
  <2> SUFFICES ASSUME x \in Chain[old], NEW v \in Views(db) PROVE \E y : Leads(x, v, y)
    OBVIOUS
  <2> DEFINE p == Parent[x]
             u == DisconnectBlock(db, v, x, UndoOf(x)).view
  <2>1. p \in Chain[old] /\ Chain[x] = Chain[p] \cup {x}  BY ChainClosed, ChainOf
  <2>2. u \in Views(db) /\ Toward(Shown(v, db), Shown(u, db), Utxo(x), Utxo(p))
    BY DisconnectBlockStep
  <2>3. back[x][v] = back[p][u]
    <3>1. v \in [Txs -> Entries]  BY DEF Views
    <3>2. diskUndo[x] = UndoOf(x)  BY <1>2
    <3> QED BY <1>2, <3>1, <3>2 DEF GoesBack
  <2> HIDE DEF u
  <2>4. PICK y : Leads(p, u, y)
    <3> HIDE DEF Leads
    <3> QED BY <1>2, <2>1, <2>2
  <2>5. Fork(y, x, new)  BY <1>2, <2>1, <2>4 DEF Fork
  <2>6. Toward(Shown(v, db), Shown(back[p][u], db), Utxo(x), Utxo(y))
    BY <2>2, <2>4, TowardTrans
  <2>7. Leads(x, v, y)  BY <2>3, <2>4, <2>5, <2>6
  <2> HIDE DEF Leads
  <2> QED BY <2>7
<1> HIDE DEF Q
<1>3. Genesis \in T  BY <1>0, <1>1
<1>4. ASSUME NEW x \in Blocks \ {Genesis}, Parent[x] \in T PROVE x \in T
  BY <1>1, <1>2, <1>4
<1>5. Q(old)
  <2>1. Blocks \subseteq T
    <3> HIDE DEF T
    <3> QED BY <1>3, <1>4, AlongChains
  <2> QED BY <2>1
<1>6. Empty \in Views(db) /\ Shown(Empty, db) = db  BY EmptyView
<1>7. old \in Chain[old]  BY ChainClosed
<1>8. PICK y : Leads(old, Empty, y)
  <2> HIDE DEF Leads
  <2> QED BY <1>5, <1>6, <1>7 DEF Q
<1> QED BY <1>6, <1>8

\* From the fork it comes forward to the new tip.
LEMMA ForwardLeads ==
  ASSUME db \in Maps, NEW new \in Blocks, NEW old \in Blocks, NEW y, Fork(y, old, new),
         NEW w \in Views(db), Toward(db, Shown(w, db), Utxo(old), Utxo(y)),
         NEW forward,
         \A b \in Chain[new] : forward[b] = IF b \in Chain[old] THEN w
                                            ELSE RollforwardBlock(db, forward[Parent[b]], b)
  PROVE  /\ forward[new] \in Views(db)
         /\ Toward(db, Shown(forward[new], db), Utxo(old), Utxo(new))
<1> DEFINE Good(x, v) == v \in Views(db) /\ Toward(db, Shown(v, db), Utxo(old), Utxo(x))
           Q(x) == x \in Chain[new] => x \in Chain[old] \/ Good(x, forward[x])
           T == {x \in Blocks : Q(x)}
<1>0. Genesis \in Blocks /\ Genesis \in Chain[old]  BY TreeAssumption, RootAssumption
<1>y. y \in Blocks /\ y \in Chain[new] /\ y \in Chain[old]  BY ChainClosed DEF Fork
<1>1. Genesis \in T  BY <1>0
<1>2. ASSUME NEW x \in Blocks \ {Genesis}, Parent[x] \in T PROVE x \in T
  <2> SUFFICES ASSUME x \in Chain[new], x \notin Chain[old] PROVE Good(x, forward[x])
    OBVIOUS
  <2> DEFINE p == Parent[x]
  <2>1. p \in Chain[new] /\ p \in Blocks /\ Chain[x] = Chain[p] \cup {x}
    BY ChainClosed, ParentBlock, ChainOf
  <2>2. Good(p, forward[p])
    <3>1. CASE p \in Chain[old]
      <4>1. y \in Chain[x] \/ x \in Chain[y]  BY <1>y, ChainLinear
      <4>2. x \notin Chain[y]  BY <1>y, ChainClosed
      <4>3. y \in Chain[p]  BY <1>y, <2>1, <4>1, <4>2
      <4>4. p \in Chain[y]  BY <2>1, <3>1 DEF Fork
      <4>5. p = y  BY <1>y, <2>1, <4>3, <4>4, ChainAntisymmetric
      <4>6. forward[p] = w  BY <2>1, <3>1
      <4> QED BY <4>5, <4>6
    <3>2. CASE p \notin Chain[old]
      BY <1>2, <2>1, <3>2
    <3> QED BY <3>1, <3>2
  <2>3. forward[x] = RollforwardBlock(db, forward[p], x)  OBVIOUS
  <2>4. /\ forward[x] \in Views(db)
        /\ Toward(Shown(forward[p], db), Shown(forward[x], db), Utxo(p), Utxo(x))
    BY <2>2, <2>3, RollforwardBlockStep
  <2> QED BY <2>2, <2>4, TowardTrans
<1>3. Q(new)
  <2> HIDE DEF Q
  <2>1. Blocks \subseteq T  BY <1>1, <1>2, AlongChains
  <2> QED BY <2>1
<1>4. new \in Chain[new]  BY ChainClosed
<1>5. CASE new \in Chain[old]
  <2>1. new \in Chain[y]  BY <1>4, <1>5 DEF Fork
  <2>2. new = y  BY <1>y, <2>1, ChainAntisymmetric
  <2>3. forward[new] = w  BY <1>4, <1>5
  <2> QED BY <2>2, <2>3
<1>6. CASE new \notin Chain[old]
  BY <1>3, <1>4, <1>6
<1> QED BY <1>5, <1>6

\* ReplayBlocks gives a view of the database that leads from the coins of the old tip
\* to those of the new one.
LEMMA ReplayedLeads ==
  ASSUME db \in Maps, NEW new \in Blocks, NEW old \in Blocks,
         \A b \in Chain[old] \ Chain[new] : diskUndo[b] = UndoOf(b)
  PROVE  /\ Replayed(new, old) \in Views(db)
         /\ Toward(db, Shown(Replayed(new, old), db), Utxo(old), Utxo(new))
<1> DEFINE V == [Txs -> Entries]
           B(f) == [b \in Chain[old] |->
                      [v \in V |-> IF b \in Chain[new] THEN v
                                   ELSE f[Parent[b]][DisconnectBlock(db, v, b, diskUndo[b]).view]]]
           back == CHOOSE f : f = B(f)
           w == back[old][Empty]
           W(g) == [b \in Chain[new] |-> IF b \in Chain[old] THEN w
                                         ELSE RollforwardBlock(db, g[Parent[b]], b)]
           forward == CHOOSE g : g = W(g)
           D == [b \in Chain[old] \ Chain[new] |-> [v \in V |-> DisconnectBlock(db, v, b, diskUndo[b]).view]]
           R == [b \in Blocks \ {Genesis} |-> [v \in V |-> RollforwardBlock(db, v, b)]]
<1>0. /\ Genesis \in Chain[new] /\ Genesis \in Chain[old]
      /\ Chain[new] \subseteq Blocks /\ Chain[old] \subseteq Blocks
  BY RootAssumption, ChainClosed
<1>1. Replayed(new, old) = forward[new]  BY DEF Replayed
<1> HIDE DEF V
<1>2. D \in [Chain[old] \ Chain[new] -> [V -> V]]
  <2>1. ASSUME NEW b \in Chain[old] \ Chain[new], NEW v \in V
        PROVE  DisconnectBlock(db, v, b, diskUndo[b]).view \in V
    BY <1>0, BlockTypes DEF V
  <2> QED BY <2>1
<1>3. back = B(back)
  <2>1. PICK f : TakesBack(f, V, Chain[old], Chain[new], D)
    <3> HIDE DEF D
    <3> QED BY <1>0, <1>2, BackExists
  <2>2. /\ f \in [Chain[old] -> [V -> V]]
        /\ \A b \in Chain[old] : \A v \in V :
             f[b][v] = IF b \in Chain[new] THEN v ELSE f[Parent[b]][D[b][v]]
    BY <2>1 DEF TakesBack
  <2>3. ASSUME NEW b \in Chain[old] PROVE f[b] = B(f)[b]
    <3>1. f[b] = [v \in V |-> f[b][v]]  BY <2>2
    <3> QED BY <2>2, <3>1
  <2>4. f = B(f)  BY <2>2, <2>3
  <2> HIDE DEF B
  <2> QED BY <2>4
<1> HIDE DEF back
<1>4. GoesBack(back, old, new)
  <2> SUFFICES ASSUME NEW b \in Chain[old], NEW v \in V
               PROVE  back[b][v] = IF b \in Chain[new] THEN v
                                   ELSE back[Parent[b]][DisconnectBlock(db, v, b, diskUndo[b]).view]
    BY DEF GoesBack, V
  <2>1. back[b] = B(back)[b]  BY <1>3
  <2> QED BY <2>1
<1>5. PICK y : /\ Fork(y, old, new) /\ w \in Views(db)
               /\ Toward(db, Shown(w, db), Utxo(old), Utxo(y))
  <2> HIDE DEF B, D, R, V
  <2> QED BY <1>4, BackLeads
<1> HIDE DEF w
<1>6. forward = W(forward)
  <2>0. R \in [Blocks \ {Genesis} -> [V -> V]]
    <3>1. ASSUME NEW b \in Blocks \ {Genesis}, NEW v \in V PROVE RollforwardBlock(db, v, b) \in V
      BY BlockTypes DEF V
    <3> QED BY <3>1
  <2>1. PICK g : TakesForward(g, V, Chain[new], Chain[old], w, R)
    <3>1. w \in V  BY <1>5 DEF Views, V
    <3> HIDE DEF R
    <3> QED BY <1>0, <2>0, <3>1, ForwardExists
  <2>2. /\ g \in [Chain[new] -> V]
        /\ \A b \in Chain[new] : g[b] = IF b \in Chain[old] THEN w ELSE R[b][g[Parent[b]]]
    BY <2>1 DEF TakesForward
  <2>3. ASSUME NEW b \in Chain[new] PROVE g[b] = W(g)[b]
    <3>1. CASE b \in Chain[old]
      BY <2>2, <3>1
    <3>2. CASE b \notin Chain[old]
      <4>1. b \in Blocks \ {Genesis} /\ Parent[b] \in Chain[new]  BY <1>0, <3>2, ChainClosed
      <4>2. R[b][g[Parent[b]]] = RollforwardBlock(db, g[Parent[b]], b)  BY <2>2, <4>1
      <4> QED BY <2>2, <3>2, <4>2
    <3> QED BY <3>1, <3>2
  <2>4. g = W(g)  BY <2>2, <2>3
  <2> HIDE DEF W
  <2> QED BY <2>4
<1> HIDE DEF forward
<1>7. \A b \in Chain[new] : forward[b] = IF b \in Chain[old] THEN w
                                         ELSE RollforwardBlock(db, forward[Parent[b]], b)
  BY <1>6
<1> HIDE DEF W, B, D, R
<1> QED BY <1>1, <1>5, <1>7, ForwardLeads

-----------------------------------------------------------------------------
(* The coins of the node.                                                   *)

\* All undo data, in memory and on disk, is what its block spent.
UndoRight ==
  /\ \A b \in DOMAIN undo : undo[b] = UndoOf(b)
  /\ \A b \in DOMAIN diskUndo : diskUndo[b] = UndoOf(b)

\* The database has the coins of its best block or, in transition, of one of its heads
\* for each outpoint.
DbRight ==
  /\ headBlocks = <<>> => db = Utxo(OrGenesis(bestBlock))
  /\ headBlocks # <<>> =>
       /\ bestBlock = NoBlock
       /\ \A o \in Txs : db[o] \in {Utxo(OrGenesis(headBlocks[2]))[o], Utxo(headBlocks[1])[o]}

\* During BatchWrite an entry waits to be written, or repeats the database.
Flushing(o) ==
  IF o \in left THEN Sound(cache[o], db[o])
  ELSE \/ Sound(cache[o], db[o]) /\ ~cache[o].dirty
       \/ cache[o].cached /\ cache[o].dirty /\ cache[o].coin = db[o]

\* The cache over the database shows the coins of its best block.
CacheRight ==
  /\ pc \in {"idle", "if_needed"} => cache \in Views(db)
  /\ pc \in {"coins", "replay"} => \A o \in Txs : Flushing(o)
  /\ pc \in {"idle", "if_needed", "coins", "replay"} => Shown(cache, db) = Utxo(hashBlock)
  /\ pc = "down" => cache = Empty
  /\ pc = "replay" => headBlocks # <<>>

\* The invariant of the coins.
CoinInv == TypeOK /\ UndoRight /\ DbRight /\ CacheRight /\ NeverStuck

\* A block is taken for itself, none for Genesis.
LEMMA OrGenesisType ==
  ASSUME NEW b \in Blocks \cup {NoBlock}
  PROVE  OrGenesis(b) \in Blocks /\ (b # NoBlock => OrGenesis(b) = b)
BY TreeAssumption DEF OrGenesis

\* A map of coins is known by its values.
LEMMA SameMap ==
  ASSUME NEW p \in Maps, NEW q \in Maps, \A o \in Txs : p[o] = q[o]
  PROVE  p = q
BY DEF Maps

\* A view flushed into CoinsTip.
LEMMA FlushedView ==
  ASSUME db \in Maps, cache \in Views(db), NEW v \in Views(Shown(cache, db)), NEW touched
  PROVE  /\ FlushedInto(v, touched) \in Views(db)
         /\ Shown(FlushedInto(v, touched), db) = Shown(v, Shown(cache, db))
<1> DEFINE base == Shown(cache, db)
           w == FlushedInto(v, touched)
           under(o) == IF o \in touched THEN Fetched(cache[o], db[o]) ELSE cache[o]
<1>0. cache \in [Txs -> Entries] /\ v \in [Txs -> Entries] /\ base \in Maps
  BY ShownMap DEF Views
<1>1. ASSUME NEW o \in Txs
      PROVE  /\ w[o] \in Entries /\ Sound(w[o], db[o])
             /\ Value(w[o], db[o]) = Value(v[o], base[o])
  <2>1. /\ cache[o] \in Entries /\ db[o] \in CoinOrNone /\ Sound(cache[o], db[o])
        /\ v[o] \in Entries /\ base[o] = Value(cache[o], db[o]) /\ Sound(v[o], base[o])
    BY <1>0, ShownMap DEF Views
  <2>2. under(o) \in Entries /\ Sound(under(o), db[o]) /\ Value(under(o), db[o]) = base[o]
    BY <2>1, FetchedSound
  <2>3. w[o] = Written(v[o], under(o))  BY DEF FlushedInto
  <2> HIDE DEF w, under, base
  <2> QED BY <2>1, <2>2, <2>3, WrittenSound
<1>2. w = [o \in Txs |-> w[o]]  BY DEF FlushedInto
<1> HIDE DEF w, base
<1>3. w \in Views(db)  BY <1>1, <1>2 DEF Views
<1>4. Shown(w, db) = Shown(v, base)  BY <1>1 DEF Shown
<1> QED BY <1>3, <1>4 DEF w, base

\* A flush begins with every DIRTY entry waiting.
LEMMA FlushBegins ==
  ASSUME NEW v \in Views(db), NEW o \in Txs, o \notin Dirty(v)
  PROVE  Sound(v[o], db[o]) /\ ~v[o].dirty
BY DEF Views, Dirty

\* The promise speaks of the same coins.
LEMMA PromiseUtxo ==
  ASSUME NEW b
  PROVE  Promise!Utxo(b) = Utxo(b)
<1>1. Promise!Chain = Chain  BY DEF Promise!Chain, Chain
<1>2. ASSUME NEW x PROVE Promise!TxsOf(x) = TxsOf(x)
  BY DEF Promise!TxsOf, TxsOf, Promise!ToSet, ToSet
<1>3. ASSUME NEW x PROVE Promise!Cardinality(x) = Cardinality(x)
  BY DEF Promise!Cardinality, Cardinality
<1>4. ASSUME NEW x PROVE Promise!Height(x) = Height(x)
  BY <1>1, <1>3 DEF Promise!Height, Height
<1> QED BY <1>1, <1>2, <1>4 DEF Promise!Utxo, Utxo

\* A step that changes neither the coins databases nor the cache of a running node
\* is none to the promise.
LEMMA QuietStep ==
  ASSUME UNCHANGED <<db, bestBlock, headBlocks, cache, hashBlock>>,
         pc \in {"idle", "if_needed", "coins"}, pc' \in {"idle", "if_needed", "coins"}
  PROVE  UNCHANGED Promise!vars
<1>1. Running /\ Running'  BY DEF Running
<1>2. UNCHANGED Shown(cache, db)  BY DEF Shown
<1> QED BY <1>1, <1>2 DEF Promise!vars, OrGenesis

\* AcceptBlock.
LEMMA AcceptCoins ==
  ASSUME CoinInv, NEW b \in Blocks, AcceptBlock(b)
  PROVE  CoinInv' /\ UNCHANGED Promise!vars
<1>1. /\ UNCHANGED <<db, bestBlock, headBlocks, diskIndex, diskUndo, pc, undo, tip, cache, hashBlock>>
      /\ UNCHANGED <<left, erase, crashes>> /\ pc = "idle"
      /\ blockIndex' = blockIndex \cup {b}
  BY DEF AcceptBlock, coinsDb, indexDb
<1>2. TypeOK'  BY <1>1 DEF CoinInv, TypeOK
<1>3. UndoRight' /\ DbRight' /\ NeverStuck'
  BY <1>1 DEF CoinInv, UndoRight, DbRight, NeverStuck
<1>4. CacheRight'  BY <1>1 DEF CoinInv, CacheRight, Shown
<1>5. UNCHANGED Promise!vars  BY <1>1, QuietStep
<1> QED BY <1>2, <1>3, <1>4, <1>5 DEF CoinInv

\* NoFlush.
LEMMA NoFlushCoins ==
  ASSUME DiskInv, CoinInv, NoFlush
  PROVE  CoinInv' /\ UNCHANGED Promise!vars
<1>1. /\ UNCHANGED <<db, bestBlock, headBlocks, diskIndex, diskUndo, blockIndex, undo, cache, hashBlock>>
      /\ UNCHANGED <<left, erase, crashes>> /\ pc = "if_needed"
      /\ tip' = hashBlock /\ pc' = "idle"
  BY DEF NoFlush, coinsDb, indexDb
<1>2. TypeOK'  BY <1>1 DEF CoinInv, TypeOK
<1>3. UndoRight' /\ DbRight' /\ NeverStuck'
  BY <1>1 DEF CoinInv, UndoRight, DbRight, NeverStuck
<1>4. CacheRight'  BY <1>1 DEF CoinInv, CacheRight, Shown
<1>5. UNCHANGED Promise!vars  BY <1>1, QuietStep
<1> QED BY <1>2, <1>3, <1>4, <1>5 DEF CoinInv

\* FlushStateToDisk, before the first batch of coins.
LEMMA FlushCoins ==
  ASSUME DiskInv, CoinInv, NEW empty_cache \in BOOLEAN, FlushStateToDisk(empty_cache)
  PROVE  CoinInv' /\ UNCHANGED Promise!vars
<1>1. /\ UNCHANGED <<db, bestBlock, headBlocks, blockIndex, undo, tip, cache, hashBlock, crashes>>
      /\ pc \in {"idle", "if_needed"} /\ diskIndex' = blockIndex /\ diskUndo' = undo
      /\ left' = Dirty(cache) /\ erase' = empty_cache /\ pc' = "coins"
  BY DEF FlushStateToDisk, coinsDb
<1>2. TypeOK'  BY <1>1 DEF CoinInv, TypeOK, Dirty
<1>3. UndoRight' /\ DbRight' /\ NeverStuck'
  BY <1>1 DEF CoinInv, UndoRight, DbRight, NeverStuck
<1>4. CacheRight'
  <2>1. cache \in Views(db)  BY <1>1 DEF CoinInv, CacheRight
  <2>2. \A o \in Txs : Sound(cache[o], db[o])  BY <2>1 DEF Views
  <2>3. ASSUME NEW o \in Txs PROVE Flushing(o)'
    BY <1>1, <2>1, <2>2, FlushBegins DEF Flushing
  <2>4. (Shown(cache, db))' = Utxo(hashBlock)'  BY <1>1 DEF CoinInv, CacheRight, Shown
  <2> QED BY <1>1, <2>3, <2>4 DEF CacheRight
<1>5. UNCHANGED Promise!vars  BY <1>1, QuietStep
<1> QED BY <1>2, <1>3, <1>4, <1>5 DEF CoinInv

\* ConnectTip.
LEMMA ConnectCoins ==
  ASSUME DiskInv, CoinInv, NEW b \in Blocks, ConnectTip(b)
  PROVE  CoinInv' /\ Promise!Move(b)
<1> DEFINE s == ConnectBlock(Shown(cache, db), b)
           w == FlushedInto(s.view, Touched(b))
<1>1. /\ UNCHANGED <<db, bestBlock, headBlocks, diskIndex, diskUndo, blockIndex, tip, left, erase, crashes>>
      /\ pc = "idle" /\ b # Genesis /\ Parent[b] = tip
      /\ cache' = w
      /\ undo' = [x \in DOMAIN undo \cup {b} |-> IF x \in DOMAIN undo THEN undo[x] ELSE s.undo]
      /\ hashBlock' = b /\ pc' = "if_needed"
  BY DEF ConnectTip, coinsDb, indexDb
<1>2. /\ db \in Maps /\ cache \in Views(db) /\ Shown(cache, db) = Utxo(hashBlock)
      /\ tip = hashBlock
  BY <1>1 DEF DiskInv, Places, CoinInv, TypeOK, Maps, CacheRight
<1>3. /\ s.view \in Views(Shown(cache, db)) /\ Shown(s.view, Shown(cache, db)) = Utxo(b)
      /\ s.undo = UndoOf(b)
  BY <1>1, <1>2, ConnectBlockStep
<1>4. w \in Views(db) /\ Shown(w, db) = Utxo(b)
  <2> DEFINE v == s.view
  <2>1. v \in Views(Shown(cache, db)) /\ Shown(v, Shown(cache, db)) = Utxo(b)  BY <1>3
  <2> HIDE DEF v
  <2>2. FlushedInto(v, Touched(b)) \in Views(db) /\ Shown(FlushedInto(v, Touched(b)), db) = Utxo(b)
    BY <1>2, <2>1, FlushedView
  <2> QED BY <2>2 DEF v
<1>5. UndoRight'
  <2> HIDE DEF s
  <2> QED BY <1>1, <1>3 DEF CoinInv, UndoRight
<1> HIDE DEF s, w
<1>6. TypeOK'
  <2>1. cache' \in [Txs -> Entries]  BY <1>1, <1>4 DEF Views
  <2>2. DOMAIN undo' \subseteq Blocks  BY <1>1 DEF CoinInv, TypeOK
  <2>3. b # NoBlock /\ tip # NoBlock  BY <1>1, StateAssumption DEF CoinInv, TypeOK
  <2> QED BY <1>1, <2>1, <2>2, <2>3 DEF CoinInv, TypeOK
<1>7. DbRight' /\ NeverStuck'  BY <1>1 DEF CoinInv, DbRight, NeverStuck
<1>8. (Shown(cache, db))' = Utxo(b)
  <2>1. (Shown(cache, db))' = Shown(w, db)  BY <1>1 DEF Shown
  <2> QED BY <1>4, <2>1
<1>9. CacheRight'
  <2>1. cache' \in Views(db')  BY <1>1, <1>4
  <2> QED BY <1>1, <1>8, <2>1 DEF CacheRight
<1>10. Promise!Move(b)
  <2>1. Running /\ Running'  BY <1>1 DEF Running
  <2> QED BY <1>1, <1>2, <1>8, <2>1, PromiseUtxo DEF Promise!Move
<1> QED BY <1>5, <1>6, <1>7, <1>9, <1>10 DEF CoinInv

\* DisconnectTip.
LEMMA DisconnectCoins ==
  ASSUME DiskInv, CoinInv, DisconnectTip
  PROVE  CoinInv' /\ \E b \in Blocks : Promise!Move(b)
<1> DEFINE s == DisconnectBlock(Shown(cache, db), Empty, tip, undo[tip])
           w == FlushedInto(s.view, Touched(tip))
           p == Parent[tip]
<1>1. /\ UNCHANGED <<db, bestBlock, headBlocks, diskIndex, diskUndo, blockIndex, undo, tip, left, erase, crashes>>
      /\ pc = "idle" /\ tip # Genesis
      /\ s.clean => cache' = w /\ hashBlock' = p /\ pc' = "if_needed"
  BY DEF DisconnectTip, coinsDb, indexDb
<1>2. /\ db \in Maps /\ cache \in Views(db) /\ Shown(cache, db) = Utxo(tip)
      /\ tip = hashBlock /\ tip \in Blocks /\ p \in Blocks
  BY <1>1, ParentBlock DEF DiskInv, Places, CoinInv, TypeOK, Maps, CacheRight
<1>3. undo[tip] = UndoOf(tip)
  <2>1. tip \in Chain[tip] /\ Complete(blockIndex, undo, tip)
    BY <1>1, <1>2, ChainClosed DEF DiskInv, InMemory
  <2>2. tip \in DOMAIN undo  BY <1>1, <2>1 DEF Complete
  <2> QED BY <2>2 DEF CoinInv, UndoRight
<1>4. /\ s.clean /\ s.view \in Views(Shown(cache, db))
      /\ Shown(s.view, Shown(cache, db)) = Utxo(p)
  <2> DEFINE base == Shown(cache, db)
  <2>1. base \in Maps /\ base = Utxo(tip) /\ Utxo(p) \in Maps  BY <1>2, CoinTypes DEF Maps
  <2> HIDE DEF base
  <2>2. Empty \in Views(base) /\ Shown(Empty, base) = base  BY <2>1, EmptyView
  <2> DEFINE r == DisconnectBlock(base, Empty, tip, UndoOf(tip))
  <2>3. /\ r.view \in Views(base) /\ Toward(base, Shown(r.view, base), Utxo(tip), Utxo(p)) /\ r.clean
    BY <1>1, <1>2, <2>1, <2>2, DisconnectBlockStep
  <2>4. s = r  BY <1>3 DEF base
  <2> HIDE DEF r
  <2>5. Shown(r.view, base) \in Maps  BY <2>1, <2>3, ShownMap DEF Views
  <2>6. \A o \in Txs : Shown(r.view, base)[o] = Utxo(p)[o]  BY <2>1, <2>3 DEF Toward
  <2>7. Shown(r.view, base) = Utxo(p)  BY <2>1, <2>5, <2>6, SameMap
  <2> HIDE DEF s
  <2> QED BY <2>3, <2>4, <2>7 DEF base
<1>5. w \in Views(db) /\ Shown(w, db) = Utxo(p)
  <2> DEFINE v == s.view
  <2>1. v \in Views(Shown(cache, db)) /\ Shown(v, Shown(cache, db)) = Utxo(p)  BY <1>4
  <2> HIDE DEF v
  <2>2. FlushedInto(v, Touched(tip)) \in Views(db) /\ Shown(FlushedInto(v, Touched(tip)), db) = Utxo(p)
    BY <1>2, <2>1, FlushedView
  <2> QED BY <2>2 DEF v
<1>6. cache' = w /\ hashBlock' = p /\ pc' = "if_needed"  BY <1>1, <1>4
<1> HIDE DEF s, w, p
<1>7. TypeOK'
  <2>1. cache' \in [Txs -> Entries]  BY <1>5, <1>6 DEF Views
  <2>2. p # NoBlock /\ tip # NoBlock  BY <1>2, StateAssumption
  <2> QED BY <1>1, <1>2, <1>6, <2>1, <2>2 DEF CoinInv, TypeOK
<1>8. UndoRight' /\ DbRight' /\ NeverStuck'
  BY <1>1, <1>6 DEF CoinInv, UndoRight, DbRight, NeverStuck
<1>9. (Shown(cache, db))' = Utxo(p)
  <2>1. (Shown(cache, db))' = Shown(w, db)  BY <1>1, <1>6 DEF Shown
  <2> QED BY <1>5, <2>1
<1>10. CacheRight'
  <2>1. cache' \in Views(db')  BY <1>1, <1>5, <1>6
  <2> QED BY <1>1, <1>6, <1>9, <2>1 DEF CacheRight
<1>11. Promise!Move(p)
  <2>1. Running /\ Running'  BY <1>1, <1>6 DEF Running
  <2>2. p = Parent[tip]  BY DEF p
  <2> QED BY <1>1, <1>2, <1>6, <1>9, <2>1, <2>2, PromiseUtxo DEF Promise!Move
<1> QED BY <1>2, <1>7, <1>8, <1>10, <1>11 DEF CoinInv

\* What BatchWrite writes for an outpoint is what the cache shows, and it has been
\* written where it does not wait.
LEMMA WrittenCoin ==
  ASSUME CoinInv, pc \in {"coins", "replay"}, NEW o \in Txs
  PROVE  /\ cache[o] \in Entries /\ db[o] \in CoinOrNone
         /\ Value(cache[o], db[o]) = Utxo(hashBlock)[o]
         /\ o \in left => Sound(cache[o], db[o]) /\ Stored(cache[o], db[o]) = Utxo(hashBlock)[o]
         /\ o \notin left => db[o] = Utxo(hashBlock)[o]
         /\ ~cache[o].dirty => Sound(cache[o], db[o])
         /\ cache[o].dirty => cache[o].cached /\ cache[o].coin = Utxo(hashBlock)[o]
<1>1. /\ cache[o] \in Entries /\ db[o] \in CoinOrNone /\ Flushing(o)
      /\ Shown(cache, db) = Utxo(hashBlock)
  BY DEF CoinInv, TypeOK, CacheRight
<1>2. Value(cache[o], db[o]) = Utxo(hashBlock)[o]
  <2>1. Shown(cache, db)[o] = Value(cache[o], db[o])  BY DEF Shown
  <2> QED BY <1>1, <2>1
<1>3. o \in left => Sound(cache[o], db[o]) /\ Stored(cache[o], db[o]) = Utxo(hashBlock)[o]
  BY <1>1, <1>2, StoredValue DEF Flushing
<1>4. o \notin left => db[o] = Utxo(hashBlock)[o]
  BY <1>1, <1>2 DEF Flushing, Sound, Value
<1>5. ~cache[o].dirty => Sound(cache[o], db[o])
  BY <1>1 DEF Flushing
<1>6. cache[o].dirty => cache[o].cached
  BY <1>1 DEF Flushing, Sound, Absent
<1>7. cache[o].dirty => cache[o].coin = Utxo(hashBlock)[o]
  BY <1>2, <1>6 DEF Value
<1> QED BY <1>1, <1>2, <1>3, <1>4, <1>5, <1>6, <1>7

\* A batch before the last.
LEMMA PartialCoins ==
  ASSUME DiskInv, CoinInv, NEW o \in Txs, WritePartialBatch(o)
  PROVE  CoinInv' /\ (Promise!Persist \/ UNCHANGED Promise!vars)
<1> DEFINE U == Utxo(hashBlock)
           c == Stored(cache[o], db[o])
<1>1. /\ UNCHANGED <<diskIndex, diskUndo, pc, blockIndex, undo, tip, cache, hashBlock, erase, crashes>>
      /\ pc \in {"coins", "replay"} /\ o \in left /\ left' = left \ {o}
      /\ headBlocks' = <<hashBlock, OldTip>> /\ bestBlock' = NoBlock
      /\ db' = [db EXCEPT ![o] = c]
  BY DEF WritePartialBatch, indexDb
<1>2. db \in Maps /\ hashBlock \in Blocks /\ U \in Maps
  BY <1>1, CoinTypes DEF DiskInv, Places, CoinInv, TypeOK, Maps
<1>3. c = U[o] /\ c \in CoinOrNone  BY <1>1, <1>2, WrittenCoin DEF Maps
<1> HIDE DEF c
<1>4. /\ db' \in Maps /\ db'[o] = U[o] /\ \A x \in Txs \ {o} : db'[x] = db[x]
  BY <1>1, <1>2, <1>3 DEF Maps
<1> HIDE DEF U
<1>5. headBlocks' # <<>> /\ headBlocks'[1] = hashBlock /\ headBlocks'[2] = OldTip
  BY <1>1
<1>6. DbRight'
  <2>1. ASSUME NEW x \in Txs
        PROVE  db[x] \in {Utxo(OrGenesis(OldTip))[x], U[x]}
    <3>1. CASE headBlocks = <<>>
      <4>1. OldTip = bestBlock /\ db = Utxo(OrGenesis(bestBlock))
        BY <3>1 DEF OldTip, CoinInv, DbRight
      <4> QED BY <4>1
    <3>2. CASE headBlocks # <<>>
      <4>1. /\ bestBlock = NoBlock
            /\ db[x] \in {Utxo(OrGenesis(headBlocks[2]))[x], Utxo(headBlocks[1])[x]}
        BY <3>2 DEF CoinInv, DbRight
      <4>2. headBlocks[1] = hashBlock  BY <1>1, <3>2 DEF DiskInv, Targeted
      <4> QED BY <3>2, <4>1, <4>2 DEF OldTip, U
    <3> QED BY <3>1, <3>2
  <2>2. ASSUME NEW x \in Txs
        PROVE  db'[x] \in {Utxo(OrGenesis(OldTip))[x], U[x]}
    BY <1>4, <2>1
  <2>3. (OrGenesis(headBlocks[2]))' = OrGenesis(OldTip)  BY <1>5 DEF OrGenesis
  <2>4. Utxo(headBlocks[1])' = U /\ Utxo(OrGenesis(headBlocks[2]))' = Utxo(OrGenesis(OldTip))
    BY <1>5, <2>3 DEF U
  <2> QED BY <1>1, <1>5, <2>2, <2>4 DEF DbRight
<1>7. ASSUME NEW x \in Txs
      PROVE  Value(cache[x], db'[x]) = Value(cache[x], db[x])
  <2>1. CASE x = o
    BY <1>1, <1>3, <1>4, <2>1, WrittenCoin DEF Value, c, Stored
  <2>2. CASE x # o
    BY <1>4, <2>2
  <2> QED BY <2>1, <2>2
<1>8. (Shown(cache, db))' = Shown(cache, db)  BY <1>1, <1>7 DEF Shown
<1>9. ASSUME NEW x \in Txs PROVE Flushing(x)'
  <2>1. CASE x = o
    <3>1. CASE cache[o].dirty
      <4>1. cache[o].cached /\ cache[o].coin = U[o]  BY <1>1, <3>1, WrittenCoin DEF U
      <4> QED BY <1>1, <1>4, <2>1, <3>1, <4>1 DEF Flushing
    <3>2. CASE ~cache[o].dirty
      <4>1. Sound(cache[o], db[o]) /\ c = db[o]  BY <1>1, <3>2, WrittenCoin DEF c, Stored
      <4> QED BY <1>1, <1>3, <1>4, <2>1, <3>2, <4>1 DEF Flushing
    <3> QED BY <3>1, <3>2
  <2>2. CASE x # o
    <3>1. Flushing(x) /\ db'[x] = db[x] /\ (x \in left' <=> x \in left)
      BY <1>1, <1>4, <2>2 DEF CoinInv, CacheRight
    <3> QED BY <1>1, <3>1 DEF Flushing
  <2> QED BY <2>1, <2>2
<1>10. CacheRight'
  <2>1. Shown(cache, db) = Utxo(hashBlock)  BY <1>1 DEF CoinInv, CacheRight
  <2> QED BY <1>1, <1>5, <1>8, <1>9, <2>1 DEF CacheRight
<1>11. TypeOK'
  <2>1. Places'
    <3>1. [Next]_vars  BY DEF Next
    <3> QED BY <3>1, DiskStep DEF DiskInv
  <2> QED BY <1>1, <1>4, <2>1 DEF CoinInv, TypeOK, Places, Maps
<1>12. UndoRight' /\ NeverStuck'  BY <1>1 DEF CoinInv, UndoRight, NeverStuck
<1>13. CASE pc = "coins"
  <2>1. Running /\ Running'  BY <1>1, <1>13 DEF Running
  <2>2. Promise!Persist  BY <1>1, <1>5, <1>8, <2>1 DEF Promise!Persist
  <2> QED BY <1>6, <1>10, <1>11, <1>12, <2>2 DEF CoinInv
<1>14. CASE pc = "replay"
  <2>1. Running = FALSE /\ Running' = FALSE  BY <1>1, <1>14 DEF Running
  <2>2. headBlocks # <<>> /\ headBlocks[1] = hashBlock
    BY <1>1, <1>14 DEF CoinInv, CacheRight, DiskInv, Targeted
  <2>3. UNCHANGED Promise!vars  BY <1>5, <2>1, <2>2 DEF Promise!vars
  <2> QED BY <1>6, <1>10, <1>11, <1>12, <2>3 DEF CoinInv
<1> QED BY <1>1, <1>13, <1>14

\* The last batch, at the end of a flush or of a replay.
LEMMA FinalCoins ==
  ASSUME DiskInv, CoinInv, WriteFinalBatch
  PROVE  CoinInv' /\ (Promise!Persist \/ Promise!Restart)
<1> DEFINE U == Utxo(hashBlock)
<1>1. /\ UNCHANGED <<diskIndex, diskUndo, blockIndex, undo, hashBlock, erase, crashes>>
      /\ pc \in {"coins", "replay"} /\ headBlocks' = <<>> /\ bestBlock' = hashBlock
      /\ db' = [o \in Txs |-> IF o \in left THEN Stored(cache[o], db[o]) ELSE db[o]]
      /\ cache' = IF erase THEN Empty ELSE [o \in Txs |-> Cleaned(cache[o])]
      /\ tip' = hashBlock /\ left' = {} /\ pc' = "idle"
  BY DEF WriteFinalBatch, indexDb
<1>2. hashBlock \in Blocks /\ hashBlock # NoBlock /\ U \in Maps
  BY <1>1, StateAssumption, CoinTypes DEF DiskInv, Places, Maps
<1>3. db' = U
  <2>1. \A o \in Txs : db'[o] = U[o]  BY <1>1, WrittenCoin
  <2>2. db' = [o \in Txs |-> db'[o]] /\ U = [o \in Txs |-> U[o]]  BY <1>1, <1>2 DEF Maps
  <2> QED BY <2>1, <2>2
<1>4. cache' \in Views(U) /\ Shown(cache', U) = U
  <2>1. CASE erase
    BY <1>1, <1>2, <2>1, EmptyView
  <2>2. CASE ~erase
    <3>1. ASSUME NEW o \in Txs
          PROVE  /\ Cleaned(cache[o]) \in Entries /\ Sound(Cleaned(cache[o]), U[o])
                 /\ Value(Cleaned(cache[o]), U[o]) = U[o]
      <4>1. CASE Sound(cache[o], db[o])
        BY <1>1, <4>1, WrittenCoin, CleanedSound
      <4>2. CASE ~Sound(cache[o], db[o])
        <5>1. /\ cache[o] \in Entries /\ cache[o].dirty /\ cache[o].coin = U[o] /\ U[o] \in CoinOrNone
          BY <1>1, <1>2, <4>2, WrittenCoin DEF Maps
        <5> HIDE DEF U
        <5>2. Cleaned(cache[o]) = IF U[o] = NoCoin THEN Absent ELSE Entry(U[o], FALSE, FALSE)
          BY <5>1 DEF Cleaned
        <5>3. CASE U[o] = NoCoin
          BY <5>1, <5>2, <5>3, AbsentSound
        <5>4. CASE U[o] # NoCoin
          BY <5>1, <5>2, <5>4 DEF Entry, Entries, Sound, Value
        <5> QED BY <5>3, <5>4
      <4> QED BY <4>1, <4>2
    <3>2. cache' = [o \in Txs |-> Cleaned(cache[o])]  BY <1>1, <2>2
    <3> HIDE DEF U
    <3>3. cache' \in Views(U)  BY <3>1, <3>2 DEF Views
    <3>4. Shown(cache', U) = [o \in Txs |-> U[o]]  BY <3>1, <3>2 DEF Shown
    <3> QED BY <1>2, <3>3, <3>4 DEF Maps
  <2> QED BY <2>1, <2>2
<1> HIDE DEF U
<1>5. (Shown(cache, db))' = U
  <2>1. (Shown(cache, db))' = Shown(cache', U)  BY <1>3 DEF Shown
  <2> QED BY <1>4, <2>1
<1>6. TypeOK'
  <2>1. Places'
    <3>1. [Next]_vars  BY DEF Next
    <3> QED BY <3>1, DiskStep DEF DiskInv
  <2>2. cache' \in [Txs -> Entries]  BY <1>4 DEF Views
  <2> QED BY <1>1, <1>2, <1>3, <2>1, <2>2 DEF CoinInv, TypeOK, Places, Maps
<1>7. (OrGenesis(bestBlock))' = hashBlock  BY <1>1, <1>2 DEF OrGenesis
<1>8. DbRight' /\ UndoRight' /\ NeverStuck'
  BY <1>1, <1>3, <1>7 DEF CoinInv, UndoRight, DbRight, NeverStuck, U
<1>9. CacheRight'
  <2>1. Utxo(hashBlock)' = U  BY <1>1 DEF U
  <2> QED BY <1>1, <1>3, <1>4, <1>5, <2>1 DEF CacheRight
<1>10. CoinInv'  BY <1>6, <1>8, <1>9 DEF CoinInv
<1>11. Running'  BY <1>1 DEF Running
<1>12. CASE pc = "coins"
  <2>1. Running /\ Shown(cache, db) = U  BY <1>12 DEF Running, CoinInv, CacheRight, U
  <2>2. Promise!Persist  BY <1>1, <1>5, <1>7, <1>11, <2>1 DEF Promise!Persist
  <2> QED BY <1>10, <2>2
<1>13. CASE pc = "replay"
  <2>1. ~Running /\ headBlocks # <<>> /\ headBlocks[1] = hashBlock
    BY <1>13 DEF Running, CoinInv, CacheRight, DiskInv, Targeted
  <2>2. Promise!Restart
    BY <1>1, <1>5, <1>7, <1>11, <2>1, PromiseUtxo DEF Promise!Restart, U
  <2> QED BY <1>10, <2>2
<1> QED BY <1>1, <1>12, <1>13

\* Crash: memory is gone, the disk is as it was.
LEMMA CrashCoins ==
  ASSUME CoinInv, Crash
  PROVE  CoinInv' /\ Promise!Crash
<1>1. /\ UNCHANGED <<db, bestBlock, headBlocks, diskIndex, diskUndo>>
      /\ crashes < MaxCrashes /\ crashes' = crashes + 1 /\ pc' = "down"
      /\ blockIndex' = {} /\ undo' = <<>> /\ tip' = NoBlock
      /\ cache' = Empty /\ hashBlock' = NoBlock /\ left' = {} /\ erase' = FALSE
  BY DEF Crash, coinsDb, indexDb
<1>2. db \in Maps /\ DOMAIN undo' = {}  BY <1>1 DEF CoinInv, TypeOK, Maps
<1>3. TypeOK'
  <2>1. Empty \in [Txs -> Entries]  BY <1>2, EmptyView DEF Views
  <2>2. crashes' \in 0..MaxCrashes  BY <1>1, StateAssumption DEF CoinInv, TypeOK
  <2> QED BY <1>1, <1>2, <2>1, <2>2 DEF CoinInv, TypeOK
<1>4. UndoRight' /\ DbRight' /\ CacheRight' /\ NeverStuck'
  BY <1>1, <1>2 DEF CoinInv, UndoRight, DbRight, CacheRight, NeverStuck
<1>5. Promise!Crash
  <2>1. Running' = FALSE  BY <1>1 DEF Running
  <2> QED BY <1>1, <2>1 DEF Promise!Crash, Promise!NoCoins, OrGenesis
<1> QED BY <1>3, <1>4, <1>5 DEF CoinInv

\* A start with a consistent database.
LEMMA LoadCoins ==
  ASSUME DiskInv, CoinInv, LoadChainTip
  PROVE  CoinInv' /\ Promise!Restart
<1> DEFINE best == OrGenesis(bestBlock)
<1>1. /\ UNCHANGED <<db, bestBlock, headBlocks, diskIndex, diskUndo, cache, left, erase, crashes>>
      /\ pc = "down" /\ headBlocks = <<>>
      /\ blockIndex' = diskIndex \cup {Genesis} /\ undo' = diskUndo
      /\ tip' = best /\ hashBlock' = best /\ pc' = "idle"
  BY LoadSucceeds DEF LoadChainTip, coinsDb, indexDb
<1>2. best \in Blocks /\ best # NoBlock /\ db \in Maps
  BY OrGenesisType, StateAssumption DEF CoinInv, TypeOK, Maps
<1>3. db = Utxo(best) /\ cache = Empty  BY <1>1 DEF CoinInv, DbRight, CacheRight
<1>4. (OrGenesis(bestBlock))' = best  BY <1>1 DEF OrGenesis
<1> HIDE DEF best
<1>5. cache' \in Views(db') /\ (Shown(cache, db))' = Utxo(best)
  <2>1. Empty \in Views(db) /\ Shown(Empty, db) = db  BY <1>2, EmptyView
  <2>2. (Shown(cache, db))' = Shown(Empty, db)  BY <1>1, <1>3 DEF Shown
  <2> QED BY <1>1, <1>3, <2>1, <2>2
<1>6. TypeOK'  BY <1>1, <1>2, TreeAssumption DEF CoinInv, TypeOK
<1>7. UndoRight' /\ DbRight' /\ NeverStuck'
  BY <1>1, <1>3, <1>4 DEF CoinInv, UndoRight, DbRight, NeverStuck
<1>8. CacheRight'  BY <1>1, <1>5 DEF CacheRight
<1>9. Promise!Restart
  <2>1. ~Running /\ Running' = TRUE  BY <1>1 DEF Running
  <2>2. best = OrGenesis(bestBlock)  BY DEF best
  <2> QED BY <1>1, <1>4, <1>5, <2>1, <2>2, PromiseUtxo DEF Promise!Restart
<1> QED BY <1>6, <1>7, <1>8, <1>9 DEF CoinInv

\* A start with a database in transition.
LEMMA ReplayCoins ==
  ASSUME DiskInv, CoinInv, ReplayBlocks
  PROVE  CoinInv' /\ UNCHANGED Promise!vars
<1> DEFINE new == headBlocks[1]
           old == OrGenesis(headBlocks[2])
           w == Replayed(new, old)
<1>1. /\ UNCHANGED <<db, bestBlock, headBlocks, diskIndex, diskUndo, tip, crashes>>
      /\ pc = "down" /\ headBlocks # <<>>
      /\ blockIndex' = diskIndex \cup {Genesis} /\ undo' = diskUndo
      /\ cache' = w /\ hashBlock' = new
      /\ left' = Dirty(cache') /\ erase' = TRUE /\ pc' = "replay"
  BY ReplaySucceeds DEF ReplayBlocks, coinsDb, indexDb
<1>2. new \in Blocks /\ old \in Blocks /\ db \in Maps
  BY <1>1, OrGenesisType DEF CoinInv, TypeOK, Maps
<1>3. \A b \in Chain[old] \ Chain[new] : diskUndo[b] = UndoOf(b)
  <2>1. CanReplay(headBlocks[1], headBlocks[2])  BY ReplaySucceeds
  <2>2. OrGenesis(new) = new  BY <1>2, StateAssumption DEF OrGenesis
  <2>3. Chain[old] \ Chain[new] \subseteq DOMAIN diskUndo  BY <2>1, <2>2 DEF CanReplay, Apart
  <2> QED BY <2>3 DEF CoinInv, UndoRight
<1>4. \A o \in Txs : db[o] \in {Utxo(old)[o], Utxo(new)[o]}  BY <1>1 DEF CoinInv, DbRight
<1>5. w \in Views(db) /\ Shown(w, db) = Utxo(new)
  <2> HIDE DEF new, old
  <2>1. w \in Views(db) /\ Toward(db, Shown(w, db), Utxo(old), Utxo(new))
    BY <1>2, <1>3, ReplayedLeads
  <2> HIDE DEF w
  <2>2. \A o \in Txs : Shown(w, db)[o] = Utxo(new)[o]  BY <1>4, <2>1 DEF Toward
  <2>3. Shown(w, db) \in Maps /\ Utxo(new) \in Maps
    BY <1>2, <2>1, ShownMap, CoinTypes DEF Views, Maps
  <2> QED BY <2>1, <2>2, <2>3, SameMap
<1> HIDE DEF w
<1>6. (Shown(cache, db))' = Utxo(new)
  <2>1. (Shown(cache, db))' = Shown(w, db)  BY <1>1 DEF Shown
  <2> QED BY <1>5, <2>1
<1>7. TypeOK'
  <2>1. cache' \in [Txs -> Entries]  BY <1>1, <1>5 DEF Views
  <2>2. left' \subseteq Txs  BY <1>1 DEF Dirty
  <2> QED BY <1>1, <1>2, <2>1, <2>2, TreeAssumption DEF CoinInv, TypeOK
<1>8. UndoRight' /\ DbRight' /\ NeverStuck'
  BY <1>1 DEF CoinInv, UndoRight, DbRight, NeverStuck
<1>9. CacheRight'
  <2>1. ASSUME NEW o \in Txs PROVE Flushing(o)'
    <3>1. Sound(w[o], db[o]) /\ (o \notin Dirty(w) => ~w[o].dirty)
      BY <1>5, FlushBegins DEF Views
    <3>2. left' = Dirty(w)  BY <1>1 DEF Dirty
    <3> QED BY <1>1, <3>1, <3>2 DEF Flushing
  <2>2. Utxo(hashBlock)' = Utxo(new)  BY <1>1
  <2> QED BY <1>1, <1>6, <2>1, <2>2 DEF CacheRight
<1>10. UNCHANGED Promise!vars
  <2>1. Running = FALSE /\ Running' = FALSE  BY <1>1 DEF Running
  <2> QED BY <1>1, <2>1 DEF Promise!vars, OrGenesis
<1> QED BY <1>7, <1>8, <1>9, <1>10 DEF CoinInv

\* The first state has no coins and is at Genesis.
LEMMA CoinInvInit ==
  ASSUME Init
  PROVE  CoinInv /\ Promise!Init
<1>1. /\ db = Utxo(Genesis) /\ db \in Maps /\ Genesis \in Blocks /\ Genesis # NoBlock
      /\ OrGenesis(bestBlock) = Genesis
  BY UtxoGenesis, CoinTypes, StateAssumption DEF Init, OrGenesis, Maps
<1>2. cache = Empty /\ Empty \in Views(db) /\ Shown(Empty, db) = db  BY <1>1, EmptyView DEF Init
<1>3. Empty \in [Txs -> Entries] /\ DOMAIN <<>> = {} /\ 0 \in 0..MaxCrashes
  BY <1>2, StateAssumption DEF Views
<1>4. TypeOK  BY <1>1, <1>3 DEF Init, TypeOK, Maps
<1>5. UndoRight /\ DbRight /\ CacheRight /\ NeverStuck
  BY <1>1, <1>2, <1>3 DEF Init, UndoRight, DbRight, CacheRight, NeverStuck
<1>6. Promise!Init
  <2>1. Running = TRUE  BY DEF Init, Running
  <2> QED BY <1>1, <1>2, <2>1, PromiseUtxo DEF Init, Promise!Init
<1> QED BY <1>4, <1>5, <1>6 DEF CoinInv

\* Every step keeps the invariant and is a step of the promise, or none.
LEMMA CoinInvStep ==
  ASSUME DiskInv, CoinInv, [Next]_vars
  PROVE  CoinInv' /\ (Promise!Next \/ UNCHANGED Promise!vars)
<1>1. ASSUME NEW b \in Blocks, AcceptBlock(b) PROVE CoinInv' /\ UNCHANGED Promise!vars
  BY <1>1, AcceptCoins
<1>2. ASSUME NEW b \in Blocks, ConnectTip(b) PROVE CoinInv' /\ Promise!Next
  BY <1>2, ConnectCoins DEF Promise!Next
<1>3. ASSUME DisconnectTip PROVE CoinInv' /\ Promise!Next
  BY <1>3, DisconnectCoins DEF Promise!Next
<1>4. ASSUME NoFlush PROVE CoinInv' /\ UNCHANGED Promise!vars
  BY <1>4, NoFlushCoins
<1>5. ASSUME NEW empty_cache \in BOOLEAN, FlushStateToDisk(empty_cache)
      PROVE  CoinInv' /\ UNCHANGED Promise!vars
  BY <1>5, FlushCoins
<1>6. ASSUME NEW o \in Txs, WritePartialBatch(o)
      PROVE  CoinInv' /\ (Promise!Next \/ UNCHANGED Promise!vars)
  BY <1>6, PartialCoins DEF Promise!Next
<1>7. ASSUME WriteFinalBatch PROVE CoinInv' /\ Promise!Next
  BY <1>7, FinalCoins DEF Promise!Next
<1>8. ASSUME Crash PROVE CoinInv' /\ Promise!Next
  BY <1>8, CrashCoins DEF Promise!Next
<1>9. ASSUME LoadChainTip PROVE CoinInv' /\ Promise!Next
  BY <1>9, LoadCoins DEF Promise!Next
<1>10. ASSUME ReplayBlocks PROVE CoinInv' /\ UNCHANGED Promise!vars
  BY <1>10, ReplayCoins
<1>11. CASE UNCHANGED vars
  <2>1. /\ UNCHANGED <<db, bestBlock, headBlocks, diskIndex, diskUndo, pc, blockIndex, undo>>
        /\ UNCHANGED <<tip, cache, hashBlock, left, erase, crashes>>
    BY <1>11 DEF vars, coinsDb, indexDb
  <2>2. TypeOK' /\ UndoRight' /\ DbRight' /\ NeverStuck'
    BY <2>1 DEF CoinInv, TypeOK, UndoRight, DbRight, NeverStuck
  <2>3. CacheRight'  BY <2>1 DEF CoinInv, CacheRight, Flushing, Shown
  <2>4. UNCHANGED Promise!vars  BY <2>1 DEF Promise!vars, Running, Shown, OrGenesis
  <2> QED BY <2>2, <2>3, <2>4 DEF CoinInv
<1> QED BY <1>1, <1>2, <1>3, <1>4, <1>5, <1>6, <1>7, <1>8, <1>9, <1>10, <1>11 DEF Next

\* The coins in memory and on disk, whatever crashes.
THEOREM CoinsCorrect == Spec => []CoinInv
<1>1. Init => DiskInv /\ CoinInv  BY DiskInit, CoinInvInit
<1>2. DiskInv /\ CoinInv /\ [Next]_vars => DiskInv' /\ CoinInv'
  BY DiskStep, CoinInvStep
<1> QED BY <1>1, <1>2, PTL DEF Spec

\* The types of the state.
THEOREM TypeCorrect == Spec => []TypeOK
<1>1. CoinInv => TypeOK  BY DEF CoinInv
<1> QED BY <1>1, CoinsCorrect, PTL

\* No start fails and no block is stuck: DisconnectTip always meets the coins of its
\* block, over whatever flushes, crashes and replays the cache and the database have
\* come to hold them.
THEOREM NeverStuckCorrect == Spec => []NeverStuck
<1>1. CoinInv => NeverStuck  BY DEF CoinInv
<1> QED BY <1>1, CoinsCorrect, PTL

\* The node keeps the promise of UtxoChain: while it runs it has the coins of its tip,
\* and after a crash those of the last block made durable.
THEOREM PromiseKept == Spec => ImplementsUtxoChain
<1>1. Init => Promise!Init  BY CoinInvInit
<1>2. DiskInv /\ CoinInv /\ [Next]_vars => [Promise!Next]_(Promise!vars)
  BY CoinInvStep
<1> QED BY <1>1, <1>2, DiskCorrect, CoinsCorrect, PTL DEF Spec, ImplementsUtxoChain, Promise!Spec
=============================================================================
