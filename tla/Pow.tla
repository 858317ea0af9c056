-------------------------------- MODULE Pow --------------------------------
(***************************************************************************)
(* pow.cpp: the work a block must show, and the test that headers sync     *)
(* applies to the work of a header whose ancestors it no longer has.  The  *)
(* chain grows by blocks that ContextualCheckBlockHeader and               *)
(* CheckBlockHeader accept, with any timestamp those two let through.      *)
(*                                                                         *)
(* A target is a number of at most WIDTH digits to the base BASE (code: 32 *)
(* digits, base 256); nBits is its floating-point form, a size and a word  *)
(* of DIGITS digits (code: 3) whose highest bit is the sign.               *)
(***************************************************************************)
EXTENDS Integers, Sequences, SequencesExt

CONSTANTS
  BASE, DIGITS, WIDTH,
  Networks,              \* Consensus::Params of the networks, and nBits of their genesis blocks
  nBlocksToAverage,      \* 15
  nMedianTimeSpan,       \* 11
  MAX_TIMEWARP,          \* 600
  TimeSteps,             \* bound: timestamp of a block minus that of its parent
  MaxHeight              \* bound

\* Power[n] is BASE to the n, the weight of digit n.
Power[n \in Nat] == IF n = 0 THEN 1 ELSE BASE * Power[n - 1]

SignBit == Power[DIGITS] \div 2
Words == 0..(Power[DIGITS] - 1)
Compacts == [size : 0..(WIDTH + 2), word : Words]

Params ==
  [powLimit : 1..(Power[WIDTH] - 1), genesisBits : Compacts,
   nPowTargetSpacing : Nat \ {0}, nPowTargetTimespan : Nat,
   fPowAllowMinDifficultyBlocks : BOOLEAN, fPowNoRetargeting : BOOLEAN, enforce_BIP94 : BOOLEAN]

ASSUME PowAssumption ==
  /\ BASE \in Nat \ {0, 1} /\ BASE % 2 = 0 /\ DIGITS \in Nat \ {0, 1} /\ WIDTH \in Nat
  /\ Networks \subseteq Params
  /\ \A p \in Networks : p.nPowTargetTimespan >= p.nPowTargetSpacing
  /\ nBlocksToAverage \in Nat \ {0} /\ nMedianTimeSpan \in Nat \ {0}
  /\ MAX_TIMEWARP \in Nat /\ TimeSteps \subseteq Int /\ MaxHeight \in Nat

VARIABLES
  params,      \* the network this node runs on, chosen at its start
  chain        \* chain[h + 1]: the header at height h, [time, nBits]

vars == <<params, chain>>

powLimit == params.powLimit
nPowTargetSpacing == params.nPowTargetSpacing
nPowTargetTimespan == params.nPowTargetTimespan

-----------------------------------------------------------------------------
(* arith_uint256: unsigned arithmetic modulo Power[WIDTH].                  *)

Mul(n, k) == (n * k) % Power[WIDTH]

\* The number of digits of n, and the leading DIGITS of them.
Size(n) == CHOOSE s \in 0..WIDTH : n < Power[s] /\ (s = 0 \/ n >= Power[s - 1])
Leading(n) ==
  IF Size(n) <= DIGITS THEN n * Power[DIGITS - Size(n)] ELSE n \div Power[Size(n) - DIGITS]

\* Slip: the word is shifted up where it should lose a digit.
GetCompact_ShiftsUp(n) ==
  IF Leading(n) >= SignBit THEN [size |-> Size(n) + 1, word |-> Leading(n) * BASE]
                           ELSE [size |-> Size(n), word |-> Leading(n)]

\* Slip: a word that reads as negative is kept.
GetCompact_KeepsSignBit(n) == [size |-> Size(n), word |-> Leading(n)]

\* A word that would read as negative loses one digit more.
GetCompact(n) ==
  IF Leading(n) >= SignBit THEN [size |-> Size(n) + 1, word |-> Leading(n) \div BASE]
                           ELSE [size |-> Size(n), word |-> Leading(n)]

\* The value, its digits above WIDTH shifted out.
SetCompact(b) ==
  LET word == b.word % SignBit
  IN  IF b.size <= DIGITS THEN word \div Power[DIGITS - b.size]
                          ELSE (word * Power[b.size - DIGITS]) % Power[WIDTH]

\* *pfNegative and *pfOverflow.
Negative(b) ==
  /\ b.word >= SignBit
  /\ b.word % SignBit # 0 /\ (b.size <= DIGITS => SetCompact(b) # 0)
Overflow(b) == (b.word % SignBit) * Power[b.size] >= Power[WIDTH + DIGITS]

NoTarget == 0

\* DeriveTarget: nothing for a negative, zero, overflown or too easy target.
DeriveTarget(b) ==
  IF Negative(b) \/ Overflow(b) \/ SetCompact(b) > powLimit THEN NoTarget ELSE SetCompact(b)

(***************************************************************************)
(* What sanity_check_chainparams of pow_tests.cpp asks of a network: its   *)
(* genesis block has a target, in compact form, and a target times four    *)
(* timespans does not overflow.  The rules for test networks come together *)
(* with min-difficulty blocks.                                             *)
(***************************************************************************)
ASSUME NetworksAssumption ==
  \A p \in Networks :
    /\ SetCompact(p.genesisBits) \in 1..p.powLimit
    /\ GetCompact(SetCompact(p.genesisBits)) = p.genesisBits
    /\ ~p.fPowNoRetargeting => p.powLimit * (p.nPowTargetTimespan * 4) < Power[WIDTH]
    /\ (p.fPowNoRetargeting \/ p.enforce_BIP94) => p.fPowAllowMinDifficultyBlocks

-----------------------------------------------------------------------------
DifficultyAdjustmentInterval == nPowTargetTimespan \div nPowTargetSpacing

Clamp(n, lo, hi) == IF n < lo THEN lo ELSE IF n > hi THEN hi ELSE n
Capped(n) == IF n > powLimit THEN powLimit ELSE n

\* C++ integer division truncates towards zero.
Quotient(n, d) == IF n >= 0 THEN n \div d ELSE -((-n) \div d)

Retargeted(bits, actual, target) == GetCompact(Capped(Mul(SetCompact(bits), actual) \div target))

\* The interval rule; s is the chain up to pindexLast, first its first block's time.
CalculateNextWorkRequired(s, first) ==
  LET bits == IF params.enforce_BIP94 THEN s[Len(s) - (DifficultyAdjustmentInterval - 1)].nBits
                               ELSE Last(s).nBits
      actual == Clamp(Last(s).time - first, nPowTargetTimespan \div 4, nPowTargetTimespan * 4)
  IN  IF params.fPowNoRetargeting THEN Last(s).nBits ELSE Retargeted(bits, actual, nPowTargetTimespan)

\* Slip: no upper limit on the measured time.
CalculateNextWorkRequired_DigiShield_NoUpperLimit(s, average) ==
  LET actual == IF average < nPowTargetSpacing \div 2 THEN nPowTargetSpacing \div 2 ELSE average
  IN  IF params.fPowNoRetargeting THEN Last(s).nBits
                           ELSE Retargeted(Last(s).nBits, actual, nPowTargetSpacing)

CalculateNextWorkRequired_DigiShield(s, average) ==
  LET actual == Clamp(average, nPowTargetSpacing \div 2, nPowTargetSpacing * 2)
  IN  IF params.fPowNoRetargeting THEN Last(s).nBits
                           ELSE Retargeted(Last(s).nBits, actual, nPowTargetSpacing)

nProofOfWorkLimit == GetCompact(powLimit)

\* The block the walk over min-difficulty blocks ends at, as an index of s.
LastNonSpecial(s) ==
  CHOOSE i \in DOMAIN s :
    /\ i = 1 \/ (i - 1) % DifficultyAdjustmentInterval = 0 \/ s[i].nBits # nProofOfWorkLimit
    /\ \A j \in (i + 1)..Len(s) : /\ (j - 1) % DifficultyAdjustmentInterval # 0
                                  /\ s[j].nBits = nProofOfWorkLimit

\* The rule of the first nBlocksToAverage blocks.
IntervalWork(s, time) ==
  IF Len(s) % DifficultyAdjustmentInterval = 0
    THEN CalculateNextWorkRequired(s, s[Len(s) - (DifficultyAdjustmentInterval - 1)].time)
    ELSE IF ~params.fPowAllowMinDifficultyBlocks THEN Last(s).nBits
    ELSE IF time > Last(s).time + nPowTargetSpacing * 2 THEN nProofOfWorkLimit
    ELSE s[LastNonSpecial(s)].nBits

\* Slip: the sum of the times is divided by one too few.
AverageTime_CountsGaps(s) ==
  Quotient(Last(s).time - s[Len(s) - nBlocksToAverage].time, nBlocksToAverage - 1)

\* The times of the blocks in between cancel out of the sum.
AverageTime(s) ==
  Quotient(Last(s).time - s[Len(s) - nBlocksToAverage].time, nBlocksToAverage)

GetNextWorkRequired(s, time) ==
  IF Len(s) - 1 < nBlocksToAverage THEN IntervalWork(s, time)
  ELSE CalculateNextWorkRequired_DigiShield(s, AverageTime(s))

\* new is no further from old than a measured time between least and most allows.
Within(old, new, least, most, target) ==
  /\ SetCompact(new) <= SetCompact(Retargeted(old, most, target))
  /\ SetCompact(new) >= SetCompact(Retargeted(old, least, target))

PermittedDifficultyTransition(height, old, new) ==
  IF params.fPowAllowMinDifficultyBlocks THEN TRUE
  ELSE IF height >= nBlocksToAverage
    THEN Within(old, new, nPowTargetSpacing \div 2, nPowTargetSpacing * 2, nPowTargetSpacing)
  ELSE IF height % DifficultyAdjustmentInterval = 0
    THEN Within(old, new, nPowTargetTimespan \div 4, nPowTargetTimespan * 4, nPowTargetTimespan)
  ELSE old = new

-----------------------------------------------------------------------------
\* The median of the last nMedianTimeSpan times, the upper one of an even number.
GetMedianTimePast(s) ==
  LET k == IF Len(s) < nMedianTimeSpan THEN Len(s) ELSE nMedianTimeSpan
      recent == [i \in 1..k |-> s[Len(s) - k + i].time]
      sorted == SortSeq(recent, <)
  IN  sorted[(k \div 2) + 1]

ContextualCheckBlockHeader(s, block) ==
  /\ block.nBits = GetNextWorkRequired(s, block.time)
  /\ block.time > GetMedianTimePast(s)
  /\ (params.enforce_BIP94 /\ Len(s) % DifficultyAdjustmentInterval = 0) =>
       block.time >= Last(s).time - MAX_TIMEWARP

Init ==
  /\ params \in Networks
  /\ chain = <<[time |-> 0, nBits |-> params.genesisBits]>>

\* A miner finds a hash below the target: CheckProofOfWork has a target to compare with.
AcceptBlock(step) ==
  LET time == Last(chain).time + step
      block == [time |-> time, nBits |-> GetNextWorkRequired(chain, time)]
  IN  /\ Len(chain) <= MaxHeight
      /\ ContextualCheckBlockHeader(chain, block)
      /\ DeriveTarget(block.nBits) # NoTarget
      /\ chain' = Append(chain, block)
      /\ UNCHANGED params

Next == \E step \in TimeSteps : AcceptBlock(step)

Spec == Init /\ [][Next]_vars

-----------------------------------------------------------------------------
\* Types, and what pow.cpp computes fits the word of nBits.
TypeOK ==
  /\ params \in Networks
  /\ chain \in Seq([time : Int, nBits : Compacts])
  /\ {nProofOfWorkLimit, Retargeted(Last(chain).nBits, nPowTargetSpacing * 2, nPowTargetSpacing)}
       \subseteq Compacts

Times == {Last(chain).time + step : step \in TimeSteps}

\* The least factor of either rule leaves a target of at least 1.
HasRoom(bits) ==
  /\ SetCompact(bits) * (nPowTargetSpacing \div 2) >= nPowTargetSpacing
  /\ SetCompact(bits) * (nPowTargetTimespan \div 4) >= nPowTargetTimespan

(***************************************************************************)
(* Whatever the timestamps so far, the work asked of the next block is a   *)
(* target CheckProofOfWork accepts: positive, not overflown, not negative  *)
(* by its rounding to nBits, and no easier than powLimit.  Only a chain    *)
(* whose last interval already has a target of a few units may end in 0.   *)
(***************************************************************************)
NextTargetValid ==
  (\A i \in DOMAIN chain : i > Len(chain) - DifficultyAdjustmentInterval => HasRoom(chain[i].nBits))
    => \A time \in Times : DeriveTarget(GetNextWorkRequired(chain, time)) # NoTarget

(***************************************************************************)
(* Headers sync judges a header by its height and the work of its parent   *)
(* alone; it refuses no header of a chain that GetNextWorkRequired built,  *)
(* the change from the interval rule to the averaging rule included.       *)
(***************************************************************************)
HeadersSyncAccepts ==
  \A h \in 1..(Len(chain) - 1) :
    PermittedDifficultyTransition(h, chain[h].nBits, chain[h + 1].nBits)

(***************************************************************************)
(* Blocks that come at the target spacing on average leave the difficulty  *)
(* as it is: rounding to nBits and back is no drift.                       *)
(***************************************************************************)
SteadyAtTarget ==
  \A time \in Times :
    /\ Len(chain) > nBlocksToAverage
    /\ Last(chain).time - chain[Len(chain) - nBlocksToAverage].time
         = nBlocksToAverage * nPowTargetSpacing
    => GetNextWorkRequired(chain, time) = Last(chain).nBits
=============================================================================
