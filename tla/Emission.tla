------------------------------ MODULE Emission ------------------------------
(***************************************************************************)
(* The money supply of the chain: GetBlockSubsidy (src/validation.cpp),    *)
(* the "bad-cb-amount" rule of ConnectBlock, and reorganisations.          *)
(*                                                                         *)
(* A block at height h may claim at most its fees plus GetBlockSubsidy(h). *)
(* The fees come out of coins that already exist, so what a block adds to  *)
(* the coins in existence is its claim minus its fees: any amount that     *)
(* leaves the total non-negative and is at most the subsidy.               *)
(***************************************************************************)
EXTENDS Integers

CONSTANTS
  InitialSubsidy,   \* 239726 * COIN / 100 in the code
  Interval,         \* consensusParams.nSubsidyHalvingInterval
  MaxPeriods,       \* bound: number of reduction periods considered
  Reward,           \* Reward[i]: the subsidy after i reductions
  MAX_MONEY,        \* consensus/amount.h
  Fees              \* the fee totals a block's transactions may carry

(***************************************************************************)
(* The loop of GetBlockSubsidy: i reductions by the factor 99/100, each    *)
(* truncated.  (Its early break at 0 changes nothing: 0 * 99 / 100 = 0.)   *)
(***************************************************************************)
ASSUME RewardAssumption ==
  /\ InitialSubsidy \in Nat
  /\ Interval \in Nat \ {0}
  /\ MaxPeriods \in Nat \ {0}
  /\ Reward \in [0..MaxPeriods -> Nat]
  /\ Reward[0] = InitialSubsidy
  /\ \A i \in 0..(MaxPeriods - 1) : Reward[i + 1] = (Reward[i] * 99) \div 100

ASSUME MoneyAssumption == MAX_MONEY \in Nat /\ Fees \subseteq Nat

VARIABLES
  height,   \* height of the active tip; genesis is 0
  supply    \* supply[h]: coins in existence after block h of the active chain

vars == <<height, supply>>

\* Slip: a period one block too long.
GetBlockSubsidy_LongPeriod(nHeight) == Reward[nHeight \div (Interval + 1)]

\* validation.cpp GetBlockSubsidy: reductions = nHeight / nSubsidyHalvingInterval
GetBlockSubsidy(nHeight) == Reward[nHeight \div Interval]

MoneyRange(nValue) == nValue >= 0 /\ nValue <= MAX_MONEY

\* The genesis coinbase is never added to the coins database.
Init ==
  /\ height = 0
  /\ supply = [h \in {0} |-> 0]

\* Slip: inputs may be worth less than outputs (bad-txns-in-belowout dropped).
ConnectBlock_FeesFromNothing ==
  \E nFees \in Fees :
    /\ height + 1 < MaxPeriods * Interval
    /\ height' = height + 1
    /\ supply' = [h \in 0..(height + 1) |->
                    IF h = height + 1 THEN supply[height] - nFees ELSE supply[h]]

(***************************************************************************)
(* ConnectBlock, as far as money goes: nFees is taken from coins that      *)
(* exist and passes MoneyRange, the coinbase's value is in range and at    *)
(* most blockReward (else bad-cb-amount and the block is not connected).   *)
(***************************************************************************)
ConnectBlock ==
  \E nFees \in Fees :
    LET pindex == height + 1
        blockReward == nFees + GetBlockSubsidy(pindex)
    IN  /\ pindex < MaxPeriods * Interval
        /\ nFees <= supply[height]
        /\ MoneyRange(nFees)
        /\ \E valueOut \in 0..blockReward :
             /\ MoneyRange(valueOut)
             /\ height' = pindex
             /\ supply' = [h \in 0..pindex |->
                             IF h = pindex THEN supply[height] - nFees + valueOut
                                           ELSE supply[h]]

\* DisconnectBlock: the undo data restores the coins of the parent.
DisconnectBlock ==
  /\ height > 0
  /\ height' = height - 1
  /\ supply' = [h \in 0..(height - 1) |-> supply[h]]

Next == ConnectBlock \/ DisconnectBlock

Spec == Init /\ [][Next]_vars

-----------------------------------------------------------------------------
TypeOK ==
  /\ height \in Nat
  /\ height < MaxPeriods * Interval
  /\ supply \in [0..height -> Nat]

(***************************************************************************)
(* "21 billion max supply": 100 intervals of the initial subsidy (100 *    *)
(* 87600 * 2397.26 = 21.0 billion).  Whatever blocks are connected and     *)
(* disconnected, at every height of the active chain the coins in          *)
(* existence, plus the rest of the running period, plus 99 further periods *)
(* at the running reward, fit under it, although GetBlockSubsidy keeps no  *)
(* total and truncates in every period.                                    *)
(***************************************************************************)
Headroom(h) ==
  LET reward == GetBlockSubsidy(h)
  IN  supply[h] + (Interval - 1 - (h % Interval)) * reward + 99 * Interval * reward
        <= 100 * Interval * InitialSubsidy

SupplyOnSchedule == \A h \in 0..height : Headroom(h)
=============================================================================
