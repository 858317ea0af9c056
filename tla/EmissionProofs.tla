--------------------------- MODULE EmissionProofs ---------------------------
(***************************************************************************)
(* The supply cap for every initial subsidy, interval and number of        *)
(* periods.  SupplyCap alone is not inductive (a block adds to supply and  *)
(* nothing in SupplyCap bounds what is still to come); SupplyOnSchedule    *)
(* is, because 100 * ((99 * r) \div 100) <= 99 * r pays for each new       *)
(* period out of the 99 periods held in reserve.                           *)
(***************************************************************************)
EXTENDS Emission, TLAPS

\* The coins in existence never exceed 100 intervals of the initial subsidy.
SupplyCap == supply[height] <= 100 * Interval * InitialSubsidy

\* Truncating reduction: a hundred reduced rewards cost at most 99 rewards.
LEMMA ReducedReward ==
  ASSUME NEW r \in Nat
  PROVE  100 * ((r * 99) \div 100) <= 99 * r /\ (r * 99) \div 100 \in Nat
  OBVIOUS

\* The height after h is in the same period, one further, or opens the next.
LEMMA NextPeriod ==
  ASSUME NEW h \in Nat, NEW I \in Nat \ {0}
  PROVE  /\ h \div I \in Nat
         /\ h % I \in 0..(I - 1)
         /\ h = I * (h \div I) + (h % I)
         /\ h % I < I - 1 => /\ (h + 1) \div I = h \div I
                             /\ (h + 1) % I = (h % I) + 1
         /\ h % I = I - 1 => /\ (h + 1) \div I = h \div I + 1
                             /\ (h + 1) % I = 0
<1>1. /\ h \div I \in Nat /\ h % I \in 0..(I - 1) /\ h = I * (h \div I) + (h % I)
  OBVIOUS
<1>2. /\ (h+1) \div I \in Nat /\ (h+1) % I \in 0..(I - 1) /\ h + 1 = I * ((h+1) \div I) + ((h+1) % I)
  OBVIOUS
<1>3. ASSUME NEW q \in Nat, NEW r \in 0..(I-1), NEW p \in Nat, NEW s \in 0..(I-1),
             I * q + r = I * p + s
      PROVE  q = p /\ r = s
  <2>1. CASE q > p
    <3>1. I * (q - p) >= I  BY <2>1
    <3>2. I * (q - p) = s - r BY <1>3
    <3> QED BY <3>1, <3>2
  <2>2. CASE p > q
    <3>1. I * (p - q) >= I  BY <2>2
    <3>2. I * (p - q) = r - s BY <1>3
    <3> QED BY <3>1, <3>2
  <2> QED BY <2>1, <2>2, <1>3
<1>4. CASE h % I < I - 1
  <2>1. I * (h \div I) + ((h % I) + 1) = I * ((h+1) \div I) + ((h+1) % I)
    BY <1>1, <1>2
  <2>2. (h % I) + 1 \in 0..(I-1) BY <1>1, <1>4
  <2> QED BY <1>1, <1>2, <1>3, <1>4, <2>1, <2>2
<1>5. CASE h % I = I - 1
  <2> DEFINE q == (h \div I) + 1
  <2>1. I * q + 0 = I * ((h+1) \div I) + ((h+1) % I)
    BY <1>1, <1>2, <1>5
  <2>2. q \in Nat /\ 0 \in 0..(I - 1) BY <1>1
  <2> HIDE DEF q
  <2>3. q = (h+1) \div I /\ 0 = (h+1) % I
    BY <1>2, <1>3, <2>1, <2>2
  <2> QED BY <1>5, <2>3, <1>1 DEF q
<1> QED BY <1>1, <1>4, <1>5

-----------------------------------------------------------------------------
\* The constants' assumptions in the form the steps below use.
LEMMA RewardFacts ==
  /\ InitialSubsidy \in Nat /\ Interval \in Nat \ {0} /\ MaxPeriods \in Nat \ {0}
  /\ \A h \in Nat : h < MaxPeriods * Interval =>
       /\ h \div Interval \in 0..(MaxPeriods - 1)
       /\ GetBlockSubsidy(h) \in Nat
<1>1. /\ InitialSubsidy \in Nat /\ Interval \in Nat \ {0} /\ MaxPeriods \in Nat \ {0}
      /\ Reward \in [0..MaxPeriods -> Nat]
  BY RewardAssumption
<1>2. ASSUME NEW h \in Nat, h < MaxPeriods * Interval
      PROVE  /\ h \div Interval \in 0..(MaxPeriods - 1)
             /\ GetBlockSubsidy(h) \in Nat
  <2>1. /\ h \div Interval \in Nat /\ h % Interval \in 0..(Interval - 1)
        /\ h = Interval * (h \div Interval) + (h % Interval)
    BY <1>1, NextPeriod
  <2>2. h \div Interval < MaxPeriods
    <3>1. SUFFICES ASSUME h \div Interval >= MaxPeriods PROVE FALSE
      BY <1>1, <2>1
    <3> DEFINE q == h \div Interval
    <3> DEFINE m == h % Interval
    <3>2. q \in Nat /\ q >= MaxPeriods /\ m \in Nat /\ h = Interval * q + m
      BY <1>1, <2>1, <3>1
    <3> HIDE DEF q, m
    <3>3. Interval * q >= Interval * MaxPeriods
      BY <1>1, <3>2
    <3> QED BY <1>1, <1>2, <3>2, <3>3
  <2> QED BY <1>1, <2>1, <2>2 DEF GetBlockSubsidy
<1> QED BY <1>1, <1>2

(***************************************************************************)
(* Type correctness: heights stay below the modelled schedule and the      *)
(* coins in existence never go negative, because fees are paid out of      *)
(* coins that exist.                                                       *)
(***************************************************************************)
THEOREM TypeCorrect == Spec => []TypeOK
<1>1. Init => TypeOK
  <2>1. 0 < MaxPeriods * Interval
    BY RewardAssumption
  <2> QED BY <2>1 DEF Init, TypeOK
<1>2. TypeOK /\ [Next]_vars => TypeOK'
  <2> SUFFICES ASSUME TypeOK, [Next]_vars PROVE TypeOK'
    OBVIOUS
  <2>1. CASE ConnectBlock
    <3>1. PICK nFees \in Fees, valueOut \in Int :
            /\ valueOut \in 0..(nFees + GetBlockSubsidy(height + 1))
            /\ height + 1 < MaxPeriods * Interval
            /\ nFees <= supply[height]
            /\ height' = height + 1
            /\ supply' = [h \in 0..(height + 1) |->
                            IF h = height + 1 THEN supply[height] - nFees + valueOut
                                              ELSE supply[h]]
      BY <2>1 DEF ConnectBlock
    <3>2. nFees \in Nat /\ GetBlockSubsidy(height + 1) \in Nat /\ valueOut \in Nat
      BY <3>1, MoneyAssumption, RewardFacts DEF TypeOK
    <3> QED BY <3>1, <3>2 DEF TypeOK
  <2>2. CASE DisconnectBlock
    <3>1. height - 1 \in Nat /\ height' = height - 1
      BY <2>2 DEF TypeOK, DisconnectBlock
    <3>2. MaxPeriods * Interval \in Int
      BY RewardFacts
    <3> DEFINE top == MaxPeriods * Interval
    <3>3. height - 1 < top
      <4> height \in Nat /\ height < top /\ top \in Int  BY <3>2 DEF TypeOK
      <4> HIDE DEF top
      <4> QED OBVIOUS
    <3>4. supply' \in [0..(height - 1) -> Nat]
      BY <2>2 DEF TypeOK, DisconnectBlock
    <3> QED BY <3>1, <3>3, <3>4 DEF TypeOK
  <2>3. CASE UNCHANGED vars
    BY <2>3 DEF TypeOK, vars
  <2> QED BY <2>1, <2>2, <2>3 DEF Next
<1> QED BY <1>1, <1>2, PTL DEF Spec

-----------------------------------------------------------------------------
\* A block inside a period moves one reward from the period's rest to supply.
LEMMA SamePeriodStep ==
  ASSUME NEW I \in Nat \ {0}, NEW s \in Nat, NEW cap \in Int, NEW r \in Int,
         NEW old \in Int, NEW new \in Int,
         new <= old + s,
         old + (I - 1 - r) * s + 99 * I * s <= cap
  PROVE  new + (I - 1 - (r + 1)) * s + 99 * I * s <= cap
<1> DEFINE a == (I - 1 - r) * s
           b == 99 * I * s
           c == (I - 1 - (r + 1)) * s
<1>1. a \in Int /\ b \in Int /\ c \in Int  OBVIOUS
<1>2. c = a - s  OBVIOUS
<1>3. old + a + b <= cap  OBVIOUS
<1>4. SUFFICES new + c + b <= cap  OBVIOUS
<1> HIDE DEF a, b, c
<1> QED BY <1>1, <1>2, <1>3

\* A block that opens a period at reward t <= 0.99 * s uses the reserve.
LEMMA NewPeriodStep ==
  ASSUME NEW I \in Nat \ {0}, NEW s \in Nat, NEW t \in Nat, NEW cap \in Int,
         NEW old \in Int, NEW new \in Int,
         new <= old + t, 100 * t <= 99 * s,
         old + 99 * I * s <= cap
  PROVE  new + (I - 1 - 0) * t + 99 * I * t <= cap
<1> DEFINE x == I * t
           y == I * s
<1>1. x \in Int /\ y \in Int  OBVIOUS
<1>2. 100 * x <= 99 * y
  <2>1. 0 <= I * (99 * s - 100 * t)  OBVIOUS
  <2> QED BY <2>1
<1>3. (I - 1 - 0) * t = x - t  OBVIOUS
<1>4. 99 * I * t = 99 * x /\ 99 * I * s = 99 * y  OBVIOUS
<1>5. SUFFICES new + (x - t) + 99 * x <= cap  BY <1>3, <1>4
<1>6. old + 99 * y <= cap  BY <1>4
<1> HIDE DEF x, y
<1> QED BY <1>1, <1>2, <1>6

\* The cap follows from the headroom at the tip.
LEMMA HeadroomGivesCap == TypeOK /\ SupplyOnSchedule => SupplyCap
<1> SUFFICES ASSUME TypeOK, SupplyOnSchedule PROVE SupplyCap
  OBVIOUS
<1> DEFINE s == GetBlockSubsidy(height)
           a == (Interval - 1 - (height % Interval)) * s
           b == 99 * Interval * s
           cap == 100 * Interval * InitialSubsidy
<1>1. /\ height \in Nat /\ supply[height] \in Nat /\ s \in Nat
      /\ Interval \in Nat \ {0} /\ cap \in Int
  BY RewardFacts DEF TypeOK
<1>2. height % Interval \in 0..(Interval - 1)
  BY <1>1, NextPeriod
<1>3. Interval - 1 - (height % Interval) \in Nat
  BY <1>1, <1>2
<1>4. a \in Nat /\ b \in Nat
  <2> HIDE DEF s
  <2>1. \A n, m \in Nat : n * m \in Nat  OBVIOUS
  <2> QED BY <1>1, <1>3, <2>1
<1>5. supply[height] + a + b <= cap
  BY <1>1 DEF SupplyOnSchedule, Headroom
<1> HIDE DEF a, b, cap, s
<1>6. supply[height] <= cap
  BY <1>1, <1>4, <1>5
<1> QED BY <1>6 DEF SupplyCap, cap

(***************************************************************************)
(* The inductive step: a connected block keeps every height's headroom.    *)
(***************************************************************************)
LEMMA ConnectKeepsHeadroom ==
  ASSUME TypeOK, SupplyOnSchedule, ConnectBlock
  PROVE  SupplyOnSchedule'
<1>1. PICK nFees \in Fees, valueOut \in Int :
        /\ valueOut \in 0..(nFees + GetBlockSubsidy(height + 1))
        /\ height + 1 < MaxPeriods * Interval
        /\ height' = height + 1
        /\ supply' = [h \in 0..(height + 1) |->
                        IF h = height + 1 THEN supply[height] - nFees + valueOut
                                          ELSE supply[h]]
  BY DEF ConnectBlock
<1> DEFINE p == height + 1
           s == GetBlockSubsidy(height)
           t == GetBlockSubsidy(p)
           cap == 100 * Interval * InitialSubsidy
           r == height % Interval
<1>2. /\ height \in Nat /\ p \in Nat /\ height < MaxPeriods * Interval
      /\ supply[height] \in Nat
  BY DEF TypeOK
<1>3. nFees \in Nat  BY MoneyAssumption
<1>4. /\ Interval \in Nat \ {0} /\ cap \in Int
      /\ s \in Nat /\ t \in Nat
      /\ height \div Interval \in 0..(MaxPeriods - 1)
      /\ p \div Interval \in 0..(MaxPeriods - 1)
  <2>1. Interval \in Nat \ {0} /\ cap \in Int  BY RewardFacts
  <2>2. s \in Nat /\ height \div Interval \in 0..(MaxPeriods - 1)
    BY <1>2, RewardFacts
  <2>3. p \in Nat /\ p < MaxPeriods * Interval  BY <1>1, <1>2
  <2> HIDE DEF p
  <2>4. t \in Nat /\ p \div Interval \in 0..(MaxPeriods - 1)
    BY <2>3, RewardFacts
  <2> QED BY <2>1, <2>2, <2>4
<1>5. supply'[p] \in Int /\ supply'[p] <= supply[height] + t
  <2>1. supply'[p] = supply[height] - nFees + valueOut  BY <1>1, <1>2
  <2>2. valueOut <= nFees + t  BY <1>1, <1>3, <1>4
  <2> HIDE DEF t, p
  <2> QED BY <2>1, <2>2, <1>2, <1>3, <1>4
<1>6. supply[height] + (Interval - 1 - r) * s + 99 * Interval * s <= cap
  BY <1>2 DEF SupplyOnSchedule, Headroom
<1>7. supply'[p] + (Interval - 1 - (p % Interval)) * t + 99 * Interval * t <= cap
  <2>1. CASE r < Interval - 1
    <3>1. p \div Interval = height \div Interval /\ p % Interval = r + 1
      BY <1>2, <1>4, <2>1, NextPeriod
    <3>2. t = s  BY <3>1 DEF GetBlockSubsidy
    <3>3. r \in Int  BY <1>2, <1>4, NextPeriod
    <3>4. supply'[p] <= supply[height] + s  BY <1>5, <3>2
    <3> HIDE DEF s, t, p, cap, r
    <3>5. supply'[p] + (Interval - 1 - (r + 1)) * s + 99 * Interval * s <= cap
      BY <1>2, <1>4, <1>5, <1>6, <3>3, <3>4, SamePeriodStep
    <3> QED BY <3>1, <3>2, <3>5
  <2>2. CASE r = Interval - 1
    <3>1. p \div Interval = (height \div Interval) + 1 /\ p % Interval = 0
      BY <1>2, <1>4, <2>2, NextPeriod
    <3>2. 100 * t <= 99 * s
      <4> DEFINE i == height \div Interval
      <4>1. i \in 0..(MaxPeriods - 1)  BY <1>4
      <4>2. s = Reward[i] /\ t = Reward[i + 1]  BY <3>1 DEF GetBlockSubsidy
      <4>3. Reward[i + 1] = (Reward[i] * 99) \div 100  BY <4>1, RewardAssumption
      <4> HIDE DEF i, s, t
      <4> QED BY <4>2, <4>3, <1>4, ReducedReward
    <3>3. supply[height] + 99 * Interval * s <= cap
      <4> DEFINE b == 99 * Interval * s
      <4>1. (Interval - 1 - r) * s = 0  BY <2>2, <1>4
      <4>2. b \in Int  BY <1>4
      <4>3. supply[height] + 0 + b <= cap  BY <1>6, <4>1
      <4> HIDE DEF b, s, r, cap
      <4>4. supply[height] + b <= cap  BY <4>2, <4>3, <1>2
      <4> QED BY <4>4 DEF b
    <3> HIDE DEF s, t, p, cap, r
    <3>4. supply'[p] + (Interval - 1 - 0) * t + 99 * Interval * t <= cap
      BY <1>2, <1>4, <1>5, <3>2, <3>3, NewPeriodStep
    <3> QED BY <3>1, <3>4
  <2>3. r \in 0..(Interval - 1)  BY <1>2, <1>4, NextPeriod
  <2>4. r < Interval - 1 \/ r = Interval - 1
    <3> HIDE DEF r
    <3> QED BY <2>3, <1>4
  <2> QED BY <2>1, <2>2, <2>4
<1>8. \A h \in 0..height : supply'[h] = supply[h]
  BY <1>1, <1>2
<1>9. ASSUME NEW h \in 0..height' PROVE Headroom(h)'
  <2>1. h \in 0..height \/ h = p  BY <1>1, <1>2, <1>9
  <2>2. CASE h \in 0..height
    <3>1. Headroom(h)  BY <2>2 DEF SupplyOnSchedule
    <3>2. supply'[h] = supply[h]  BY <1>8, <2>2
    <3> QED BY <3>1, <3>2 DEF Headroom, GetBlockSubsidy
  <2>3. CASE h = p
    BY <1>7, <2>3 DEF Headroom, GetBlockSubsidy
  <2> QED BY <2>1, <2>2, <2>3
<1> QED BY <1>9 DEF SupplyOnSchedule

(***************************************************************************)
(* At every height of the active chain, not only at its tip, the coins in  *)
(* existence are on the schedule of GetBlockSubsidy: what the later blocks *)
(* may still claim fits under the cap, after any reorganisation.           *)
(***************************************************************************)
THEOREM ScheduleHolds == Spec => []SupplyOnSchedule
<1>1. Init => SupplyOnSchedule
  <2> SUFFICES ASSUME Init PROVE Headroom(0)
    BY DEF Init, SupplyOnSchedule
  <2>1. Interval \in Nat \ {0} /\ InitialSubsidy \in Nat /\ Reward[0] = InitialSubsidy
    BY RewardAssumption
  <2>2. 0 \div Interval = 0 /\ 0 % Interval = 0
    BY <2>1
  <2>3. supply[0] = 0 /\ GetBlockSubsidy(0) = InitialSubsidy
    BY <2>1, <2>2 DEF Init, GetBlockSubsidy
  <2> DEFINE x == Interval * InitialSubsidy
  <2>4. /\ x \in Nat
        /\ (Interval - 1 - 0) * InitialSubsidy = x - InitialSubsidy
        /\ 99 * Interval * InitialSubsidy = 99 * x
        /\ 100 * Interval * InitialSubsidy = 100 * x
    BY <2>1
  <2>5. 0 + (x - InitialSubsidy) + 99 * x <= 100 * x
    <3> HIDE DEF x
    <3> QED BY <2>1, <2>4
  <2> HIDE DEF x
  <2> QED BY <2>2, <2>3, <2>4, <2>5 DEF Headroom
<1>2. TypeOK /\ SupplyOnSchedule /\ [Next]_vars => SupplyOnSchedule'
  <2> SUFFICES ASSUME TypeOK, SupplyOnSchedule, [Next]_vars PROVE SupplyOnSchedule'
    OBVIOUS
  <2>1. CASE ConnectBlock  BY <2>1, ConnectKeepsHeadroom
  <2>2. CASE DisconnectBlock
    <3>1. /\ height \in Nat /\ height > 0 /\ height' = height - 1
          /\ supply' = [h \in 0..(height - 1) |-> supply[h]]
      BY <2>2 DEF DisconnectBlock, TypeOK
    <3>2. ASSUME NEW h \in 0..height' PROVE Headroom(h)'
      <4>1. h \in 0..height /\ supply'[h] = supply[h]  BY <3>1, <3>2
      <4>2. Headroom(h)  BY <4>1 DEF SupplyOnSchedule
      <4> QED BY <4>1, <4>2 DEF Headroom, GetBlockSubsidy
    <3> QED BY <3>2 DEF SupplyOnSchedule
  <2>3. CASE UNCHANGED vars
    BY <2>3 DEF vars, SupplyOnSchedule, Headroom, GetBlockSubsidy
  <2> QED BY <2>1, <2>2, <2>3 DEF Next
<1> QED BY <1>1, <1>2, TypeCorrect, PTL DEF Spec

(***************************************************************************)
(* The supply cap: for every initial subsidy, interval and fee policy, no  *)
(* sequence of connected and disconnected blocks brings more coins into    *)
(* existence than 100 intervals of the initial subsidy.                    *)
(***************************************************************************)
THEOREM CapHolds == Spec => []SupplyCap
BY ScheduleHolds, TypeCorrect, HeadroomGivesCap, PTL

=============================================================================
