----------------------------- MODULE MCEmission -----------------------------
(* Values of Emission's constants for TLC: the reward table is computed by  *)
(* the loop of GetBlockSubsidy.                                             *)
EXTENDS Emission

MCReward == LET r[i \in 0..MaxPeriods] ==
                  IF i = 0 THEN InitialSubsidy ELSE (r[i - 1] * 99) \div 100
            IN  r
=============================================================================
