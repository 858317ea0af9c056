---------------------------- MODULE MCCoinsCache ----------------------------
(* Values of CoinsCache's constants for TLC.                                *)
EXTENDS CoinsCache, TLC

CONSTANTS o1, o2, k1, k2
=============================================================================
