----------------------------- MODULE MCExplorer -----------------------------
(* Values of Explorer's constants for TLC.                                  *)
EXTENDS Explorer

CONSTANTS w1, w2, n1
=============================================================================
