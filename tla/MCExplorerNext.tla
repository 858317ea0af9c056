-------------------------- MODULE MCExplorerNext ---------------------------
(* ExplorerNext as TLC checks it; the configuration gives plain values.      *)
EXTENDS ExplorerNext
=============================================================================
