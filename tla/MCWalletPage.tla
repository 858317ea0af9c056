--------------------------- MODULE MCWalletPage ----------------------------
(* WalletPage as TLC checks it; the configuration gives plain values.        *)
EXTENDS WalletPage
=============================================================================
