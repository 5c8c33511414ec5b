--------------------------- MODULE MCMarketplace ---------------------------
(***************************************************************************)
(* Small instances of Marketplace for TLC.                                 *)
(***************************************************************************)
EXTENDS Marketplace

CONSTANTS s1, m1

OneSync == {s1}
OneMonitor == {m1}
=============================================================================
