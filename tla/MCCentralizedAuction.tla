------------------------- MODULE MCCentralizedAuction -------------------------
(***************************************************************************)
(* Small instances of CentralizedAuction for TLC.                          *)
(***************************************************************************)
EXTENDS CentralizedAuction

\* The repository's tests bid 0 and upwards; bids are ints.
MCBidValues == -1 .. 3
MCFewBidValues == -1 .. 2
==============================================================================
