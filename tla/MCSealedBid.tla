----------------------------- MODULE MCSealedBid -----------------------------
(***************************************************************************)
(* A small instance of SealedBidAuction for TLC.                           *)
(***************************************************************************)
EXTENDS SealedBidAuction
==============================================================================
