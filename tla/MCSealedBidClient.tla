-------------------------- MODULE MCSealedBidClient --------------------------
(***************************************************************************)
(* A small instance of SealedBidClient for TLC.                            *)
(***************************************************************************)
EXTENDS SealedBidClient
==============================================================================
