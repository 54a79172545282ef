----------------------- MODULE MCCentralizedSimulation -----------------------
(***************************************************************************)
(* Small instances of CentralizedSimulation for TLC.                       *)
(***************************************************************************)
EXTENDS CentralizedSimulation

MCBidValues == 1 .. TotalBids
==============================================================================
