----------------------- MODULE MCOpenAuctionSimulation -----------------------
(***************************************************************************)
(* A small instance of OpenAuctionSimulation for TLC.                      *)
(***************************************************************************)
EXTENDS OpenAuctionSimulation, TLC

CONSTANTS s1, b1, b2, b3

MCAccounts == {s1, b1, b2, b3}
MCSellers == {s1}
MCBidders == <<b1, b2, b3>>
MCPubKey == [a \in MCAccounts |-> "pk"]

\* salt + strconv.Itoa(price)
MCHash(salt, price) == salt \o ToString(price)
==============================================================================
