---------------------------- MODULE OrderlyAuction ----------------------------
(***************************************************************************)
(* The open auction used the way the repository's own clients use it: once *)
(* "close" has paid the seller they send the instance nothing more that    *)
(* the contract would accept (auctions/auction_test.go, and Run of         *)
(* simulation/open_auction.go, which ends there).  Used so, the contract   *)
(* implements EscrowAuction.  The contract does not impose it: SaleIsFinal *)
(* says what it would have to.                                             *)
(***************************************************************************)
EXTENDS OpenAuction

Sold == auction.State = "WCLOSED"

\* The clients bid for the account they fetch from, which exists, and after a
\* sale only the coin accounts change.
OrderlyNext ==
  /\ Next
  /\ auction'.HighestBidder \notin Strays
  /\ Sold => UNCHANGED <<auction, proceeds>>

OrderlySpec == Init /\ [][OrderlyNext]_vars

------------------------------------------------------------------------------

\* What an account lacks of the coins it was given: its stake.
StakeOf(a) == (minted[a] + unbacked[a] + Earned(a)) - balance[a]

PhaseOf(state) ==
  CASE state = "ABSENT" -> "announced"
    [] state = "OPEN" -> "running"
    [] state = "WCLOSED" -> "sold"
    [] state \in {"CLOSED", "DROPPED"} -> "cancelled"

Escrow == INSTANCE EscrowAuction WITH
  Participants <- Accounts,
  Nobody <- NoAccount,
  Stakes <- Amounts,
  phase <- PhaseOf(auction.State),
  leader <- auction.HighestBidder,
  stake <- [a \in Accounts |-> StakeOf(a)],
  revenue <- proceeds

(***************************************************************************)
(* The contract, its storage and its refunds implement the escrow auction: *)
(* the stakes, computed from the coin accounts alone, follow the bids the  *)
(* auction records (auction.go:96-330 and storeCoin, auction.go:332-371).  *)
(***************************************************************************)
ImplementsEscrow == Escrow!Spec

(***************************************************************************)
(* "close: ends an auction" (auction.go:93), and "auction is closed,       *)
(* cannot bid" (auction_test.go:83): once the seller is paid, no later     *)
(* transaction pays anybody or changes the auction.                        *)
(***************************************************************************)
SaleIsFinal == [][Sold => UNCHANGED <<auction, proceeds>>]_vars
==============================================================================
