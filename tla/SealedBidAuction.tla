--------------------------- MODULE SealedBidAuction ---------------------------
(***************************************************************************)
(* One instance of the sealed-bid auction contract of                      *)
(* sb_auctions/sb_auction.go.  Every action is one instruction that        *)
(* ByzCoin accepted; an instruction that returns an error or panics leaves *)
(* no trace.  No action moves coins: the calls that would are commented    *)
(* out (sb_auction.go:144, 162, 204).                                      *)
(*                                                                         *)
(* A definition that a comment calls a fault is used by no specification:  *)
(* it is the definition after it with a mistake the properties must catch. *)
(***************************************************************************)
EXTENDS Integers, Sequences

CONSTANTS
  Accounts,   \* the BidderAccounts bids name
  NoAccount,  \* byzcoin.InstanceID{}
  MaxBid      \* the largest uint32

ASSUME SBAccountAssumption == NoAccount \notin Accounts
ASSUME BidAssumption == MaxBid \in Nat

VARIABLES
  auction,     \* the AuctionData stored under the auction's instance ID
  \* The remaining variable records the past; no guard reads it.
  award        \* the bid that made WinnerAccount the winner (-1: none yet),
               \* and whether bids were closed by then

vars == <<auction, award>>

Amounts == 0 .. MaxBid
BidData == [BidderAccount : Accounts, Bid : Amounts]

\* The instance does not exist before Spawn.
Absent == [State |-> "ABSENT", ReservePrice |-> 0, Bids |-> <<>>,
           WinnerAccount |-> NoAccount]

\* The entries of an account; searchBidder finds the first.
EntriesOf(a) == {i \in 1 .. Len(auction.Bids) : auction.Bids[i].BidderAccount = a}
First(indices) == CHOOSE i \in indices : \A j \in indices : i <= j

\* getWinner: the first of the highest bids.
IsWinner(bids, i) ==
  /\ \A j \in 1 .. Len(bids) : bids[j].Bid <= bids[i].Bid
  /\ \A j \in 1 .. i - 1 : bids[j].Bid < bids[i].Bid

\* A fault: the last element is erased but not cut off.
RemoveWithoutCut(bids, i) ==
  [bids EXCEPT ![i] = bids[Len(bids)],
               ![Len(bids)] = [BidderAccount |-> NoAccount, Bid |-> 0]]

\* A fault: the last element is cut off but not moved.
RemoveLast(bids, i) == SubSeq(bids, 1, Len(bids) - 1)

\* remove: the last bid takes the place of the one removed.
Remove(bids, i) ==
  SubSeq([bids EXCEPT ![i] = bids[Len(bids)]], 1, Len(bids) - 1)

------------------------------------------------------------------------------

Init ==
  /\ auction = Absent
  /\ award = [bid |-> -1, final |-> FALSE]

\* Spawn with the AuctionData the clients send: open, without bids.
Spawn(reserve) ==
  /\ auction.State = "ABSENT"
  /\ auction' = [Absent EXCEPT !.State = "OPEN", !.ReservePrice = reserve]
  /\ UNCHANGED award

\* A fault: the search is skipped.
FirstBidAgain(a, b) ==
  auction' = [auction EXCEPT !.Bids = Append(@, [BidderAccount |-> a, Bid |-> b])]

\* "bid" of an account that has not bid.
FirstBid(a, b) ==
  /\ EntriesOf(a) = {}
  /\ auction' = [auction EXCEPT
                   !.Bids = Append(@, [BidderAccount |-> a, Bid |-> b])]

\* "bid" of an account that has: it replaces a bid that is not higher.
UpdateBid(a, b) ==
  /\ EntriesOf(a) # {}
  /\ LET i == First(EntriesOf(a))
     IN  /\ b >= auction.Bids[i].Bid
         /\ auction' = [auction EXCEPT !.Bids[i].Bid = b]

\* A fault: the guard on the state is dropped.
BidAnyTime(a, b) ==
  /\ auction.State # "ABSENT"
  /\ FirstBid(a, b) \/ UpdateBid(a, b)
  /\ UNCHANGED award

\* "bid".
Bid(a, b) ==
  /\ auction.State = "OPEN"
  /\ FirstBid(a, b) \/ UpdateBid(a, b)
  /\ UNCHANGED award

\* "close", which a closed auction accepts again.
Close ==
  /\ auction.State # "ABSENT"
  /\ auction' = [auction EXCEPT !.State = "CLOSED"]
  /\ UNCHANGED award

\* "process": awards the good to the highest bid left, in any state, and as
\* often as it is called.  Without bids getWinner panics.
Process ==
  /\ auction.State # "ABSENT"
  /\ \E i \in 1 .. Len(auction.Bids) :
       /\ IsWinner(auction.Bids, i)
       /\ auction.Bids[i].Bid > auction.ReservePrice
       /\ auction' = [auction EXCEPT
                        !.Bids = Remove(@, i),
                        !.WinnerAccount = auction.Bids[i].BidderAccount]
       /\ award' = [bid |-> auction.Bids[i].Bid,
                     final |-> auction.State = "CLOSED"]

Next ==
  \/ \E reserve \in Amounts : Spawn(reserve)
  \/ \E a \in Accounts, b \in Amounts : Bid(a, b)
  \/ Close
  \/ Process

Spec == Init /\ [][Next]_vars

------------------------------------------------------------------------------

\* Types of the state and of the history.
TypeOK ==
  /\ auction \in [State : {"ABSENT", "OPEN", "CLOSED"},
                  ReservePrice : Amounts,
                  Bids : Seq(BidData),
                  WinnerAccount : Accounts \cup {NoAccount}]
  /\ award \in [bid : Amounts \cup {-1}, final : BOOLEAN]

(***************************************************************************)
(* An account has one entry at most: the linear search of "bid" and the    *)
(* swapping removal of "process" agree (sb_auction.go:136, 299, 307), so a *)
(* bidder is not awarded twice for one offer.                              *)
(***************************************************************************)
OneEntryPerAccount ==
  \A i, j \in 1 .. Len(auction.Bids) :
    auction.Bids[i].BidderAccount = auction.Bids[j].BidderAccount => i = j

(***************************************************************************)
(* An award made after "close" is beyond dispute: no bid still on record   *)
(* is higher, whatever is called after it, so that awards only go down     *)
(* from there (sb_auction.go:113, 182, 195-220).                           *)
(***************************************************************************)
FinalAwardIsBest ==
  award.final => \A i \in 1 .. Len(auction.Bids) : auction.Bids[i].Bid <= award.bid

------------------------------------------------------------------------------

\* The offer on record for an account.
OfferOf(a) ==
  IF EntriesOf(a) = {} THEN -1 ELSE auction.Bids[First(EntriesOf(a))].Bid

PhaseOf(state) ==
  CASE state = "ABSENT" -> "announced"
    [] state = "OPEN" -> "open"
    [] state = "CLOSED" -> "closed"

Sealed == INSTANCE SealedOffers WITH
  Bidders <- Accounts,
  Nobody <- NoAccount,
  Offers <- Amounts,
  phase <- PhaseOf(auction.State),
  reserve <- auction.ReservePrice,
  offer <- [a \in Accounts |-> OfferOf(a)],
  winner <- auction.WinnerAccount,
  price <- award.bid

(***************************************************************************)
(* The list of bids, searched from the front and shrunk by moving its last *)
(* element, behaves as one offer per bidder: no offer is lost, duplicated  *)
(* or attributed to somebody else, and a tie is settled for one of the     *)
(* best (sb_auction.go:119-241, 299-314).                                  *)
(***************************************************************************)
ImplementsSealedOffers == Sealed!Spec
==============================================================================
