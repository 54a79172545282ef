----------------------------- MODULE OpenAuction -----------------------------
(***************************************************************************)
(* One instance of the open (ascending) auction contract of               *)
(* auctions/auction.go, together with the coin accounts it credits.  Every  *)
(* action is one ClientTransaction that ByzCoin accepted, in the shape the  *)
(* repository's clients build it: spawn the auction; mint into an account;  *)
(* "fetch" from the bidder's account followed by "bid" on the auction;      *)
(* "close"; "drop"; "forceclose".  ByzCoin applies a transaction to a copy  *)
(* of its state and keeps the copy only if every instruction succeeds, so   *)
(* a rejected transaction leaves no trace: an action is enabled exactly     *)
(* when no instruction of the transaction returns an error.                 *)
(*                                                                         *)
(* A definition that a comment calls a fault is used by no specification:  *)
(* it is the definition after it with a mistake the properties must catch. *)
(***************************************************************************)
EXTENDS Integers

CONSTANTS
  Accounts,      \* instance IDs of the coin accounts in the state trie
  Strays,        \* instance IDs that a bid may name as its account although
                 \* the state trie has no such instance
  NoAccount,     \* byzcoin.InstanceID{}: no coin account has this ID
  Sellers,       \* the SellerAccounts an auction may be spawned with
  Keys,          \* the BidderPubKey strings bids carry
  Salts,         \* the Salts of CloseData
  Prices,        \* the reserve prices sellers commit to
  Hash(_, _),    \* createHash(salt, price); "" is not in its range
  NoReserve,     \* terms of an auction spawned with ReservePrice = ""
  DeclaredBids,  \* values BidData.Bid carries; every caller leaves it at 0
  MaxCoin        \* the largest uint64

ASSUME AccountAssumption ==
  /\ NoAccount \notin Accounts \cup Strays
  /\ Accounts \cap Strays = {}
  /\ Sellers \subseteq Accounts \cup {NoAccount}

\* The zero value of a Go string: no reserve price, no WinProof.
Empty == ""

ASSUME KeyAssumption == Empty \in Keys

\* sha256 is taken to be collision free.  It hashes the one string
\* salt + strconv.Itoa(price), which determines the price once the salt is
\* known, but not before: "s1" with 2 and "s" with 12 are the same string.
ASSUME HashAssumption ==
  /\ \A salt \in Salts : \A p, q \in Prices :
        Hash(salt, p) = Hash(salt, q) => p = q
  /\ \A s \in Salts : \A p \in Prices : Hash(s, p) # Empty
  /\ NoReserve \notin [salt : Salts, price : Prices]

ASSUME AmountAssumption ==
  /\ MaxCoin \in Nat
  /\ Prices \subseteq Nat
  /\ DeclaredBids \subseteq 0 .. MaxCoin

VARIABLES
  balance,   \* Coin.Value of every coin account
  auction,   \* the AuctionData stored under the auction's instance ID
  \* The remaining variables record the past; no guard reads them.
  terms,     \* the salt and reserve price the seller committed to
  minted,    \* coins minted into each account
  unbacked,  \* per account, bids recorded minus coins received for them
  proceeds,  \* coins "close" credited to the seller
  opened,    \* the salts of the closes that paid it
  accepted   \* the accepted bids

history == <<terms, minted, unbacked, proceeds, opened, accepted>>
vars == <<balance, auction, history>>

Amounts == 0 .. MaxCoin
Terms == [salt : Salts, price : Prices]

\* The accounts a bid may name: "bid" drops the error of looking one up
\* (auction.go:151) and decodes the empty value it gets instead.
BidderAccounts == Accounts \cup Strays

BidRecords == [bidder : BidderAccounts, key : Keys, bid : Amounts]

AuctionData == [State : {"ABSENT", "OPEN", "WCLOSED", "CLOSED", "DROPPED"},
                SellerAccount : Sellers \cup {NoAccount},
                ReservePrice : {Empty} \cup {Hash(t.salt, t.price) : t \in Terms},
                HighestBid : Amounts,
                HighestBidder : BidderAccounts \cup {NoAccount},
                WinProof : Keys]

\* The instance does not exist before Spawn.
Absent == [State |-> "ABSENT", SellerAccount |-> NoAccount,
           ReservePrice |-> Empty, HighestBid |-> 0,
           HighestBidder |-> NoAccount, WinProof |-> Empty]

\* A fault: the guard forgets the dropped auctions.
LiveUnlessClosed == auction.State \notin {"ABSENT", "CLOSED"}

\* What Invoke lets through: every state but "CLOSED" and "DROPPED".
Live == auction.State \in {"OPEN", "WCLOSED"}

\* uint64 addition.
Add64(x, y) == (x + y) % (MaxCoin + 1)

\* A fault: an unchecked addition.
CanStoreUnchecked(bal, account, amount) == account \in Accounts

\* storeCoin(account, amount) succeeds: the account is a coin instance and
\* the coin contract's checked addition does not overflow.
CanStore(bal, account, amount) ==
  account \in Accounts /\ bal[account] + amount <= MaxCoin

Store(bal, account, amount) == [bal EXCEPT ![account] = @ + amount]

\* A client can fetch amount from the account: no more than there is, and
\* nothing, that is no "fetch" at all, where there is no account.
CanFetch(account, amount) ==
  IF account \in Accounts THEN balance[account] >= amount ELSE amount = 0

\* The balances that the "fetch" before a bid leaves.
AfterFetch(account, amount) ==
  [a \in Accounts |-> IF a = account THEN balance[a] - amount ELSE balance[a]]

------------------------------------------------------------------------------

Init ==
  /\ balance = [a \in Accounts |-> 0]
  /\ auction = Absent
  /\ terms = NoReserve
  /\ minted = [a \in Accounts |-> 0]
  /\ unbacked = [a \in BidderAccounts |-> 0]
  /\ proceeds = 0
  /\ opened = {}
  /\ accepted = {}

\* The coin contract's "mint".
Mint(a, amount) ==
  /\ CanStore(balance, a, amount)
  /\ balance' = Store(balance, a, amount)
  /\ minted' = [minted EXCEPT ![a] = @ + amount]
  /\ UNCHANGED <<auction, terms, unbacked, proceeds, opened, accepted>>

\* Spawn with the AuctionData the clients send: open, no bid, a hashed
\* reserve price or none.
Spawn(seller, t) ==
  /\ auction.State = "ABSENT"
  /\ auction' = [Absent EXCEPT
                   !.State = "OPEN",
                   !.SellerAccount = seller,
                   !.ReservePrice = IF t = NoReserve THEN Empty
                                    ELSE Hash(t.salt, t.price)]
  /\ terms' = t
  /\ UNCHANGED <<balance, minted, unbacked, proceeds, opened, accepted>>

\* A fault: the first branch's WinProof is never replaced.
RecordBidKeepsProof(a, key, amount, offer) ==
  /\ auction' = [auction EXCEPT !.HighestBid = offer,
                                !.HighestBidder = a,
                                !.WinProof = IF @ = Empty THEN key ELSE @]
  /\ unbacked' = [unbacked EXCEPT ![a] = @ + offer - amount]
  /\ accepted' = accepted \cup {[bidder |-> a, key |-> key, bid |-> offer]}
  /\ UNCHANGED <<terms, minted, proceeds, opened>>

\* The record a successful bid leaves, and the history of it.
RecordBid(a, key, amount, offer) ==
  /\ auction' = [auction EXCEPT !.HighestBid = offer,
                                !.HighestBidder = a,
                                !.WinProof = key]
  /\ unbacked' = [unbacked EXCEPT ![a] = @ + offer - amount]
  /\ accepted' = accepted \cup {[bidder |-> a, key |-> key, bid |-> offer]}
  /\ UNCHANGED <<terms, minted, proceeds, opened>>

\* A fault: the bid counts although its coins were not fetched.
FirstBidOnCredit(a, key, amount, offer) ==
  /\ auction.HighestBid = 0
  /\ UNCHANGED balance
  /\ RecordBid(a, key, amount, offer)

\* "bid" when nobody has bid yet: the fetched coins stay with the contract.
FirstBid(a, key, amount, offer) ==
  /\ auction.HighestBid = 0
  /\ balance' = AfterFetch(a, amount)
  /\ RecordBid(a, key, amount, offer)

\* A fault: the record is updated before the refund, which goes to the new
\* highest bidder.
OutbidRefundsItself(a, key, amount, offer) ==
  /\ auction.HighestBid # 0
  /\ offer > auction.HighestBid
  /\ CanStore(AfterFetch(a, amount), a, offer)
  /\ balance' = Store(AfterFetch(a, amount), a, offer)
  /\ RecordBid(a, key, amount, offer)

\* "bid" over an earlier one: the highest bidder so far is refunded from the
\* state the fetch left behind.
Outbid(a, key, amount, offer) ==
  /\ auction.HighestBid # 0
  /\ offer > auction.HighestBid
  /\ LET fetched == AfterFetch(a, amount)
     IN  /\ CanStore(fetched, auction.HighestBidder, auction.HighestBid)
         /\ balance' = Store(fetched, auction.HighestBidder, auction.HighestBid)
  /\ RecordBid(a, key, amount, offer)

\* The transaction <<fetch(a, amount), bid>>: the offer is the declared bid
\* plus the fetched coin.  A bid that names no account of the trie comes
\* without a fetch and can only declare its offer.
PlaceBid(a, key, amount, declared) ==
  LET offer == Add64(declared, amount)
  IN  /\ CanFetch(a, amount)
      /\ Live
      /\ a # auction.SellerAccount
      /\ offer > 0
      /\ \/ FirstBid(a, key, amount, offer)
         \/ Outbid(a, key, amount, offer)

\* "close" accepts the closing data: there is no reserve price, or the data
\* hash to the one stored.
ReserveOpened(salt, price) ==
  auction.ReservePrice \in {Empty, Hash(salt, price)}

\* A fault: the reserve price itself is enough.
ReserveReached(price) ==
  /\ auction.HighestBid > 0
  /\ auction.ReservePrice = Empty \/ auction.HighestBid >= price

\* There is a bid to accept, higher than the reserve price.
ReserveMet(price) ==
  /\ auction.HighestBid > 0
  /\ auction.ReservePrice = Empty \/ auction.HighestBid > price

\* "close" that pays the seller the highest bid.
CloseSold(salt, price) ==
  /\ Live
  /\ ReserveOpened(salt, price)
  /\ ReserveMet(price)
  /\ CanStore(balance, auction.SellerAccount, auction.HighestBid)
  /\ balance' = Store(balance, auction.SellerAccount, auction.HighestBid)
  /\ auction' = [auction EXCEPT !.State = "WCLOSED"]
  /\ proceeds' = proceeds + auction.HighestBid
  /\ opened' = opened \cup {salt}
  /\ UNCHANGED <<terms, minted, unbacked, accepted>>

\* "close" without a bid or below the reserve price: the transaction is
\* accepted and the instance rewritten as it was.
CloseUnsold(salt, price) ==
  /\ Live
  /\ ReserveOpened(salt, price)
  /\ ~ReserveMet(price)
  /\ UNCHANGED vars

\* A fault: the refund is forgotten.
VoidWithoutRefund(state) ==
  /\ Live
  /\ auction' = [auction EXCEPT !.State = state]
  /\ UNCHANGED <<balance, history>>

\* "drop" and "forceclose": refund the highest bidder, if there is one.
Void(state) ==
  /\ Live
  /\ \/ /\ auction.HighestBid = 0
        /\ UNCHANGED balance
     \/ /\ auction.HighestBid > 0
        /\ CanStore(balance, auction.HighestBidder, auction.HighestBid)
        /\ balance' = Store(balance, auction.HighestBidder, auction.HighestBid)
  /\ auction' = [auction EXCEPT !.State = state]
  /\ UNCHANGED history

Drop == Void("DROPPED")
ForceClose == Void("CLOSED")

Next ==
  \/ \E a \in Accounts, amount \in 1 .. MaxCoin : Mint(a, amount)
  \/ \E seller \in Sellers, t \in Terms \cup {NoReserve} : Spawn(seller, t)
  \/ \E a \in BidderAccounts, key \in Keys, amount \in Amounts, d \in DeclaredBids :
        PlaceBid(a, key, amount, d)
  \/ \E salt \in Salts, price \in Prices :
        CloseSold(salt, price) \/ CloseUnsold(salt, price)
  \/ Drop
  \/ ForceClose

Spec == Init /\ [][Next]_vars

------------------------------------------------------------------------------

\* Types of the state and of the history.
TypeOK ==
  /\ balance \in [Accounts -> Amounts]
  /\ auction \in AuctionData
  /\ terms \in Terms \cup {NoReserve}
  /\ minted \in [Accounts -> Nat]
  /\ unbacked \in [BidderAccounts -> Int]
  /\ proceeds \in Nat
  /\ opened \subseteq Salts
  /\ accepted \subseteq BidRecords

\* What account a gets back when it is outbid or the auction is voided (a sale
\* does not end that claim: WCLOSED is live), and what it earned as the seller.
Claim(a) == IF Live /\ auction.HighestBidder = a THEN auction.HighestBid ELSE 0
Earned(a) == IF auction.SellerAccount = a THEN proceeds ELSE 0

(***************************************************************************)
(* Every account is accounted for, coin by coin: what it has plus what the *)
(* contract owes it as the highest bidder is what was minted into it, plus *)
(* what the contract recorded as bid without receiving coins, plus what it *)
(* earned by selling.  A loser of the auction has therefore every coin     *)
(* back, whatever the order of bids, refunds, closes and drops: the refund *)
(* in "bid" (auction.go:186) and in "drop" and "forceclose" goes to the    *)
(* right account, in the right amount, exactly once.                       *)
(***************************************************************************)
AccountsBalanced ==
  \A a \in Accounts :
    balance[a] + Claim(a) = minted[a] + unbacked[a] + Earned(a)

(***************************************************************************)
(* The bid, bidder and WinProof on record belong to one accepted bid, and  *)
(* that bid is higher than every other accepted one: the two branches that *)
(* write the record (auction.go:176 and auction.go:192) write all of it.   *)
(***************************************************************************)
WinnerIsBestAccepted ==
  auction.HighestBid > 0 =>
    LET best == [bidder |-> auction.HighestBidder, key |-> auction.WinProof,
                 bid |-> auction.HighestBid]
    IN  /\ best \in accepted
        /\ \A other \in accepted \ {best} : other.bid < best.bid

(***************************************************************************)
(* Once a close with the seller's own salt has paid the seller, the bid on *)
(* record is above the reserve price the seller committed to, whatever     *)
(* price that close gave (auction.go:233-237) and whatever was bid after   *)
(* it.  A close with another salt is not held to that price: the contract  *)
(* hashes salt and price as one string, so a salt that goes on with the    *)
(* first digits of the price opens the commitment with the digits that are *)
(* left.                                                                   *)
(***************************************************************************)
ReserveRespected ==
  terms # NoReserve /\ terms.salt \in opened =>
    auction.HighestBid > terms.price

(***************************************************************************)
(* The refund of an account that exists never overflows it as long as it   *)
(* was not given more than 2^64 - 1 coins in all, so such a highest bid    *)
(* never blocks a higher bid, a drop or a forceclose (auction.go:186, 292, *)
(* 311).                                                                   *)
(***************************************************************************)
RefundAlwaysFits ==
  Live /\ auction.HighestBidder \in Accounts =>
    LET a == auction.HighestBidder
    IN  minted[a] + unbacked[a] <= MaxCoin =>
          CanStore(balance, a, auction.HighestBid)

(***************************************************************************)
(* A highest bid for an account that does not exist is never refunded, so  *)
(* it is never replaced and the auction never voided: whatever else is     *)
(* bid, dropped or closed, all that can still happen to the record is a    *)
(* sale (auction.go:151, 186, 292, 311, 349).                              *)
(***************************************************************************)
StrayBidStays ==
  [][Live /\ auction.HighestBidder \in Strays =>
       auction' \in {auction, [auction EXCEPT !.State = "WCLOSED"]}]_vars

(***************************************************************************)
(* A dropped or force-closed auction is over: its record never changes     *)
(* again and no account changes but by minting (auction.go:119).           *)
(***************************************************************************)
VoidIsFinal ==
  [][auction.State \in {"CLOSED", "DROPPED"} =>
       /\ auction' = auction
       /\ \A a \in Accounts : balance'[a] - balance[a] = minted'[a] - minted[a]]_vars
==============================================================================
