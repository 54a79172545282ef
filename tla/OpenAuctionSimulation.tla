------------------------ MODULE OpenAuctionSimulation ------------------------
(***************************************************************************)
(* Run of simulation/open_auction.go: one client, which knows nothing of   *)
(* the ledger but its answers, sends a fixed script of transactions.  It   *)
(* waits for the answer to some; the others it sends while earlier ones    *)
(* are still pending.  Each instruction carries the signer counter the     *)
(* client expects the ledger to have reached by then.                      *)
(*                                                                         *)
(* ByzCoin is external: it takes the transactions of one client in the     *)
(* order they were sent, refuses one whose counters do not follow on from  *)
(* the last accepted one, and AddTransactionAndWait gives up after a       *)
(* number of blocks, while the transaction may still be included.          *)
(* AddTransaction promises nothing about inclusion: a pending transaction  *)
(* may be lost.  A call of either may return an error, whether or not the  *)
(* transaction got to the ledger, and so may the one that reads an account.*)
(*                                                                         *)
(* A definition that a comment calls a fault is used by no specification:  *)
(* it is the definition after it with a mistake the properties must catch. *)
(***************************************************************************)
EXTENDS OpenAuction, Sequences

CONSTANTS
  Seller,    \* sellerAccounts[0]; the other sellers' auctions get no bids
  Bidders,   \* bidderAccounts, a sequence
  PubKey,    \* the BidderPubKey of each account
  Salt,      \* "simulationsalt"
  Auctions,  \* auctions spawned per round; bids go to the last round's first
  Rounds,
  Coins      \* the coins each bidder gets

Bids == Len(Bidders)

ASSUME SimulationAssumption ==
  /\ Seller \in Sellers \ {NoAccount}
  /\ Bidders \in Seq(Accounts \ {Seller}) /\ Bids > 0
  /\ \A i, j \in 1 .. Bids : Bidders[i] = Bidders[j] => i = j
  /\ PubKey \in [Accounts -> Keys]
  /\ Salt \in Salts /\ 0 \in Prices /\ 0 \in DeclaredBids
  /\ Auctions \in Nat \ {0} /\ Rounds \in Nat \ {0}
  \* 100000 coins pay for every bid of open_auction.toml.  A single bidder
  \* outbids itself: it pays a bid before the one before is refunded.
  /\ Coins \in Bids * Rounds .. MaxCoin
  /\ Bids = 1 => Coins + 1 >= 2 * Rounds

VARIABLES
  sent,     \* how much of the script has been sent
  ct,       \* the client's signer counter
  pending,  \* the transactions sent and not yet executed
  counter,  \* the ledger's counter for the client's signer
  phase,    \* of Run: "sending", "waiting", or how it ended
  \* The remaining variable records the past; no guard reads it.
  lost      \* whether the ledger lost a transaction

simVars == <<vars, sent, ct, pending, counter, phase, lost>>

------------------------------------------------------------------------------

\* Transactions, by what they do to the auction bids go to, the number of their
\* instructions, and whether the client waits for the answer.
SpawnAccounts(n) == [op |-> "spawn accounts", instructions |-> n, waits |-> TRUE]

\* One of the loop over rounds and auctions.
SpawnAuction(k) ==
  [op |-> IF k = (Rounds - 1) * Auctions + 1 THEN "spawn" ELSE "spawn another",
   instructions |-> 1, waits |-> k % Auctions = 0]

MintAll == [op |-> "mint", instructions |-> Bids, waits |-> TRUE]

\* A fault: bidamount starts again in each round.
BidInRound(k) ==
  [op |-> "bid", instructions |-> 2, waits |-> k % Bids = 0,
   bidder |-> Bidders[((k - 1) % Bids) + 1], amount |-> ((k - 1) % Bids) + 1]

\* A fault: bidamount is incremented once more before the first bid.
BidFromTwo(k) ==
  [op |-> "bid", instructions |-> 2, waits |-> k % Bids = 0,
   bidder |-> Bidders[((k - 1) % Bids) + 1], amount |-> k + 1]

\* One of the loop over rounds and bidders: bidamount grows from bid to bid.
BidNumber(k) ==
  [op |-> "bid", instructions |-> 2, waits |-> k % Bids = 0,
   bidder |-> Bidders[((k - 1) % Bids) + 1], amount |-> k]

Closing == [op |-> "close", instructions |-> 1, waits |-> TRUE]

\* The whole of Run.
Script ==
  <<SpawnAccounts(Auctions)>>
    \o [k \in 1 .. Rounds * Auctions |-> SpawnAuction(k)]
    \o <<SpawnAccounts(Bids), MintAll>>
    \o [k \in 1 .. Rounds * Bids |-> BidNumber(k)]
    \o <<Closing>>

------------------------------------------------------------------------------

SimInit ==
  /\ Init
  /\ sent = 0
  /\ ct = 1
  /\ pending = <<>>
  /\ counter = 0
  /\ phase = "sending"
  /\ lost = FALSE

\* A fault: one counter per transaction.
SendCountsOne ==
  /\ phase = "sending"
  /\ sent < Len(Script)
  /\ LET tx == Script[sent + 1]
     IN  /\ pending' = Append(pending, [tx |-> tx, ct |-> ct])
         /\ ct' = ct + 1
         /\ phase' = IF tx.waits THEN "waiting" ELSE phase
  /\ sent' = sent + 1
  /\ UNCHANGED <<vars, counter, lost>>

\* The next transaction of the script gets to the ledger.
Transmit ==
  /\ LET tx == Script[sent + 1]
     IN  /\ pending' = Append(pending, [tx |-> tx, ct |-> ct])
         /\ ct' = ct + tx.instructions
  /\ sent' = sent + 1

\* AddTransaction, or the call of AddTransactionAndWait.
Send ==
  /\ phase = "sending"
  /\ sent < Len(Script)
  /\ Transmit
  /\ phase' = IF Script[sent + 1].waits THEN "waiting" ELSE phase
  /\ UNCHANGED <<vars, counter, lost>>

\* Either returns an error, which Run returns: the transaction was sent or not.
SendFails ==
  /\ phase = "sending"
  /\ sent < Len(Script)
  /\ Transmit \/ UNCHANGED <<sent, ct, pending>>
  /\ phase' = "send failed"
  /\ UNCHANGED <<vars, counter, lost>>

Funded == {Bidders[i] : i \in 1 .. Bids}

MintForAll ==
  /\ \A a \in Funded : CanStore(balance, a, Coins)
  /\ balance' = [a \in Accounts |-> balance[a] + IF a \in Funded THEN Coins ELSE 0]
  /\ minted' = [a \in Accounts |-> minted[a] + IF a \in Funded THEN Coins ELSE 0]
  /\ UNCHANGED <<auction, terms, unbacked, proceeds, opened, accepted>>

\* What the contracts do with a transaction.
Apply(tx) ==
  \/ tx.op \in {"spawn accounts", "spawn another"} /\ UNCHANGED vars
  \/ tx.op = "spawn" /\ Spawn(Seller, [salt |-> Salt, price |-> 0])
  \/ tx.op = "mint" /\ MintForAll
  \/ tx.op = "bid" /\ PlaceBid(tx.bidder, PubKey[tx.bidder], tx.amount, 0)
  \/ tx.op = "close" /\ (CloseSold(Salt, 0) \/ CloseUnsold(Salt, 0))

\* The guards of a bid: the fetch, the checks of "bid" and the refund.
BidAccepted(a, amount) ==
  /\ CanFetch(a, amount)
  /\ Live
  /\ a # auction.SellerAccount
  /\ amount > auction.HighestBid
  /\ auction.HighestBid > 0 =>
       CanStore(AfterFetch(a, amount), auction.HighestBidder, auction.HighestBid)

\* No instruction of the transaction returns an error: where Apply(tx) is
\* enabled.
Accepted(tx) ==
  /\ tx.op = "spawn" => auction.State = "ABSENT"
  /\ tx.op = "mint" => \A a \in Funded : CanStore(balance, a, Coins)
  /\ tx.op = "bid" => BidAccepted(tx.bidder, tx.amount)
  /\ tx.op = "close" =>
       /\ Live
       /\ ReserveOpened(Salt, 0)
       /\ ReserveMet(0) =>
            CanStore(balance, auction.SellerAccount, auction.HighestBid)

\* The answer to the last transaction is the one the client waits for.
Answer(outcome) ==
  phase' = IF phase = "waiting" /\ Len(pending) = 1 THEN outcome ELSE phase

\* The ledger accepts the oldest transaction ...
Include ==
  /\ pending # <<>>
  /\ LET next == Head(pending)
     IN  /\ next.ct = counter + 1
         /\ Apply(next.tx)
         /\ counter' = counter + next.tx.instructions
  /\ pending' = Tail(pending)
  /\ Answer("sending")
  /\ UNCHANGED <<sent, ct, lost>>

\* ... or refuses it; the client learns of it if it waits for that one.
Refuse ==
  /\ pending # <<>>
  /\ LET next == Head(pending)
     IN  next.ct # counter + 1 \/ ~Accepted(next.tx)
  /\ pending' = Tail(pending)
  /\ Answer("refused")
  /\ UNCHANGED <<vars, sent, ct, counter, lost>>

\* The oldest transaction never reaches a block; nobody is told.
Lose ==
  /\ pending # <<>>
  /\ pending' = Tail(pending)
  /\ lost' = TRUE
  /\ UNCHANGED <<vars, sent, ct, counter, phase>>

\* AddTransactionAndWait gives up, or loses its connection, and Run returns its
\* error.
TimeOut ==
  /\ phase = "waiting"
  /\ phase' = "timed out"
  /\ UNCHANGED <<vars, sent, ct, pending, counter, lost>>

\* The seller's account is read and Run returns.
CheckSeller ==
  /\ phase = "sending"
  /\ sent = Len(Script)
  /\ phase' = IF balance[Seller] = Bids * Rounds THEN "done" ELSE "wrong amount"
  /\ UNCHANGED <<vars, sent, ct, pending, counter, lost>>

\* The account cannot be read, or decoded, and Run returns that error.
ReadFails ==
  /\ phase = "sending"
  /\ sent = Len(Script)
  /\ phase' = "read failed"
  /\ UNCHANGED <<vars, sent, ct, pending, counter, lost>>

\* The client's next call, and its outcomes.
ClientGoesOn == Send \/ SendFails \/ CheckSeller \/ ReadFails

SimNext == ClientGoesOn \/ Include \/ Refuse \/ Lose \/ TimeOut

\* The client runs until it waits, and the ledger goes on making blocks.
SimSpec ==
  /\ SimInit
  /\ [][SimNext]_simVars
  /\ WF_simVars(ClientGoesOn)
  /\ WF_simVars(Include \/ Refuse)

------------------------------------------------------------------------------

(***************************************************************************)
(* However far the client runs ahead of the ledger, and also after it gave *)
(* up, no transaction of the simulation is refused unless an earlier one   *)
(* was lost: counters, amounts and funds are right when the ledger gets to *)
(* it, not only when it was sent (open_auction.go:289-363).                *)
(***************************************************************************)
NothingRefused ==
  [][pending # <<>> /\ pending' = Tail(pending) =>
       lost' \/ counter' > counter]_simVars

(***************************************************************************)
(* The seller is paid for the last bid of the last round or not at all,    *)
(* whatever is lost, late or refused on the way: the unconfirmed bids are  *)
(* confirmed by the counter of the close (open_auction.go:348-361, 401).   *)
(***************************************************************************)
SellerAllOrNothing == balance[Seller] \in {0, Bids * Rounds}

(***************************************************************************)
(* Run never returns the error of a refused transaction, or that of a      *)
(* wrong amount at the end, unless a transaction was lost: what it waits   *)
(* for confirms what it does not wait for (open_auction.go:348-361, 432).  *)
(***************************************************************************)
FailsOnlyAfterLoss == phase \in {"refused", "wrong amount"} => lost

(***************************************************************************)
(* Run comes to its end, and ends well unless a transaction was lost, one  *)
(* was waited for in vain, or a call to the ledger returned an error: the  *)
(* last bid of the last round wins, no transaction waited for is refused   *)
(* and the seller has Bids * Rounds coins ("account has wrong amount",     *)
(* open_auction.go:432-434).                                               *)
(***************************************************************************)
SimulationEnds ==
  <>(lost \/ phase \in {"done", "timed out", "send failed", "read failed"})
==============================================================================
