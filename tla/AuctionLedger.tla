---------------------------- MODULE AuctionLedger ----------------------------
(***************************************************************************)
(* Transactions on the open auction instruction by instruction, in any     *)
(* order a darc could admit: mint and fetch on coin accounts; spawn, bid,  *)
(* close, drop and forceclose on the auction.                              *)
(*                                                                         *)
(* ByzCoin executes the instructions one after the other on a staged copy  *)
(* of the state trie, here the variables of OpenAuction, and passes the    *)
(* coins an instruction returns (cout) to the next one (cin).  If one      *)
(* fails the copy is thrown away; what is left of the coins at the end is  *)
(* too.  "bid" takes every coin it is given and counts those whose name is *)
(* that of the bidder's account, whoever they were fetched from.           *)
(*                                                                         *)
(* A definition that a comment calls a fault is used by no specification:  *)
(* it is the definition after it with a mistake the properties must catch. *)
(***************************************************************************)
EXTENDS OpenAuction, FiniteSetsExt

CONSTANTS
  CoinNames,        \* the names of coins
  NameOf,           \* the Coin.Name of every account a bid may name
  MaxInstructions,  \* bounds the length of a transaction
  MaxMinted,        \* bounds the coins minted into an account
  MaxProceeds       \* bounds what repeated closes pay

\* An account that does not exist decodes to the zero value, whose name is
\* the zero one.
ASSUME NameAssumption ==
  /\ NameOf \in [BidderAccounts -> CoinNames]
  /\ \A x, y \in Strays : NameOf[x] = NameOf[y]
\* A state trie holds finitely many accounts, and there are finitely many IDs.
ASSUME FiniteAssumption == IsFiniteSet(BidderAccounts)
ASSUME LedgerBoundAssumption ==
  MaxInstructions \in Nat /\ MaxMinted \in Nat /\ MaxProceeds \in Nat

VARIABLES
  coins,      \* the coins passed to the next instruction, by name
  committed,  \* the state trie without the transaction in progress
  executed,   \* the instructions executed so far of that transaction
  \* The remaining variable records the past; no guard reads it.
  shape       \* whether the transaction looks like one of the clients'

ledgerVars == <<vars, coins, committed, executed, shape>>

NoCoins == [n \in CoinNames |-> 0]

\* The shapes of OpenAuction's actions, those of the clients among them: one
\* instruction, or <<fetch, bid>> on one account.
Start == [kind |-> "start", account |-> NoAccount]
Fetched(a) == [kind |-> "fetched", account |-> a]
ClientShape == [kind |-> "client", account |-> NoAccount]
OtherShape == [kind |-> "other", account |-> NoAccount]

Staged == [balance |-> balance, auction |-> auction, terms |-> terms,
           minted |-> minted, unbacked |-> unbacked, proceeds |-> proceeds,
           opened |-> opened, accepted |-> accepted]

------------------------------------------------------------------------------

LedgerInit ==
  /\ Init
  /\ coins = NoCoins
  /\ committed = Staged
  /\ executed = 0
  /\ shape = Start

\* One more instruction of the transaction succeeds.
Execute ==
  /\ executed < MaxInstructions
  /\ executed' = executed + 1
  /\ UNCHANGED committed

\* It is one that the clients send alone.
Alone == shape' = IF shape = Start THEN ClientShape ELSE OtherShape

\* The coin contract's "mint" returns the coins it was given.
MintCoins(a, amount) ==
  /\ Execute /\ Alone
  /\ minted[a] + amount <= MaxMinted
  /\ Mint(a, amount)
  /\ UNCHANGED coins

\* A fault: an unchecked subtraction.
FetchUnchecked(a, amount) ==
  /\ Execute
  /\ shape' = IF shape = Start THEN Fetched(a) ELSE OtherShape
  /\ balance' = [balance EXCEPT ![a] = @ - amount]
  /\ unbacked' = [unbacked EXCEPT ![a] = @ - amount]
  /\ coins' = [coins EXCEPT ![NameOf[a]] = @ + amount]
  /\ UNCHANGED <<auction, terms, minted, proceeds, opened, accepted>>

\* A fault: the coins are returned and kept.
FetchWithoutDebit(a, amount) ==
  /\ Execute
  /\ shape' = IF shape = Start THEN Fetched(a) ELSE OtherShape
  /\ balance[a] >= amount
  /\ unbacked' = [unbacked EXCEPT ![a] = @ - amount]
  /\ coins' = [coins EXCEPT ![NameOf[a]] = @ + amount]
  /\ UNCHANGED <<balance, auction, terms, minted, proceeds, opened, accepted>>

\* The coin contract's "fetch" adds the account's coins to the ones it was
\* given.  Until a bid counts them the account has paid for nothing.
Fetch(a, amount) ==
  /\ Execute
  /\ shape' = IF shape = Start THEN Fetched(a) ELSE OtherShape
  /\ balance[a] >= amount
  /\ balance' = [balance EXCEPT ![a] = @ - amount]
  /\ unbacked' = [unbacked EXCEPT ![a] = @ - amount]
  /\ coins' = [coins EXCEPT ![NameOf[a]] = @ + amount]
  /\ UNCHANGED <<auction, terms, minted, proceeds, opened, accepted>>

\* Spawn returns the coins it was given.
SpawnAuction(seller, t) ==
  /\ Execute /\ Alone
  /\ Spawn(seller, t)
  /\ UNCHANGED coins

\* A fault: "bid" returns the coins it was given.
BidPassesCoinsOn(a, key, declared) ==
  /\ Execute
  /\ shape' = IF shape \in {Start, Fetched(a)} THEN ClientShape ELSE OtherShape
  /\ PlaceBid(a, key, 0, Add64(declared, coins[NameOf[a]]))
  /\ UNCHANGED coins

\* "bid": the offer is the declared bid plus the coins of the account's name,
\* all of which were fetched before, from whichever accounts.  Coins of other
\* names stay here too.
Bid(a, key, declared) ==
  /\ Execute
  /\ shape' = IF shape \in {Start, Fetched(a)} THEN ClientShape ELSE OtherShape
  /\ PlaceBid(a, key, 0, Add64(declared, coins[NameOf[a]]))
  /\ coins' = NoCoins

\* "close", "drop" and "forceclose" return what the coin contract's "store"
\* leaves, or nothing.
CloseAuction(salt, price) ==
  /\ Execute /\ Alone
  /\ \/ /\ proceeds + auction.HighestBid <= MaxProceeds
        /\ CloseSold(salt, price)
     \/ CloseUnsold(salt, price)
  /\ coins' = NoCoins

VoidAuction ==
  /\ Execute /\ Alone
  /\ Drop \/ ForceClose
  /\ coins' = NoCoins

\* Every instruction succeeded.
Commit ==
  /\ executed > 0
  /\ committed' = Staged
  /\ executed' = 0
  /\ coins' = NoCoins
  /\ shape' = Start
  /\ UNCHANGED vars

\* The next instruction fails, or panics.
Abort ==
  /\ executed > 0
  /\ balance' = committed.balance
  /\ auction' = committed.auction
  /\ terms' = committed.terms
  /\ minted' = committed.minted
  /\ unbacked' = committed.unbacked
  /\ proceeds' = committed.proceeds
  /\ opened' = committed.opened
  /\ accepted' = committed.accepted
  /\ executed' = 0
  /\ coins' = NoCoins
  /\ shape' = Start
  /\ UNCHANGED committed

LedgerNext ==
  \/ \E a \in Accounts, amount \in 1 .. MaxCoin : MintCoins(a, amount)
  \/ \E a \in Accounts, amount \in Amounts : Fetch(a, amount)
  \/ \E seller \in Sellers, t \in Terms \cup {NoReserve} : SpawnAuction(seller, t)
  \/ \E a \in BidderAccounts, key \in Keys, d \in DeclaredBids : Bid(a, key, d)
  \/ \E salt \in Salts, price \in Prices : CloseAuction(salt, price)
  \/ VoidAuction
  \/ Commit
  \/ Abort

LedgerSpec == LedgerInit /\ [][LedgerNext]_ledgerVars

------------------------------------------------------------------------------

\* Types of the staged and of the ledger's own state.
LedgerTypeOK ==
  /\ TypeOK
  /\ coins \in [CoinNames -> Nat]
  /\ executed \in 0 .. MaxInstructions
  /\ shape \in [kind : {"start", "fetched", "client", "other"},
                account : Accounts \cup {NoAccount}]

\* What the accounts of a name have together.
Total(amounts, n) ==
  MapThenSumSet(LAMBDA a : amounts[a], {a \in BidderAccounts : NameOf[a] = n})

(***************************************************************************)
(* As long as no bid declares an amount of its own (DeclaredBids = {0},    *)
(* what every caller in the repository does), a bid is paid for with coins *)
(* of its account's name that were fetched in the same transaction, each   *)
(* of them once: over the accounts of a name, nothing is recorded as bid   *)
(* that was not fetched, however many bids, fetches and refunds a          *)
(* transaction strings together (auction.go:160-165: the coins that are    *)
(* counted are those not returned).                                        *)
(***************************************************************************)
BidsArePaid ==
  DeclaredBids = {0} =>
    \A n \in CoinNames : coins[n] + Total(unbacked, n) <= 0

\* OpenAuction seen by a reader of the ledger, who sees committed state only.
Committed == INSTANCE OpenAuction WITH
  balance <- committed.balance,
  auction <- committed.auction,
  terms <- committed.terms,
  minted <- committed.minted,
  unbacked <- committed.unbacked,
  proceeds <- committed.proceeds,
  opened <- committed.opened,
  accepted <- committed.accepted

(***************************************************************************)
(* A committed transaction of the shape the clients send is one step of    *)
(* OpenAuction: what the instructions do one by one to accounts, auction   *)
(* and passed coins is what that specification does at once                *)
(* (fonctions.go:211-266, auction.go:157-204).                             *)
(***************************************************************************)
ClientTransactionsAreSteps ==
  [][shape = ClientShape => Committed!Next]_committed
==============================================================================
