# A verification development for `student_19_auctions`

The repository implements three auctions: an open (ascending) auction and a
sealed-bid auction as smart contracts of the ByzCoin ledger, and a centralised
auction as a plain network service they are compared with. This directory holds
TLA+ models of them, the TLC runs that check the models on small instances and
TLAPS proofs of the properties that matter most for every instance.

Paths are relative to the repository; "ByzCoin", "onet" and the coin contract
are libraries whose source is not part of it. They are modelled from how the
code uses them, and each place where that happens is named below.

## 1. Inventory

| Component | State it keeps | Operations | Interacts with |
|---|---|---|---|
| Open auction contract, `auctions/auction.go` | `AuctionData` in the state trie: seller, hashed reserve price, highest bid, bidder and `WinProof`, `State` | `Spawn`; `Invoke` of `bid`, `close`, `drop`, `forceclose`; `storeCoin` | coin accounts in the trie: reads them from a `ReadOnlyStateTrie`, runs the coin contract's `store` itself and returns its state changes |
| Open auction client, `auctions/fonctions.go` | signer counter `ct`, instance IDs | builds transactions, waits for their inclusion, checks proofs | ByzCoin client |
| Sealed-bid contract, `sb_auctions/sb_auction.go` | `AuctionData` with a list of bids and a winner | `Spawn`; `bid`, `close`, `process`; `getWinner`, `remove`, `searchBidder` | none: its coin transfers are commented out |
| Sealed-bid client, `sb_auctions/fonctions.go` | signer counter | as above; `closeAuction` sends `close`, then `process` | ByzCoin client |
| Centralised service, `centrilized_auctions` | `Service.HighestBid` in memory, per server | `Bid`, `Close` | clients; onet calls handlers concurrently |
| Centralised simulation, `simulation/centrilized_auction.go` | loop counter `bid` | 80 bids, one close, comparison | the service |
| Open auction simulation, `simulation/open_auction.go` | signer counter, account lists | accounts, auctions, pipelined bids, close, check of the seller's account | ByzCoin client |
| Registration, simulation entry, plots | none | | |

What is hard about each, and what makes it correct:

* **Open auction.** A bid counts coins that an earlier instruction of the same
  transaction fetched, moves coins of two accounts and rewrites the record, all
  of which a later failure rolls back; a refund can fail; bids, closes and drops arrive in any
  order, also after the auction has ended; a bid may name an account that does not
  exist; values are `uint64`. It is correct if
  coins are conserved per account, the record is the best accepted bid, the
  reserve price is respected, a loser with an account can always be refunded, every
  bid is paid for with coins fetched for it and an auction that ended stays ended.
* **Sealed-bid auction.** A list that is searched from the front and shrunk by a
  swap; `process` is legal at any time and repeatedly. It is correct if the list
  behaves as one offer per bidder and an award after the close is the best.
* **Centralised service.** Unsynchronised handlers, a read and a write apart;
  state per server while clients bid at random servers. It is correct if `Close`
  returns the best bid that was acknowledged.
* **Clients.** Every transaction is signed with a counter that must be the
  ledger's next one. Some functions advance theirs before they send, some after
  `AddTransactionAndWait` returned nil, and that call gives up on transactions
  that are included later. They are correct if the two counters agree whenever
  the client is told the truth, if a transaction given up and
  its repetition are never both executed, and if a reported success is a success.
* **Simulations.** Bids are sent without waiting for the one before, and their
  fate is never seen; every call to the ledger or the service may fail. They are
  correct if a driver reaches its end and never ends well on a part of what it sent.

## 2. Modules

| Module | Models | State and actions |
|---|---|---|
| `OpenAuction` | the contract and the coin accounts | `auction` is the stored `AuctionData`, `balance` the `Coin.Value` of each account. One action per accepted transaction: `Mint`, `Spawn`, `PlaceBid` (`FirstBid`/`Outbid`), `CloseSold`, `CloseUnsold`, `Drop`, `ForceClose` |
| `OrderlyAuction` | the contract under the discipline of the repository's clients, which bid for accounts that exist and send nothing after a sale (`OrderlyNext`, a condition on the users that no code imposes); the refinement mapping | the same |
| `AuctionLedger` | the contract and the coin accounts, instruction by instruction; extends `OpenAuction` | adds the coins passed from one instruction to the next, the committed state and the length of the transaction. `MintCoins`, `Fetch`, `SpawnAuction`, `Bid`, `CloseAuction`, `VoidAuction`, `Commit`, `Abort` |
| `EscrowAuction` | abstract: what an auction in escrow promises | phase, leader, stake of each participant, revenue |
| `SealedBidAuction` | the sealed-bid contract | `auction`; `Spawn`, `Bid` (`FirstBid`/`UpdateBid`), `Close`, `Process` |
| `SealedOffers` | abstract: one offer per bidder, awards take the best | phase, reserve, offers, winner, price |
| `LedgerClient` | `bcTest` of both packages and the ledger as a client sees it | the transactions left of the function being called, `ct` (`bct.ct`), the ledger's `counter`, what was sent and what the client was told of it. `Call`, `Send`, `Success`, `Failure`; `Accept`, `Refuse`, `Lose` |
| `SealedBidClient` | `LedgerClient` composed with `SealedBidAuction` | the ledger runs the contract on what it includes |
| `CentralizedAuction` | service and clients | `HighestBid` per server, `request` per client. Each handler is two steps: `BidPasses`/`BidTooLow` then `BidRecorded`; `CloseReads` then `CloseResets` |
| `CentralizedSimulation` | `Run` of the centralised simulation, composed with the service | adds the loop counter and the driver's phase; a call may end it (`CallFails`) |
| `OpenAuctionSimulation` | `Run` of the open auction simulation, composed with the contract and a queue of pending transactions | adds the position in the script of transactions, the client's and the ledger's signer counter, `pending`, the driver's phase; `Send`, `SendFails`, `Include`, `Refuse`, `Lose`, `TimeOut`, `CheckSeller`, `ReadFails` |
| `MC*` | the small instances for TLC | |
| `OpenAuctionProofs`, `OrderlyAuctionProofs`, `AuctionLedgerProofs`, `LedgerClientProofs`, `CentralizedAuctionProofs`, `SealedBidProofs`, `OpenAuctionSimulationProofs`, `CentralizedSimulationProofs` | theorems | |

In the modules of the code, a definition whose comment begins "A fault" is used
by no specification. It repeats the definition after it with a plausible
mistake, and each property is known to fail when the mistake is made: that is
how `PROJECT.json` ("mutants") shows what each property is sensitive to.

### How the code maps to actions

**Transactions.** ByzCoin executes the instructions of a transaction on a copy
of its state and keeps the copy only if none of them fails; a panic in a contract
is an error as well. An action of `OpenAuction` or `SealedBidAuction` is one such
transaction, in the shape the clients build: `addBid` sends `fetch` from the
bidder's account followed by `bid` (`fonctions.go:211`), every other transaction
is one instruction. Each `return err` of the code is a negated guard, and the
failed transaction has no step. Blocks are totally ordered and deterministic, so
interleaving transactions is all the concurrency a contract sees: consensus
itself is not modelled.

**Instructions.** `AuctionLedger` drops that assumption. The variables of
`OpenAuction` are there the staged copy, `committed` is the trie, and each action
is one instruction: it may follow any other, on any account. The coins an
instruction returns (`cout`) are given to the next one (`cin`): `fetch` adds to
them, `bid` counts those of the name of the bidder's account, whoever paid
them, and returns none, `mint` and `Spawn` hand them on. `Commit` ends a
transaction, `Abort` stands for the failure of an instruction anywhere in it.
`shape` tells the transactions the clients build from the others, and
`ClientTransactionsAreSteps` is the relation of the two modules: what such a
transaction commits is one step of `OpenAuction`.

**Client functions.** A function of `bcTest` is a sequence of transactions. Each
says when `bct.ct` is advanced ("before" the call of `AddTransactionAndWait` or
after its "success") and what becomes of its error: a `require` "fails" the
test, it is "returned", or, in the sealed-bid `closeAuction`, "ignored".
`AddTransactionAndWait` is external. `Success` is its nil; `Failure`, its error,
can come at any time, whatever happened to the transaction or will
happen: a refusal, a failure to send and a timeout look alike to the
client. The ledger may include a pending transaction, given up or not, as soon as its
counter is the next one. Several transactions can be pending, and the ledger takes
them in any order the counters allow.

**Sending ahead.** The simulation and the ledger are two processes. Run is straight
line code, so `OpenAuctionSimulation` writes it as a script, the sequence of its
transactions, and `Send` walks through it. Either kind of call may return an error,
whether or not the transaction got to the ledger (`SendFails`), so may the reading
of the account at the end (`ReadFails`), and Run returns it. `pending` is what was
sent and not executed. Each transaction carries the counter of its first
instruction, and the ledger refuses it unless that follows the last accepted one; it
takes a client's transactions in the order they were sent, may answer later than the
client waits, and may lose them. Only transactions Run waits for give it an answer.
`Apply` is what the contracts do with a transaction, and `Accepted` spells out when
they do it without an error, so that a refusal is its negation.

**Money.** `storeCoin` runs the coin contract on the trie as it is after the
`fetch` of the same transaction. `Outbid` therefore reads the balances `fetched`,
which matters when a bidder outbids itself. `CanStore` is everything that can go
wrong in it: no such account, or the coin contract's checked addition
overflows. `Add64` is the unchecked `uint64` addition of `auction.go:163`.

**Bidders without an account.** `bid` drops the error of looking up the bidder's account
and decodes the empty value it gets instead (`auction.go:151-154`; protobuf decodes no
bytes to the zero value). `Strays` are IDs without an instance that a bid may name: it
comes without a fetch, so it is accepted if it declares its amount. `storeCoin` does not
drop that error, and nothing such a bid is worth can be refunded.

**History.** `terms`, `minted`, `unbacked`, `proceeds`, `opened`, `accepted` (open
auction), `shape` (its ledger), `lost` (its simulation), `award` (sealed bid),
`told` and `status` of past transactions (clients), `accepted`, `raced`,
`report` (centralised) record the past. No guard reads them, but for the bounds
`MaxMinted` and `MaxProceeds` of `AuctionLedger`.

**Handlers.** onet runs handlers of different connections in goroutines of their
own. `Service.Bid` and `Service.Close` touch one field, once to read and once to
write, so two steps each are all their interleavings. Bids that race
with a close belong to the next auction from the moment `Close` builds its
reply. `raced` remembers the servers at which requests have overlapped since the
last close that had its server to itself; what the service promises, it
promises where nobody raced, and a race at one server or in one auction
spoils no other.

## 3. What the runs check

| Run | Instance | Shows |
|---|---|---|
| `open_auction` | seller (or none), 2 bidders, 1 bidder without an account, coins up to 3, 2 keys; salts `salt` and `salt1`, reserve prices 1 and 11 and the string that is hashed for the hash, so that two commitments coincide; bids that declare 0, as the clients do, or 2, so that 2 + 2 wraps to 0 and 2 + 3 to 1 | `AccountsBalanced`, `WinnerIsBestAccepted`, `ReserveRespected`, `RefundAlwaysFits`, `VoidIsFinal`, `StrayBidStays` |
| `orderly` | coins up to 4, 1 salt, declared bids 0, every bidder with an account, no bid or close after a sale | `ImplementsEscrow` |
| `sale_is_final` | the same, coins up to 3, any order | `SaleIsFinal` is violated, see section 5 |
| `ledger` | the same 3 accounts and the ID without one, the coins of one account of a second name, declared bids 0, coins up to 2, transactions of up to 3 instructions | `AccountsBalanced` after every instruction, `BidsArePaid`, `ClientTransactionsAreSteps` |
| `ledger_client` | either client, up to 5 transactions, any functions in any order | `CounterInSync`, `RepetitionIsSafe`, `LateInclusionIsFatal` |
| `sealed_close` | the sealed-bid client and contract, up to 4 transactions, 1 bidder | `CloseReported` is violated, see section 5 |
| `sealed_bid` | 3 accounts, bids 0 to 3, any reserve price | `OneEntryPerAccount`, `FinalAwardIsBest`, `ImplementsSealedOffers` |
| `centralized` | 2 servers, 2 clients at once, bids -1 to 2 | `CloseReportsHighest`, `AcceptedRise`, `NoPhantomBid` |
| `centralized_race` | 1 server, 3 clients at once | `HighestBidIsBest` is violated, see section 5 |
| `centralized_simulation` | 1 server, 80 bids: `centrilized_auction.toml` | `NoBidTooLow`, `WrongOnlyAcrossRoster`, `SimulationSucceeds`; the theorems say the first two of every roster |
| `centralized_roster` | 2 servers, 3 bids | `SimulationSucceeds` is violated, see section 5 |
| `open_simulation` | 3 rounds, 3 bidders, 4 auctions; answers may be late, calls fail and transactions be lost | `SellerAllOrNothing`, `FailsOnlyAfterLoss`, `NothingRefused`, `SimulationEnds` |

`TypeOK`, `LedgerTypeOK` and `ClientTypeOK` are the type invariants of the runs
that have one.

**Bounds.** `MaxCoin` stands for 2^64 - 1 and `MaxBid` for 2^32 - 1; they are
constants of the specifications, so a small value is a narrower integer and not
a truncated exploration: overflow is reached within a few steps. `Mint` stops when
an account is full, as the coin contract does. `MaxCoin = 3` leaves room for three
successive bids, the third by a bidder whose first one was refunded.
Two bidders and a seller are the roles the contract tells apart; a third
bidder would be one of the two losers. Three sealed bids are the least
number for which the swap of `remove` moves a bid past another. One ID
without an account is enough: a bid of it stays, so there is no second. `proceeds` needs
no bound in `OpenAuction`: it grows only while the seller's account has room. In
`AuctionLedger` accounts can be emptied by `fetch`, hence `MaxProceeds` and
`MaxMinted`, 2 each. Three instructions, `MaxInstructions`, are enough for two
fetches and a bid, a bid between two fetches, and two bids one of which has
no coins left; with coins up to 2 there are still an outbid and a close. The proofs have
none of these bounds but as arbitrary numbers.

Five transactions, `MaxTransactions`, are a call that is given up, a repetition, a
function of two transactions and one more. In `sealed_close` four are a spawn,
a bid, a close and a process. Three connections
let a bid and a close overtake two others. Three rounds of three bids make every
bidder outbid and be outbid across a round, with two bids sent ahead in each; the
shipped 5 rounds of 180 bids differ in length only. No symmetry is used.

**Deadlock.** The open auction stops when every account is full and the auction
dropped; the simulations stop when they are done; a client stops when it has
sent `MaxTransactions` or failed a `require`. Those configurations switch the
deadlock check off; `ledger`, `sealed_bid`, `centralized` and `centralized_race`
keep it.

**Fairness.** The contracts and the clients' functions promise safety only: nothing
makes anybody send a transaction. For the service, each handler is weakly fair: it
neither blocks nor loops, and the Go scheduler runs it eventually. The simulation is
weakly fair as a whole: one goroutine and the handler it waits for, one of which can
always run until the simulation ends. It may end with a call that fails, for which
`SimulationSucceeds` makes an exception; a handler may then still be at work. A
client that never sends is allowed in `CentralizedAuction`. In
`OpenAuctionSimulation` the client is weakly fair (it runs unless it waits) and so
is the ledger (it goes on making blocks); nothing forces or forbids a timeout, a
call that fails or a loss, and `SimulationEnds` promises nothing once a transaction
is lost.

## 4. What is proved

All theorems hold for every value of the constants under the assumptions declared with
them, which TLC also evaluates on the instances: `AccountAssumption` (`InstanceID{}` is
no coin account, and strays are none either), `KeyAssumption`, `AmountAssumption`, and
`HashAssumption`: with one salt, different prices have different hashes, and no hash is
the empty string. It says nothing of two different salts, which may well open one
commitment. `AuctionLedger` adds `FiniteAssumption`, as there are finitely many IDs, and
`NameAssumption`: an account that does not exist decodes to the zero name.

The open auction simulation has a `SimulationAssumption` of its own: its accounts are
distinct, and its bidders have coins for all bids, as the 100000 of `open_auction.go`
are for the configured ones. A single bidder needs nearly twice as many: it outbids
itself, and its new bid is fetched before the old one is refunded (`auction.go:186`).
Without that condition `NothingRefused` is false, which came to light in its proof.

**Open auction** (`OpenAuctionProofs`). `TypeCorrect`, `CoinsAccountedFor`,
`BestBidWins`, `ReserveHonoured`, `RefundsFit`, `StrayBidFinal`, `VoidFinal`. The
invariants are not inductive alone. `IInv` adds what relates the fields of the
record:

* `LifecycleCoherent`: an auction that was not spawned is blank, and there are
  no proceeds before a sale, nor without a bid;
* `RecordCoherent`: the highest bid is 0 exactly as long as there is no bidder,
  and the bidder is never the seller. `AccountsBalanced` needs it at a sale:
  the seller's credit must not also reduce a claim;
* `CommitmentCoherent`: the stored string is the hash of the seller's terms, from
  which, with `HashAssumption`, a `close` with the seller's salt is called with the
  price committed to. What the property says of it, it says of the salts that closes
  which paid were called with (`opened`).

There is one lemma per transaction and one step per conjunct it disturbs.
`RefundAlwaysFits` then follows from `AccountsBalanced`: the balance plus the claim
is bounded by what the account was given. It is about bidders with an account;
`StrayBidFinal` says what becomes of the others. `WCLOSED` is a live state of the
proofs as of the code: the theorems hold with repeated closes.

**Refinement** (`OrderlyAuctionProofs`). `OrderlyImplementsEscrow`: the stakes of the
escrow are *computed from the coin accounts* (`StakeOf`), not read from the record.
`IInv` gives `StakesAreClaims`, and each transaction maps to one step of the escrow or
none.

**Instructions** (`AuctionLedgerProofs`). `LedgerTypeCorrect`, `LedgerCoinsAccountedFor`
and `CommittedRecordIsBest` hold for transactions of any length and shape. The inductive
invariant is `IInv` twice: of the staged state, to which every instruction is one of the
transactions of `OpenAuction` or moves coins between an account and the passed coins,
and of the committed state (`Saved`, the same module with other variables), because that
is what a roll-back restores. `AccountsBalanced` of a staged state speaks of coins in
flight as well: until a bid counts them, `unbacked` is what the account has paid for
nothing.

`BidsPaid` is about sums over the accounts of a name. What a change at one account does
to such a sum (`SumChanges`, `TotalChanges`) needs an argument over all finite sets, and
the library's induction theorems cannot be instantiated. The lemmas get by without:
`SumUnfolds` gives the recursion of the fold, and the claim is then refuted at a least
set for which it fails (`LeastSubset`). The invariant `PaidInv` says of staged and
committed state alike that no name has more on record than was fetched.

`ClientStepsAtomic` is the relation of the two levels of the model. A commit is a step
of `OpenAuction` from a state that may lie two instructions back, so its invariant
`ShapeInv` carries that state along: after the `fetch` of a client the staged state is
the committed one with the account debited and the coins passed on (`HasFetched`); a
complete transaction of a client has staged a step from the committed state
(`StagedIsStep`); and a transaction of another shape, or a roll-back, leaves no trace in
what the next one starts from.

**Clients** (`LedgerClientProofs`). `CountersAgree`, `RepetitionSafe`,
`LateInclusionFatal` and `ClientTypeCorrect` hold for any number of transactions. `CInv`
speaks of `Base`, the counter of the transaction in hand. No transaction sent has a
higher one (`CBelow`), so what is included behind the client's back is at most one
transaction signed with `Base`; after it the ledger's counter is past `Base` (`CSync`),
every transaction still pending is behind, and so is every later one, because a function
that advances `bct.ct` before it sends fails the test with its error. That last fact is
in the table of functions (`FunctionTypes`): it is where a change of one of them would
break the proof. `RepetitionIsSafe` needs the other order as well, in which a repetition
is included first: the counters of the transactions sent never fall, and what was
included is below the ledger's counter (`COrder`), so the ledger never goes back to the
one given up.

**Centralised service** (`CentralizedAuctionProofs`). `ServiceTypeCorrect` and
`PhantomFree` hold with any interleaving; the former needs that a bid past the
comparison is a natural number, which is why `Requests` says so.
`UnracedCloseReportsHighest` and `UnracedAcceptedRise` assume no order of the requests
either: their invariant is one per server, `ServerInv`. A server that is not `raced` has
at most one request in progress, and the invariant says what that request has read; a
step at one server leaves the others' invariants alone (`Elsewhere`), and a close that
is alone makes a raced server's hold again.

**Sealed bids** (`SealedBidProofs`). `RemoveSeq` says what `remove` returns; from it
`SBTypeCorrect`, `OneEntry` and `FinalAward`, whose invariant adds that an award counts
as final only in a closed auction, so that no bid follows it. `OffersImplemented` is the
refinement: with one entry per account, the offer computed from the list does not depend
on the order of the entries (`OfferOfEntry`), so the swap in `remove` and the search
from the front cannot be seen through the mapping, and each transaction is one step of
`SealedOffers`.

**Open auction simulation** (`OpenAuctionSimulationProofs`). `SellerPaidOnce`,
`FailureMeansLoss` and `ScriptNeverRefused` hold for any numbers of auctions, bidders
and rounds. `SimInv` has closed forms for what the first `i` transactions of the script
lead to: the ledger's counter `CtAt(i)`, the record `AuctionAt(i)` and the accounts
`BalanceAt(i)`. It says that the ledger has always executed a prefix of the script, even
after losses: counters grow along it (`CtGrows`), so what follows a lost transaction has
one that is too high, and is refused. As long as nothing is lost, `pending` is exactly
the positions between that prefix and what was sent. `ScriptItems` says what is at each
position, `NextAccepted` that the ledger accepts it there and `NextExecuted` that it
leads to the next closed form. A bidder's coins suffice for a bid because its previous
one was refunded by the bid that followed it. The seller's account changes with the
close only, and the close has a counter no shorter prefix leads to: hence all or
nothing.

**Centralised simulation** (`CentralizedSimulationProofs`). `BidsRise` holds for any
roster and any number of bids, `OneServerIsRight` for any number of bids and with the
first server as the whole roster; `centralized_roster` shows that the latter cannot be
dropped. `RunInv` says in each phase of `Run` which request is in progress, that no
server has seen more than the loop's last bid, and that a server alone has seen it.

Only model-checked: `SimulationSucceeds` and `SimulationEnds`, since liveness is outside
the prover's reach, and, by their nature, the violations. Every other property of a
passing run is a theorem.

## 5. Disagreements between the code and what it says

| Run | The repository says | The code does |
|---|---|---|
| `sale_is_final` | "close: ends an auction" (`auction.go:93`); "auction is closed, cannot bid" (`auction_test.go:83`) | a sale leaves `WCLOSED` (`auction.go:242`, `273`; `verifCloseAuction`, `fonctions.go:378`, expects `CLOSED`), which the guard at `auction.go:119` admits: a second `close` pays the seller again, and a higher bid after the sale is accepted and the buyer refunded |
| `sealed_close` | `closeAuction` returns no error, hence the auction is `CLOSED` (`sb_auction_test.go:85-88`) | `process` is sent whatever became of `close`, and its error replaces that of `close` (`sb_auctions/fonctions.go:271-290`). The contract accepts `process` at any time: a lost or late close is reported as a success, the good is awarded and the auction still open |
| `centralized_race` | "Close returns the highest bid" (`service_struct.go:31`, `service.go:29`) | check and write without a lock: of two racing bids the lower may be the last one written |
| `centralized_roster` | "wrong high bid" is an error (`centrilized_auction.go:86`) | bids go to random servers (`centauctions.go:22`), `Close` to the first; only the single host of the shipped configuration hides it |

`auction_test.go:109-114` closes an auction without bids and expects
`CLOSED`, too. There the code leaves `OPEN` (`auction.go:252-254`, `275-277`), and
`CloseUnsold` says so.

## 6. What is not modelled

* ByzCoin's consensus, blocks, proofs and darcs. The contract of the open auction
  accepts any signer (`auction.go:87`), so who may close or drop is no question the
  model could ask.
* What a salt other than the seller's opens. Salt and price are hashed as one string
  (`auction.go:229`; `createHash` of the clients), and `close` takes the salt from
  whoever calls it, so the commitment to price 11 with `salt` is one to price 1 with
  `salt1` too. The model has that close, and `ReserveRespected` holds for the closes
  with the seller's own salt only: it does not hold for every close. No doc or
  test of the repository speaks of it, hence no row in section 5. The clients' salts are
  the words `testsalt` and `simulationsalt`.
* What a bid for a missing account costs. `StrayBidStays` says that it is never
  refunded, replaced, dropped or force-closed, so the auction can only be sold to it,
  and then paid out of no coins (`unbacked`). Again no doc or test says otherwise. IDs of
  other existing instances, such as that of ByzCoin's configuration under
  `InstanceID{}`, are not bid for in the model: what their data decode to as a coin
  account is up to the other contract.
* `creditAndRefundCoin` and `transferCoin` of the sealed-bid contract
  (`sb_auction.go:243-297`). Their call is commented out, and with the contract's
  service pointer nil they could not run: there is no state of the program to
  start them from. The sealed-bid contract's status is "partly" because of them.
* The currency a seller is paid in. `storeCoin` names the coins after the account
  they go to (`auction.go:367`), so a seller whose account has another name than
  the winner's gets coins the winner did not have. `AccountsBalanced` counts
  amounts; refunds go back to the account that paid.
* Descriptions of goods, encodings and log lines. Decoding fails only for inputs the
  clients do not build, and the local errors of the simulations, of signing and
  encoding, are left out.
* Stale proofs. `GetProof` is taken to read the current state when the simulation
  checks the seller's account.
* Of the clients, `updateInstance`, which nothing calls and whose command no contract
  knows, and the `get*` and `verif*` functions, which read a proof and compare. Their
  status is "partly" for that reason.
* Service registration, the simulation's set-up (`Setup`, `Node`), the plots: they
  keep no state of the system.

## 7. What could follow

The parts of the code that change state are modelled, and what the runs check of them is
proved but for liveness. Two relations are not stated yet: that `OpenAuctionSimulation`,
which mints for all bidders at once, implements the escrow as well; and that a server
nobody raced for implements an abstract ascending auction, which `CloseReportsHighest`
and `AcceptedRise` say by a history.
