--------------------------- MODULE SealedBidClient ---------------------------
(***************************************************************************)
(* The sealed-bid client and its auction: the client of LedgerClient       *)
(* calling the functions of sb_auctions/fonctions.go, as TestContractSB-   *)
(* Auction_Invoke does, on a ledger that runs the contract of              *)
(* SealedBidAuction on every transaction it includes.                      *)
(***************************************************************************)
EXTENDS LedgerClient

CONSTANTS Accounts, NoAccount, MaxBid

VARIABLES auction, award

SB == INSTANCE SealedBidAuction

sealedVars == <<clientVars, auction, award>>

\* The instruction of a transaction: who bids and how much is chosen when it is
\* executed.
Execute(op) ==
  \/ op \in {"account", "mint"} /\ UNCHANGED <<auction, award>>
  \/ op = "spawn" /\ \E reserve \in SB!Amounts : SB!Spawn(reserve)
  \/ op = "bid" /\ \E a \in Accounts, b \in SB!Amounts : SB!Bid(a, b)
  \/ op = "close" /\ SB!Close
  \/ op = "process" /\ SB!Process

\* The instruction can fail.
Fails(op) ==
  \/ op = "spawn" /\ auction.State # "ABSENT"
  \/ op = "bid" /\ \E a \in Accounts, b \in SB!Amounts : ~ENABLED SB!Bid(a, b)
  \/ op = "close" /\ auction.State = "ABSENT"
  \/ op = "process" /\ ~ENABLED SB!Process

------------------------------------------------------------------------------

SealedInit == ClientInit /\ functions = SealedFunctions /\ SB!Init

\* One auction, created first.
SealedCall(f) ==
  /\ f = SBCreateAuction <=> auction.State = "ABSENT"
  /\ Call(f)
  /\ UNCHANGED <<auction, award>>

Include(i) == Accept(i) /\ Execute(sent[i].op)

Reject(i) ==
  /\ sent[i].ct # counter + 1 \/ Fails(sent[i].op)
  /\ Refuse(i)
  /\ UNCHANGED <<auction, award>>

SealedNext ==
  \/ \E f \in functions : SealedCall(f)
  \/ (Send \/ Success \/ Failure) /\ UNCHANGED <<auction, award>>
  \/ \E i \in 1 .. Len(sent) :
        Include(i) \/ Reject(i) \/ (Lose(i) /\ UNCHANGED <<auction, award>>)

SealedSpec == SealedInit /\ [][SealedNext]_sealedVars

------------------------------------------------------------------------------

(***************************************************************************)
(* A call of closeAuction that returned no error has closed the auction    *)
(* (sb_auction_test.go:85-88 requires no error and then that the state is  *)
(* CLOSED).                                                                *)
(***************************************************************************)
CloseReported ==
  \A i \in 1 .. Len(sent) :
    sent[i].op = "process" /\ sent[i].told = "ok" => auction.State = "CLOSED"
==============================================================================
