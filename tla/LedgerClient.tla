----------------------------- MODULE LedgerClient -----------------------------
(***************************************************************************)
(* The clients of the two contracts, bcTest of auctions/fonctions.go and   *)
(* of sb_auctions/fonctions.go, and the ledger as they see it.  A client   *)
(* signs every instruction with the next signer counter, bct.ct, and waits *)
(* for its transaction with AddTransactionAndWait, which fails when the    *)
(* transaction is refused, cannot be sent, or was not included in time; in *)
(* the last case it may be included later.  A client function is the       *)
(* sequence of its transactions, with what it does to bct.ct around each   *)
(* and what it does with the error.                                        *)
(*                                                                         *)
(* A definition that a comment calls a fault is used by no specification:  *)
(* it is the definition after it with a mistake the properties must catch. *)
(***************************************************************************)
EXTENDS Integers, Sequences

CONSTANT MaxTransactions  \* bounds the number of transactions a client sends

ASSUME TransactionAssumption == MaxTransactions \in Nat

VARIABLES
  functions,  \* the functions of the client in use; never changes
  todo,       \* the transactions left of the function being called
  phase,      \* what the client does: see Phases
  ct,         \* bct.ct, the counter of the next signature
  counter,    \* the signer's counter in the ledger: the last one used
  sent        \* the transactions sent so far

clientVars == <<functions, todo, phase, ct, counter, sent>>

\* "failed": a require stopped the test.
Phases == {"idle", "sending", "waiting", "failed"}

\* counted: bct.ct is advanced "before" AddTransactionAndWait or after its
\* "success".  onError: the test "fails", the error is "returned" or "ignored".
Transaction(op, count, counted, onError) ==
  [op |-> op, count |-> count, counted |-> counted, onError |-> onError]

\* The functions of auctions/fonctions.go.
CreateInstance == <<Transaction("spawn", 1, "before", "fails")>>
CreateSellerAccount == <<Transaction("account", 1, "success", "fails")>>
CreateBidderAccount == <<Transaction("account", 1, "before", "fails"),
                         Transaction("mint", 1, "before", "fails")>>
CreateAuction == CreateInstance

\* A fault: both counters are used up when the bid is sent.
AddBidCountsBefore == <<Transaction("bid", 2, "before", "returned")>>

\* <<fetch, bid>>; addBidWithDiffCoinName is the same function.
AddBid == <<Transaction("bid", 2, "success", "returned")>>
CloseAuction == <<Transaction("close", 1, "success", "returned")>>

\* The functions of sb_auctions/fonctions.go.
SBCreateInstance == <<Transaction("spawn", 1, "before", "fails")>>
SBCreateSellerAndDepositAccount == <<Transaction("account", 2, "success", "fails")>>
SBCreateBidderAccount == <<Transaction("account", 1, "before", "fails"),
                           Transaction("mint", 1, "before", "fails")>>
SBCreateAuction == SBCreateInstance
SBCreateBid == <<Transaction("bid", 1, "success", "returned")>>

\* The error of "close" is overwritten by that of "process".
SBCloseAuction == <<Transaction("close", 1, "success", "ignored"),
                    Transaction("process", 1, "success", "returned")>>

OpenFunctions ==
  {CreateSellerAccount, CreateBidderAccount, CreateAuction, AddBid, CloseAuction}
SealedFunctions ==
  {SBCreateSellerAndDepositAccount, SBCreateBidderAccount, SBCreateAuction,
   SBCreateBid, SBCloseAuction}

------------------------------------------------------------------------------

\* newBCTest: bct.ct is 1, and the signer has used no counter.
ClientInit ==
  /\ functions \in {OpenFunctions, SealedFunctions}
  /\ todo = <<>>
  /\ phase = "idle"
  /\ ct = 1
  /\ counter = 0
  /\ sent = <<>>

\* A test calls one of the functions.
Call(f) ==
  /\ phase = "idle"
  /\ todo' = f
  /\ phase' = "sending"
  /\ UNCHANGED <<functions, ct, counter, sent>>

\* The transaction is signed with bct.ct and the counters after it, and
\* AddTransactionAndWait sends it.
Send ==
  /\ phase = "sending"
  /\ Len(sent) < MaxTransactions
  /\ sent' = Append(sent, [op |-> Head(todo).op, count |-> Head(todo).count,
                           ct |-> ct, status |-> "pending", told |-> "nothing"])
  /\ ct' = IF Head(todo).counted = "before" THEN ct + Head(todo).count ELSE ct
  /\ phase' = "waiting"
  /\ UNCHANGED <<functions, todo, counter>>

\* A fault: the function goes on after its last transaction.
ContinueForEver ==
  /\ todo' = Tail(todo)
  /\ phase' = "sending"

\* The function goes on with its next transaction or returns.
Continue ==
  /\ todo' = Tail(todo)
  /\ phase' = IF Tail(todo) = <<>> THEN "idle" ELSE "sending"

\* AddTransactionAndWait returns nil.
Success ==
  /\ phase = "waiting"
  /\ sent[Len(sent)].status = "accepted"
  /\ sent' = [sent EXCEPT ![Len(sent)].told = "ok"]
  /\ ct' = IF Head(todo).counted = "success" THEN ct + Head(todo).count ELSE ct
  /\ Continue
  /\ UNCHANGED <<functions, counter>>

\* A fault: the counters are taken for used although there is an error.
FailureCounts ==
  /\ phase = "waiting"
  /\ sent' = [sent EXCEPT ![Len(sent)].told = "error"]
  /\ \/ Head(todo).onError = "ignored" /\ Continue
     \/ Head(todo).onError = "returned" /\ todo' = <<>> /\ phase' = "idle"
     \/ Head(todo).onError = "fails" /\ todo' = <<>> /\ phase' = "failed"
  /\ ct' = IF Head(todo).counted = "success" THEN ct + Head(todo).count ELSE ct
  /\ UNCHANGED <<functions, counter>>

\* It returns an error: a refusal it has seen, a failure to send, or the end of
\* its wait, which comes at any time, also just before it sees a success.
Failure ==
  /\ phase = "waiting"
  /\ sent' = [sent EXCEPT ![Len(sent)].told = "error"]
  /\ \/ Head(todo).onError = "ignored" /\ Continue
     \/ Head(todo).onError = "returned" /\ todo' = <<>> /\ phase' = "idle"
     \/ Head(todo).onError = "fails" /\ todo' = <<>> /\ phase' = "failed"
  /\ UNCHANGED <<functions, ct, counter>>

Settle(i, status) ==
  /\ sent[i].status = "pending"
  /\ sent' = [sent EXCEPT ![i].status = status]
  /\ UNCHANGED <<functions, todo, phase, ct>>

\* The ledger includes a transaction whose first counter is the next one ...
Accept(i) ==
  /\ sent[i].ct = counter + 1
  /\ Settle(i, "accepted")
  /\ counter' = counter + sent[i].count

\* ... refuses it, for its counter or because an instruction fails ...
Refuse(i) == Settle(i, "refused") /\ UNCHANGED counter

\* ... or never gets it.
Lose(i) == Settle(i, "lost") /\ UNCHANGED counter

ClientNext ==
  \/ \E f \in functions : Call(f)
  \/ Send
  \/ Success
  \/ Failure
  \/ \E i \in 1 .. Len(sent) : Accept(i) \/ Refuse(i) \/ Lose(i)

ClientSpec == ClientInit /\ [][ClientNext]_clientVars

------------------------------------------------------------------------------

\* Types of the client's and the ledger's state.
ClientTypeOK ==
  /\ functions \in {OpenFunctions, SealedFunctions}
  /\ phase \in Phases
  /\ ct \in Nat /\ counter \in Nat
  /\ sent \in Seq([op : {"account", "mint", "spawn", "bid", "close", "process"},
                   count : {1, 2}, ct : Nat,
                   status : {"pending", "accepted", "refused", "lost"},
                   told : {"nothing", "ok", "error"}])
  /\ phase \in {"sending", "waiting"} <=> todo # <<>>
  /\ phase = "waiting" => sent # <<>> /\ sent[Len(sent)].told = "nothing"

\* The transactions the client was told had failed, and which were included
\* all the same.
LateInclusions ==
  {i \in 1 .. Len(sent) : sent[i].told = "error" /\ sent[i].status = "accepted"}

(***************************************************************************)
(* Between two transactions the client's counter is the ledger's next one  *)
(* exactly as long as no transaction it gave up was included: refused and  *)
(* lost ones, and those that are still under way, do no harm, whatever     *)
(* the function that sent them (fonctions.go:79, 128, 144, 262, 354; sb    *)
(* fonctions.go:249, 272, 288).                                            *)
(***************************************************************************)
CounterInSync ==
  phase \in {"idle", "sending"} =>
    (ct = counter + 1 <=> LateInclusions = {})

(***************************************************************************)
(* A test may repeat a call that returned an error, as often as it likes:  *)
(* if the ledger includes the transaction given up, early or late, it      *)
(* includes none of those sent after it, neither one the client is told    *)
(* has succeeded nor one it gives up too; so a bid is not placed twice and *)
(* an auction not closed twice. None of the failed calls advances bct.ct,  *)
(* so the repetitions compete for one counter (fonctions.go:262, 354; sb   *)
(* fonctions.go:249, 272, 288).                                            *)
(***************************************************************************)
RepetitionIsSafe ==
  \A i \in LateInclusions :
    \A j \in i + 1 .. Len(sent) : sent[j].status # "accepted"

(***************************************************************************)
(* What that costs: once a transaction the client gave up was included,    *)
(* the client never gets another one through, since bct.ct stays behind    *)
(* (fonctions.go:262, 354; sb fonctions.go:249, 272, 288).                 *)
(***************************************************************************)
LateInclusionIsFatal ==
  [][LateInclusions # {} => counter' = counter]_clientVars
==============================================================================
