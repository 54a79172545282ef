-------------------------- MODULE LedgerClientProofs --------------------------
(***************************************************************************)
(* Theorems about the clients of both contracts, for transactions of any   *)
(* number.                                                                 *)
(***************************************************************************)
EXTENDS LedgerClient, SequenceTheorems, TLAPS

\* A transaction of a client function: one counted before it is sent fails the
\* test when it fails.
Steps ==
  {t \in [op : {"account", "mint", "spawn", "bid", "close", "process"},
          count : {1, 2}, counted : {"before", "success"},
          onError : {"fails", "returned", "ignored"}] :
     t.counted = "before" => t.onError = "fails"}

Records ==
  [op : {"account", "mint", "spawn", "bid", "close", "process"},
   count : {1, 2}, ct : Nat,
   status : {"pending", "accepted", "refused", "lost"},
   told : {"nothing", "ok", "error"}]

\* The functions are sequences of such transactions.
LEMMA FunctionTypes ==
  \A f \in OpenFunctions \cup SealedFunctions : f \in Seq(Steps) /\ f # <<>>
<1>1. /\ CreateSellerAccount \in Seq(Steps) /\ CreateBidderAccount \in Seq(Steps)
      /\ CreateAuction \in Seq(Steps) /\ AddBid \in Seq(Steps)
      /\ CloseAuction \in Seq(Steps)
  BY DEF CreateSellerAccount, CreateBidderAccount, CreateAuction, CreateInstance,
         AddBid, CloseAuction, Transaction, Steps
<1>2. /\ CreateSellerAccount # <<>> /\ CreateBidderAccount # <<>>
      /\ CreateAuction # <<>> /\ AddBid # <<>> /\ CloseAuction # <<>>
  BY DEF CreateSellerAccount, CreateBidderAccount, CreateAuction, CreateInstance,
         AddBid, CloseAuction
<1>3. /\ SBCreateSellerAndDepositAccount \in Seq(Steps)
      /\ SBCreateBidderAccount \in Seq(Steps) /\ SBCreateAuction \in Seq(Steps)
      /\ SBCreateBid \in Seq(Steps) /\ SBCloseAuction \in Seq(Steps)
  BY DEF SBCreateSellerAndDepositAccount, SBCreateBidderAccount, SBCreateAuction,
         SBCreateInstance, SBCreateBid, SBCloseAuction, Transaction, Steps
<1>4. /\ SBCreateSellerAndDepositAccount # <<>> /\ SBCreateBidderAccount # <<>>
      /\ SBCreateAuction # <<>> /\ SBCreateBid # <<>> /\ SBCloseAuction # <<>>
  BY DEF SBCreateSellerAndDepositAccount, SBCreateBidderAccount, SBCreateAuction,
         SBCreateInstance, SBCreateBid, SBCloseAuction
<1> QED
  BY <1>1, <1>2, <1>3, <1>4 DEF OpenFunctions, SealedFunctions

------------------------------------------------------------------------------

\* The last transaction sent, and the counter the client signs with while it
\* deals with that one.
Last == sent[Len(sent)]
Base == IF phase \in {"waiting", "failed"} THEN Last.ct ELSE ct

\* The transaction the client waits for is included, and it does not know.
Unheard == phase = "waiting" /\ Last.status = "accepted"

CType ==
  /\ functions \in {OpenFunctions, SealedFunctions}
  /\ phase \in Phases
  /\ ct \in Nat /\ counter \in Nat
  /\ sent \in Seq(Records)
  /\ todo \in Seq(Steps)
  /\ phase \in {"sending", "waiting"} <=> todo # <<>>
  /\ phase \in {"waiting", "failed"} => sent # <<>>

\* What the client was told, and what it does about the counters meanwhile.
CTold ==
  /\ \A i \in 1 .. Len(sent) :
       /\ sent[i].told = "nothing" <=> phase = "waiting" /\ i = Len(sent)
       /\ sent[i].told = "ok" => sent[i].status = "accepted"
  /\ phase = "waiting" =>
       /\ Last.count = Head(todo).count
       /\ Head(todo).counted = "success" => ct = Last.ct
       /\ Head(todo).counted = "before" => ct = Last.ct + Last.count

\* No transaction has a counter above the client's.
CBelow == \A i \in 1 .. Len(sent) : sent[i].ct <= Base

\* The client's counter and the ledger's.
CSync ==
  /\ LateInclusions = {} /\ ~Unheard => counter + 1 = Base
  /\ LateInclusions = {} /\ Unheard => counter + 1 = Base + Last.count
  /\ LateInclusions # {} => counter + 1 > Base /\ ~Unheard

\* The counters of the transactions rise, though not all of them strictly, and
\* the ledger has used up those it included.
COrder ==
  /\ \A i, j \in 1 .. Len(sent) : i < j => sent[i].ct <= sent[j].ct
  /\ \A i \in 1 .. Len(sent) : sent[i].status = "accepted" => sent[i].ct <= counter

\* The inductive invariant of the client and the ledger.
CInv == CType /\ CTold /\ CBelow /\ CSync /\ COrder /\ RepetitionIsSafe

\* The initial state satisfies it.
LEMMA InitCInv == ClientInit => CInv
<1> SUFFICES ASSUME ClientInit PROVE CInv
  OBVIOUS
<1>1. sent = <<>> /\ todo = <<>> /\ phase = "idle" /\ ct = 1 /\ counter = 0
  BY DEF ClientInit
<1>2. CType
  BY <1>1 DEF ClientInit, CType, Phases
<1>3. \A i \in 1 .. Len(sent) : FALSE
  BY <1>1
<1>4. CTold /\ CBelow /\ COrder /\ LateInclusions = {} /\ ~Unheard /\ Base = 1
  BY <1>1, <1>3 DEF CTold, CBelow, COrder, LateInclusions, Unheard, Base
<1> QED
  BY <1>1, <1>2, <1>4 DEF CInv, CSync, RepetitionIsSafe

\* Changing one field of one record of sent.
LEMMA TellProperties ==
  ASSUME sent \in Seq(Records), NEW i \in 1 .. Len(sent),
         NEW v \in {"nothing", "ok", "error"}, sent' = [sent EXCEPT ![i].told = v]
  PROVE  /\ sent' \in Seq(Records)
         /\ Len(sent') = Len(sent)
         /\ \A j \in 1 .. Len(sent) :
              /\ sent'[j].ct = sent[j].ct /\ sent'[j].count = sent[j].count
              /\ sent'[j].status = sent[j].status
              /\ sent'[j].told = IF j = i THEN v ELSE sent[j].told
<1> DEFINE e == [sent[i] EXCEPT !.told = v]
<1>1. sent[i] \in Records
  BY ElementOfSeq
<1>2. e \in Records
  BY <1>1 DEF Records
<1>3. sent' = [sent EXCEPT ![i] = e]
  OBVIOUS
<1>4. /\ sent' \in Seq(Records)
      /\ Len(sent') = Len(sent)
      /\ \A j \in 1 .. Len(sent) : sent'[j] = IF j = i THEN e ELSE sent[j]
  BY <1>2, <1>3, ExceptSeq
<1>5. /\ e.ct = sent[i].ct /\ e.count = sent[i].count /\ e.status = sent[i].status
      /\ e.told = v
  BY <1>1 DEF Records
<1> HIDE DEF e
<1> QED
  BY <1>4, <1>5

LEMMA SettleProperties ==
  ASSUME sent \in Seq(Records), NEW i \in 1 .. Len(sent),
         NEW v \in {"pending", "accepted", "refused", "lost"},
         sent' = [sent EXCEPT ![i].status = v]
  PROVE  /\ sent' \in Seq(Records)
         /\ Len(sent') = Len(sent)
         /\ \A j \in 1 .. Len(sent) :
              /\ sent'[j].ct = sent[j].ct /\ sent'[j].count = sent[j].count
              /\ sent'[j].told = sent[j].told
              /\ sent'[j].status = IF j = i THEN v ELSE sent[j].status
<1> DEFINE e == [sent[i] EXCEPT !.status = v]
<1>1. sent[i] \in Records
  BY ElementOfSeq
<1>2. e \in Records
  BY <1>1 DEF Records
<1>3. sent' = [sent EXCEPT ![i] = e]
  OBVIOUS
<1>4. /\ sent' \in Seq(Records)
      /\ Len(sent') = Len(sent)
      /\ \A j \in 1 .. Len(sent) : sent'[j] = IF j = i THEN e ELSE sent[j]
  BY <1>2, <1>3, ExceptSeq
<1>5. /\ e.ct = sent[i].ct /\ e.count = sent[i].count /\ e.told = sent[i].told
      /\ e.status = v
  BY <1>1 DEF Records
<1> HIDE DEF e
<1> QED
  BY <1>4, <1>5

\* The fields of a transaction sent, and the last one.
LEMMA Fields ==
  ASSUME CType
  PROVE  /\ Len(sent) \in Nat
         /\ \A i \in 1 .. Len(sent) :
              /\ sent[i].ct \in Nat /\ sent[i].count \in {1, 2}
              /\ sent[i].status \in {"pending", "accepted", "refused", "lost"}
              /\ sent[i].told \in {"nothing", "ok", "error"}
         /\ sent # <<>> => Len(sent) \in 1 .. Len(sent)
<1>1. sent \in Seq(Records)
  BY DEF CType
<1>2. Len(sent) \in Nat
  BY <1>1, LenProperties
<1>3. sent # <<>> => Len(sent) \in 1 .. Len(sent)
  <2>1. sent # <<>> => Len(sent) \in Nat \ {0}
    BY <1>1, EmptySeq
  <2> QED
    BY <2>1
<1>4. \A i \in 1 .. Len(sent) : sent[i] \in Records
  BY <1>1, ElementOfSeq
<1> QED
  BY <1>2, <1>3, <1>4 DEF Records

\* What the function does next is one of its transactions.
LEMMA Todo ==
  ASSUME CType, todo # <<>>
  PROVE  Head(todo) \in Steps /\ Tail(todo) \in Seq(Steps)
  BY HeadTailProperties DEF CType

\* The steps between transactions.
LEMMA CallCInv == ASSUME CInv, NEW f \in functions, Call(f) PROVE CInv'
<1>1. f \in Seq(Steps) /\ f # <<>>
  BY FunctionTypes DEF CInv, CType
<1>2. CType'
  BY <1>1 DEF CInv, CType, Call, Phases
<1>3. sent' = sent /\ ct' = ct /\ counter' = counter
      /\ phase = "idle" /\ phase' = "sending"
  BY DEF Call
<1>4. Base' = Base /\ LateInclusions' = LateInclusions /\ ~Unheard /\ ~Unheard'
  BY <1>3 DEF Base, LateInclusions, Unheard, Last
<1>5. CTold'
  BY <1>3 DEF CInv, CTold
<1>6. CBelow' /\ CSync' /\ COrder' /\ RepetitionIsSafe'
  BY <1>3, <1>4 DEF CInv, CBelow, CSync, COrder, RepetitionIsSafe
<1> QED
  BY <1>2, <1>5, <1>6 DEF CInv

LEMMA SendCInv == ASSUME CInv, Send PROVE CInv'
<1> DEFINE e == [op |-> Head(todo).op, count |-> Head(todo).count, ct |-> ct,
                 status |-> "pending", told |-> "nothing"]
<1> PICK n : n = Len(sent)
  OBVIOUS
<1>1. /\ CType /\ n \in Nat /\ phase = "sending" /\ phase' = "waiting"
      /\ todo' = todo /\ counter' = counter /\ functions' = functions
      /\ sent \in Seq(Records) /\ todo # <<>> /\ sent' = Append(sent, e)
  BY Fields DEF CInv, CType, Send
<1>2. Head(todo) \in Steps
  BY <1>1, Todo
<1>3. e \in Records
  BY <1>1, <1>2 DEF Records, Steps, CType
<1>4. e.count = Head(todo).count /\ e.ct = ct /\ e.status = "pending" /\ e.told = "nothing"
  OBVIOUS
<1>5. /\ ct \in Nat
      /\ ct' \in Nat
      /\ Head(todo).counted = "success" => ct' = ct
      /\ Head(todo).counted = "before" => ct' = ct + Head(todo).count
  BY <1>1, <1>2 DEF Send, Steps, CType
<1> HIDE DEF e
<1>6. /\ sent' \in Seq(Records) /\ sent' # <<>> /\ Len(sent') = n + 1
      /\ \A i \in 1 .. n : sent'[i] = sent[i]
      /\ sent'[n + 1] = e
  BY <1>1, <1>3, AppendProperties
<1>7. CType'
  BY <1>1, <1>5, <1>6 DEF CType, Phases
<1>8. Base = ct /\ Base' = ct /\ ~Unheard /\ ~Unheard'
  BY <1>1, <1>4, <1>6 DEF Base, Unheard, Last
<1>9. CTold'
  BY <1>1, <1>4, <1>5, <1>6 DEF CInv, CTold, Last
<1>10. CBelow'
  BY <1>1, <1>4, <1>5, <1>6, <1>8 DEF CInv, CBelow
<1>11. LateInclusions' = LateInclusions
  BY <1>1, <1>4, <1>6 DEF LateInclusions
<1>12. COrder'
  BY <1>1, <1>4, <1>6, <1>8 DEF CInv, CBelow, COrder
<1>13. RepetitionIsSafe'
  <2>1. \A i \in LateInclusions : i \in 1 .. n
    BY DEF LateInclusions
  <2> QED
    BY <1>1, <1>4, <1>6, <1>11, <2>1 DEF CInv, RepetitionIsSafe
<1> QED
  BY <1>1, <1>7, <1>8, <1>9, <1>10, <1>11, <1>12, <1>13 DEF CInv, CSync

\* AddTransactionAndWait returns.
LEMMA SuccessCInv == ASSUME CInv, Success PROVE CInv'
<1> PICK n : n = Len(sent)
  OBVIOUS
<1>1. /\ CType /\ n \in 1 .. n /\ n \in Nat /\ phase = "waiting" /\ todo # <<>>
      /\ counter' = counter /\ functions' = functions
      /\ sent[n].status = "accepted" /\ sent' = [sent EXCEPT ![n].told = "ok"]
  BY Fields DEF CInv, CType, Success
<1>2. Head(todo) \in Steps /\ Tail(todo) \in Seq(Steps)
  BY <1>1, Todo
<1>3. /\ sent' \in Seq(Records) /\ Len(sent') = n
      /\ \A j \in 1 .. n :
           /\ sent'[j].ct = sent[j].ct /\ sent'[j].count = sent[j].count
           /\ sent'[j].status = sent[j].status
           /\ sent'[j].told = IF j = n THEN "ok" ELSE sent[j].told
  <2>1. /\ sent \in Seq(Records) /\ Len(sent) \in 1 .. Len(sent)
        /\ "ok" \in {"nothing", "ok", "error"}
        /\ sent' = [sent EXCEPT ![Len(sent)].told = "ok"]
    BY <1>1 DEF CType
  <2>2. /\ sent' \in Seq(Records)
        /\ Len(sent') = Len(sent)
        /\ \A j \in 1 .. Len(sent) :
             /\ sent'[j].ct = sent[j].ct /\ sent'[j].count = sent[j].count
             /\ sent'[j].status = sent[j].status
             /\ sent'[j].told = IF j = Len(sent) THEN "ok" ELSE sent[j].told
    BY <2>1, TellProperties
  <2> QED
    BY <2>2
<1>4. /\ todo' = Tail(todo)
      /\ phase' = IF todo' = <<>> THEN "idle" ELSE "sending"
  BY DEF Success, Continue
<1>5. \A j \in 1 .. n : sent[j].ct \in Nat /\ sent[j].count \in {1, 2}
  BY <1>1, Fields
<1>6. ct' = sent[n].ct + sent[n].count
  BY <1>1, <1>2 DEF CInv, CTold, Last, Success, Steps
<1>7. LateInclusions = {} /\ counter + 1 = ct' /\ Base = sent[n].ct
  BY <1>1, <1>6 DEF CInv, CSync, Unheard, Last, Base
<1>8. CType'
  <2>1. ct' \in Nat /\ counter' \in Nat
    BY <1>1, <1>5, <1>6 DEF CType
  <2>2. functions' \in {OpenFunctions, SealedFunctions}
    BY <1>1 DEF CType
  <2>3. todo' \in Seq(Steps) /\ phase' \in {"idle", "sending"}
    BY <1>2, <1>4
  <2>4. phase' \in {"sending", "waiting"} <=> todo' # <<>>
    BY <1>4
  <2> QED
    BY <1>3, <2>1, <2>2, <2>3, <2>4 DEF CType, Phases
<1>9. Base' = ct' /\ ~Unheard'
  BY <1>4 DEF Base, Unheard
<1>10. LateInclusions' = {}
  BY <1>1, <1>3, <1>7 DEF LateInclusions
<1>11. CTold'
  BY <1>1, <1>3, <1>4 DEF CInv, CTold
<1>12. CBelow'
  BY <1>1, <1>3, <1>5, <1>6, <1>7, <1>9 DEF CInv, CBelow
<1>13. COrder'
  BY <1>1, <1>3 DEF CInv, COrder
<1> QED
  BY <1>1, <1>7, <1>8, <1>9, <1>10, <1>11, <1>12, <1>13
  DEF CInv, CSync, RepetitionIsSafe

LEMMA FailureCInv == ASSUME CInv, Failure PROVE CInv'
<1> PICK n : n = Len(sent)
  OBVIOUS
<1>1. /\ CType /\ n \in 1 .. n /\ n \in Nat /\ phase = "waiting" /\ todo # <<>>
      /\ counter' = counter /\ functions' = functions /\ ct' = ct
      /\ sent' = [sent EXCEPT ![n].told = "error"]
  BY Fields DEF CInv, CType, Failure
<1>2. Head(todo) \in Steps /\ Tail(todo) \in Seq(Steps)
  BY <1>1, Todo
<1>3. /\ sent' \in Seq(Records) /\ Len(sent') = n
      /\ \A j \in 1 .. n :
           /\ sent'[j].ct = sent[j].ct /\ sent'[j].count = sent[j].count
           /\ sent'[j].status = sent[j].status
           /\ sent'[j].told = IF j = n THEN "error" ELSE sent[j].told
  <2>1. /\ sent \in Seq(Records) /\ Len(sent) \in 1 .. Len(sent)
        /\ "error" \in {"nothing", "ok", "error"}
        /\ sent' = [sent EXCEPT ![Len(sent)].told = "error"]
    BY <1>1 DEF CType
  <2>2. /\ sent' \in Seq(Records)
        /\ Len(sent') = Len(sent)
        /\ \A j \in 1 .. Len(sent) :
             /\ sent'[j].ct = sent[j].ct /\ sent'[j].count = sent[j].count
             /\ sent'[j].status = sent[j].status
             /\ sent'[j].told = IF j = Len(sent) THEN "error" ELSE sent[j].told
    BY <2>1, TellProperties
  <2> QED
    BY <2>2
<1>4. /\ todo' \in Seq(Steps)
      /\ phase' \in {"idle", "sending", "failed"}
      /\ phase' = "sending" <=> todo' # <<>>
      /\ phase' # "failed" => Head(todo).counted = "success"
  <2>1. \/ Head(todo).onError = "ignored" /\ Continue
        \/ Head(todo).onError = "returned" /\ todo' = <<>> /\ phase' = "idle"
        \/ Head(todo).onError = "fails" /\ todo' = <<>> /\ phase' = "failed"
    BY DEF Failure
  <2>2. /\ Head(todo).counted \in {"before", "success"}
        /\ Head(todo).counted = "before" => Head(todo).onError = "fails"
    BY <1>2 DEF Steps
  <2>3. <<>> \in Seq(Steps)
    BY EmptySeq
  <2> QED
    BY <1>2, <2>1, <2>2, <2>3 DEF Continue
<1>5. \A j \in 1 .. n : sent[j].ct \in Nat /\ sent[j].count \in {1, 2}
  BY <1>1, Fields
<1>6. sent' # <<>>
  <2>1. Len(sent') # 0 /\ Len(<<>>) = 0
    BY <1>1, <1>3, EmptySeq
  <2> QED
    BY <2>1
<1>7. CType'
  BY <1>1, <1>3, <1>4, <1>6 DEF CType, Phases
<1>8. /\ Base = sent[n].ct /\ Base' = sent[n].ct /\ ~Unheard'
      /\ Unheard <=> sent[n].status = "accepted"
  BY <1>1, <1>3, <1>4 DEF CInv, CTold, Last, Base, Unheard
<1>9. sent[n].told = "nothing"
  BY <1>1 DEF CInv, CTold
<1>10. LateInclusions' = LateInclusions \cup (IF Unheard THEN {n} ELSE {})
  BY <1>1, <1>3, <1>8, <1>9 DEF LateInclusions
<1>11. CSync' /\ RepetitionIsSafe'
  <2>1. CASE Unheard
    <3>1. LateInclusions = {} /\ counter + 1 = Base + sent[n].count
      BY <2>1 DEF CInv, CSync, Last
    <3>2. LateInclusions' = {n}
      BY <1>10, <2>1, <3>1
    <3> QED
      BY <1>1, <1>3, <1>5, <1>8, <3>1, <3>2 DEF CSync, RepetitionIsSafe
  <2>2. CASE ~Unheard
    <3>1. LateInclusions' = LateInclusions
      BY <1>10, <2>2
    <3>2. CSync'
      BY <1>1, <1>8, <2>2, <3>1 DEF CInv, CSync
    <3>3. \A i \in LateInclusions : i \in 1 .. n
      BY DEF LateInclusions
    <3>4. RepetitionIsSafe'
      BY <1>1, <1>3, <3>1, <3>3 DEF CInv, RepetitionIsSafe
    <3> QED
      BY <3>2, <3>4
  <2> QED
    BY <2>1, <2>2
<1>12. CTold'
  BY <1>1, <1>3, <1>4 DEF CInv, CTold
<1>13. CBelow'
  BY <1>1, <1>3, <1>8 DEF CInv, CBelow
<1>14. COrder'
  BY <1>1, <1>3 DEF CInv, COrder
<1> QED
  BY <1>7, <1>11, <1>12, <1>13, <1>14 DEF CInv

\* What the ledger does to a transaction.
LEMMA SettleFacts ==
  ASSUME CType, NEW i \in 1 .. Len(sent),
         NEW v \in {"accepted", "refused", "lost"}, Settle(i, v)
  PROVE  /\ sent \in Seq(Records) /\ sent' \in Seq(Records)
         /\ Len(sent') = Len(sent) /\ sent[i].status = "pending"
         /\ \A j \in 1 .. Len(sent) :
              /\ sent'[j].ct = sent[j].ct /\ sent'[j].count = sent[j].count
              /\ sent'[j].told = sent[j].told
              /\ sent'[j].status = IF j = i THEN v ELSE sent[j].status
         /\ UNCHANGED <<functions, todo, phase, ct>>
<1>1. /\ sent \in Seq(Records) /\ v \in {"pending", "accepted", "refused", "lost"}
      /\ sent' = [sent EXCEPT ![i].status = v]
      /\ sent[i].status = "pending" /\ UNCHANGED <<functions, todo, phase, ct>>
  BY DEF Settle, CType
<1>2. /\ sent' \in Seq(Records)
      /\ Len(sent') = Len(sent)
      /\ \A j \in 1 .. Len(sent) :
           /\ sent'[j].ct = sent[j].ct /\ sent'[j].count = sent[j].count
           /\ sent'[j].told = sent[j].told
           /\ sent'[j].status = IF j = i THEN v ELSE sent[j].status
  BY <1>1, SettleProperties
<1> QED
  BY <1>1, <1>2

\* Types and told answers do not depend on what the ledger does.
LEMMA SettleKeeps ==
  ASSUME CInv, NEW i \in 1 .. Len(sent),
         NEW v \in {"accepted", "refused", "lost"}, Settle(i, v), counter' \in Nat
  PROVE  CType' /\ CTold' /\ CBelow' /\ Base' = Base
<1> PICK n : n = Len(sent)
  OBVIOUS
<1>1. /\ CType /\ Len(sent') = n /\ sent' \in Seq(Records) /\ n \in Nat
      /\ sent[i].status = "pending" /\ UNCHANGED <<functions, todo, phase, ct>>
  BY SettleFacts, Fields DEF CInv
<1>2. \A j \in 1 .. n :
        /\ sent'[j].ct = sent[j].ct /\ sent'[j].count = sent[j].count
        /\ sent'[j].told = sent[j].told
        /\ sent'[j].status = IF j = i THEN v ELSE sent[j].status
  BY <1>1, SettleFacts
<1>3. n \in 1 .. n /\ sent' # <<>>
  <2>1. i \in 1 .. n
    OBVIOUS
  <2>2. Len(<<>>) = 0
    BY EmptySeq
  <2> QED
    BY <1>1, <2>1, <2>2
<1>4. CType'
  BY <1>1, <1>3 DEF CType
<1>5. Last'.ct = Last.ct /\ Last'.count = Last.count /\ Base' = Base
  BY <1>1, <1>2, <1>3 DEF Last, Base
<1>6. CTold'
  <2>1. \A j \in 1 .. Len(sent') :
          /\ sent'[j].told = "nothing" <=> phase' = "waiting" /\ j = Len(sent')
          /\ sent'[j].told = "ok" => sent'[j].status = "accepted"
    BY <1>1, <1>2 DEF CInv, CTold
  <2>2. phase' = "waiting" =>
          /\ Last'.count = Head(todo').count
          /\ Head(todo').counted = "success" => ct' = Last'.ct
          /\ Head(todo').counted = "before" => ct' = Last'.ct + Last'.count
    BY <1>1, <1>5 DEF CInv, CTold
  <2> QED
    BY <2>1, <2>2 DEF CTold
<1>7. CBelow'
  BY <1>1, <1>2, <1>5 DEF CInv, CBelow
<1> QED
  BY <1>4, <1>5, <1>6, <1>7

LEMMA DropCInv ==
  ASSUME CInv, NEW i \in 1 .. Len(sent), Refuse(i) \/ Lose(i)
  PROVE  CInv'
<1> PICK v \in {"refused", "lost"} : Settle(i, v)
  BY DEF Refuse, Lose
<1>1. counter' = counter /\ counter \in Nat
  BY DEF Refuse, Lose, CInv, CType
<1>2. CType' /\ CTold' /\ CBelow' /\ Base' = Base
  BY <1>1, SettleKeeps
<1>3. /\ Len(sent') = Len(sent) /\ phase' = phase
      /\ \A j \in 1 .. Len(sent) :
           /\ sent'[j].told = sent[j].told /\ sent'[j].count = sent[j].count
           /\ sent'[j].ct = sent[j].ct
           /\ sent'[j].status = "accepted" <=> sent[j].status = "accepted"
  BY SettleFacts DEF CInv
<1>4. LateInclusions' = LateInclusions
  BY <1>3 DEF LateInclusions
<1>5. phase = "waiting" => Len(sent) \in 1 .. Len(sent)
  BY Fields DEF CInv, CType
<1>6. (Unheard' <=> Unheard) /\ (Unheard => Last'.count = Last.count)
  BY <1>3, <1>5 DEF Unheard, Last
<1>7. COrder'
  BY <1>1, <1>3 DEF CInv, COrder
<1>8. RepetitionIsSafe'
  <2>1. \A j \in LateInclusions : j \in 1 .. Len(sent)
    BY DEF LateInclusions
  <2>2. Len(sent) \in Nat
    BY Fields DEF CInv
  <2> QED
    BY <1>3, <1>4, <2>1, <2>2 DEF CInv, RepetitionIsSafe
<1> QED
  BY <1>1, <1>2, <1>4, <1>6, <1>7, <1>8 DEF CInv, CSync

\* Only while no transaction was included behind the client's back can the
\* ledger include one: the others are signed with counters already used.
LEMMA AcceptOnlyInSync ==
  ASSUME CInv, NEW i \in 1 .. Len(sent), Accept(i)
  PROVE  LateInclusions = {} /\ ~Unheard /\ counter + 1 = Base /\ counter' \in Nat
         /\ counter' = counter + sent[i].count /\ sent[i].count \in {1, 2}
<1>1. /\ CType /\ sent[i].ct \in Nat /\ sent[i].count \in {1, 2} /\ counter \in Nat
      /\ sent[i].ct <= Base
  BY Fields DEF CInv, CBelow, CType
<1>2. sent[i].ct = counter + 1 /\ counter' = counter + sent[i].count
  BY DEF Accept
<1>3. Base \in Nat
  BY Fields DEF CInv, CType, Base, Last, Phases
<1>4. ~(counter + 1 > Base)
  BY <1>1, <1>2, <1>3
<1>5. LateInclusions = {}
  BY <1>4 DEF CInv, CSync
<1>6. ~Unheard
  <2>1. ASSUME Unheard PROVE counter + 1 = Base + Last.count /\ Last.count \in {1, 2}
    BY <1>5, <2>1, Fields DEF CInv, CSync, CType, Unheard, Last
  <2> QED
    BY <1>1, <1>3, <1>4, <2>1
<1> QED
  BY <1>1, <1>2, <1>5, <1>6 DEF CInv, CSync

LEMMA AcceptCInv ==
  ASSUME CInv, NEW i \in 1 .. Len(sent), Accept(i)
  PROVE  CInv'
<1> PICK n : n = Len(sent)
  OBVIOUS
<1>1. /\ LateInclusions = {} /\ ~Unheard /\ counter + 1 = Base
      /\ counter' \in Nat /\ counter' = counter + sent[i].count
      /\ sent[i].count \in {1, 2} /\ counter \in Nat /\ n \in Nat
  BY AcceptOnlyInSync, Fields DEF CInv, CType
<1>2. Settle(i, "accepted")
  BY DEF Accept
<1>3. CType' /\ CTold' /\ CBelow' /\ Base' = Base
  BY <1>1, <1>2, SettleKeeps
<1>4. /\ Len(sent') = n /\ phase' = phase /\ sent[i].status = "pending"
      /\ \A j \in 1 .. n :
           /\ sent'[j].told = sent[j].told /\ sent'[j].count = sent[j].count
           /\ sent'[j].ct = sent[j].ct
           /\ sent'[j].status = IF j = i THEN "accepted" ELSE sent[j].status
  BY <1>2, SettleFacts DEF CInv
<1>5. sent[i].told \in {"nothing", "error"}
      /\ (sent[i].told = "nothing" <=> phase = "waiting" /\ i = n)
  BY <1>4, Fields DEF CInv, CTold
<1>6. COrder'
  <2>1. sent[i].ct <= counter'
    <3>1. sent[i].ct = counter + 1
      BY DEF Accept
    <3> QED
      BY <1>1, <3>1
  <2>2. \A j \in 1 .. n : sent[j].ct <= counter => sent[j].ct <= counter'
    BY <1>1, Fields DEF CInv
  <2> QED
    BY <1>4, <2>1, <2>2 DEF CInv, COrder
\* The transactions sent after this one have higher counters than the ledger's.
<1>7. \A j \in i + 1 .. n : sent[j].status # "accepted"
  <2> SUFFICES ASSUME NEW j \in i + 1 .. n, sent[j].status = "accepted"
               PROVE  FALSE
    OBVIOUS
  <2>1. j \in 1 .. n /\ i < j
    BY <1>1
  <2>2. sent[i].ct <= sent[j].ct /\ sent[j].ct <= counter
    BY <2>1 DEF CInv, COrder
  <2>3. sent[i].ct = counter + 1 /\ sent[j].ct \in Nat
    BY <2>1, Fields DEF Accept, CInv
  <2> QED
    BY <1>1, <2>2, <2>3
<1>8. CASE phase = "waiting" /\ i = n
  <2>1. LateInclusions' = {}
    BY <1>1, <1>4, <1>5, <1>8 DEF LateInclusions
  <2>2. Unheard' /\ Last'.count = sent[i].count
    BY <1>4, <1>8 DEF Unheard, Last
  <2> QED
    BY <1>1, <1>3, <1>6, <2>1, <2>2 DEF CInv, CSync, RepetitionIsSafe
<1>9. CASE ~(phase = "waiting" /\ i = n)
  <2>1. LateInclusions' = {i}
    BY <1>1, <1>4, <1>5, <1>9 DEF LateInclusions
  <2>2. ~Unheard'
    <3>1. phase = "waiting" => n \in 1 .. n
      BY Fields DEF CInv, CType
    <3> QED
      BY <1>1, <1>4, <1>9, <3>1 DEF Unheard, Last
  <2>3. counter' + 1 > Base'
    <3>1. Base \in Int
      BY <1>1
    <3> QED
      BY <1>1, <1>3, <3>1
  <2>4. RepetitionIsSafe'
    <3> SUFFICES ASSUME NEW j \in i + 1 .. n PROVE sent'[j].status # "accepted"
      BY <1>4, <2>1 DEF RepetitionIsSafe
    <3>1. j \in 1 .. n /\ j # i
      BY <1>1
    <3> QED
      BY <1>4, <1>7, <3>1
  <2> QED
    BY <1>3, <1>6, <2>1, <2>2, <2>3, <2>4 DEF CInv, CSync
<1> QED
  BY <1>8, <1>9

\* Every step preserves the invariant.
LEMMA NextCInv == CInv /\ [ClientNext]_clientVars => CInv'
<1> SUFFICES ASSUME CInv, [ClientNext]_clientVars PROVE CInv'
  OBVIOUS
<1>1. CASE UNCHANGED clientVars
  BY <1>1
  DEF clientVars, CInv, CType, CTold, CBelow, CSync, COrder, RepetitionIsSafe,
      LateInclusions, Unheard, Base, Last
<1> QED
  BY <1>1, CallCInv, SendCInv, SuccessCInv, FailureCInv, DropCInv, AcceptCInv
  DEF ClientNext

------------------------------------------------------------------------------

\* The client's counter is the ledger's next one exactly as long as no
\* transaction it gave up was included.
THEOREM CountersAgree == ClientSpec => []CounterInSync
<1>1. CInv => CounterInSync
  <2> SUFFICES ASSUME CInv, phase \in {"idle", "sending"}
               PROVE  ct = counter + 1 <=> LateInclusions = {}
    BY DEF CounterInSync
  <2>1. Base = ct /\ ~Unheard /\ ct \in Nat /\ counter \in Nat
    BY DEF CInv, CType, Base, Unheard
  <2> QED
    BY <2>1 DEF CInv, CSync
<1> QED
  BY <1>1, InitCInv, NextCInv, PTL DEF ClientSpec

\* The types, and what the client waits for.
THEOREM ClientTypeCorrect == ClientSpec => []ClientTypeOK
<1>1. CInv => ClientTypeOK
  <2> SUFFICES ASSUME CInv PROVE ClientTypeOK
    OBVIOUS
  <2>1. phase = "waiting" => sent[Len(sent)].told = "nothing"
    BY Fields DEF CInv, CType, CTold
  <2> QED
    BY <2>1 DEF CInv, CType, ClientTypeOK, Records
<1> QED
  BY <1>1, InitCInv, NextCInv, PTL DEF ClientSpec

\* Of a transaction given up and those sent after it, which repeat it, one at
\* most is included, also where the client is told that the later one succeeded.
THEOREM RepetitionSafe == ClientSpec => []RepetitionIsSafe
<1>1. CInv => RepetitionIsSafe
  BY DEF CInv
<1> QED
  BY <1>1, InitCInv, NextCInv, PTL DEF ClientSpec

\* After a late inclusion nothing this client signs is ever included.
THEOREM LateInclusionFatal == ClientSpec => LateInclusionIsFatal
<1>1. CInv /\ [ClientNext]_clientVars =>
        [LateInclusions # {} => counter' = counter]_clientVars
  BY AcceptOnlyInSync
  DEF ClientNext, Call, Send, Success, Failure, Refuse, Lose, clientVars
<1> QED
  BY <1>1, InitCInv, NextCInv, PTL DEF ClientSpec, LateInclusionIsFatal
==============================================================================
