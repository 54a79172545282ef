--------------------------- MODULE SealedBidProofs ---------------------------
(***************************************************************************)
(* Theorems about the sealed-bid auction, for every set of accounts and    *)
(* every width of the bids.                                                *)
(***************************************************************************)
EXTENDS SealedBidAuction, TLAPS

\* What remove returns: one bid less, the last one in place of bid i.
LEMMA RemoveSeq ==
  ASSUME NEW bids \in Seq(BidData), NEW i \in 1 .. Len(bids)
  PROVE  /\ Remove(bids, i) \in Seq(BidData)
         /\ Len(Remove(bids, i)) = Len(bids) - 1
         /\ \A j \in 1 .. Len(bids) - 1 :
              Remove(bids, i)[j] = IF j = i THEN bids[Len(bids)] ELSE bids[j]
<1> DEFINE moved == [bids EXCEPT ![i] = bids[Len(bids)]]
<1>1. /\ moved \in Seq(BidData)
      /\ Len(moved) = Len(bids)
      /\ \A j \in 1 .. Len(bids) : moved[j] = IF j = i THEN bids[Len(bids)] ELSE bids[j]
  OBVIOUS
<1>2. /\ SubSeq(moved, 1, Len(bids) - 1) \in Seq(BidData)
      /\ Len(SubSeq(moved, 1, Len(bids) - 1)) = Len(bids) - 1
      /\ \A j \in 1 .. Len(bids) - 1 : SubSeq(moved, 1, Len(bids) - 1)[j] = moved[j]
  <2> HIDE DEF moved
  <2> QED
    BY <1>1
<1> QED
  BY <1>1, <1>2 DEF Remove

\* An award that counts was made after "close".
AwardCoherent ==
  award.final => auction.State = "CLOSED"

\* Nobody bids before Spawn.
AbsentCoherent ==
  auction.State = "ABSENT" => auction = Absent /\ award.bid = -1 /\ ~award.final

\* The inductive invariant.
IInv ==
  /\ TypeOK
  /\ AwardCoherent
  /\ AbsentCoherent
  /\ OneEntryPerAccount
  /\ FinalAwardIsBest

\* The initial state satisfies it.
LEMMA InitIInv == Init => IInv
<1> SUFFICES ASSUME Init PROVE IInv
  OBVIOUS
<1>1. auction.Bids = <<>> /\ Len(auction.Bids) = 0
  BY DEF Init, Absent
<1>2. TypeOK
  BY SBAccountAssumption, BidAssumption DEF Init, Absent, TypeOK, Amounts
<1>3. AwardCoherent /\ AbsentCoherent
  BY DEF Init, AwardCoherent, AbsentCoherent
<1>4. OneEntryPerAccount /\ FinalAwardIsBest
  BY <1>1 DEF OneEntryPerAccount, FinalAwardIsBest
<1> QED
  BY <1>2, <1>3, <1>4 DEF IInv

\* searchBidder returns the entry of the account, if it has one.
LEMMA FirstEntry ==
  ASSUME TypeOK, OneEntryPerAccount, NEW a \in Accounts, EntriesOf(a) # {}
  PROVE  /\ First(EntriesOf(a)) \in 1 .. Len(auction.Bids)
         /\ auction.Bids[First(EntriesOf(a))].BidderAccount = a
<1>1. PICK i \in EntriesOf(a) : TRUE
  OBVIOUS
<1>2. i \in 1 .. Len(auction.Bids) /\ auction.Bids[i].BidderAccount = a
  BY <1>1 DEF EntriesOf
<1>3. \A j \in EntriesOf(a) : j = i
  BY <1>2 DEF EntriesOf, OneEntryPerAccount
<1>4. First(EntriesOf(a)) \in EntriesOf(a)
  <2>1. \A j \in EntriesOf(a) : i <= j
    BY <1>2, <1>3
  <2> QED
    BY <1>1, <2>1 DEF First
<1> QED
  BY <1>2, <1>3, <1>4

\* Spawning preserves the invariant.
LEMMA SpawnIInv ==
  ASSUME IInv, NEW reserve \in Amounts, Spawn(reserve)
  PROVE  IInv'
<1>1. /\ auction' = [State |-> "OPEN", ReservePrice |-> reserve, Bids |-> <<>>,
                      WinnerAccount |-> NoAccount]
      /\ auction'.State = "OPEN"
      /\ auction'.Bids = <<>>
      /\ Len(auction'.Bids) = 0
      /\ award' = award
      /\ ~award.final
  BY DEF Spawn, Absent, IInv, AbsentCoherent
<1>2. TypeOK'
  BY <1>1 DEF IInv, TypeOK
<1>3. AwardCoherent' /\ AbsentCoherent'
  BY <1>1 DEF AwardCoherent, AbsentCoherent
<1>4. OneEntryPerAccount' /\ FinalAwardIsBest'
  BY <1>1 DEF OneEntryPerAccount, FinalAwardIsBest
<1> QED
  BY <1>2, <1>3, <1>4 DEF IInv

\* Closing preserves the invariant.
LEMMA CloseIInv ==
  ASSUME IInv, Close
  PROVE  IInv'
<1>1. /\ auction'.State = "CLOSED"
      /\ auction'.Bids = auction.Bids
      /\ award' = award
  BY DEF Close, IInv, TypeOK
<1>2. TypeOK'
  BY DEF Close, IInv, TypeOK
<1>3. AwardCoherent' /\ AbsentCoherent'
  BY <1>1 DEF AwardCoherent, AbsentCoherent
<1>4. OneEntryPerAccount' /\ FinalAwardIsBest'
  BY <1>1 DEF IInv, OneEntryPerAccount, FinalAwardIsBest
<1> QED
  BY <1>2, <1>3, <1>4 DEF IInv

\* A first bid preserves the invariant.
LEMMA FirstBidIInv ==
  ASSUME IInv, NEW a \in Accounts, NEW b \in Amounts, auction.State = "OPEN",
         FirstBid(a, b), award' = award
  PROVE  IInv'
<1> DEFINE bids == auction.Bids
           entry == [BidderAccount |-> a, Bid |-> b]
<1>1. bids \in Seq(BidData) /\ entry \in BidData
  BY DEF IInv, TypeOK, BidData
<1>2. /\ auction'.State = "OPEN"
      /\ auction'.Bids = Append(bids, entry)
  BY DEF FirstBid, IInv, TypeOK
<1>3. /\ auction'.Bids \in Seq(BidData)
      /\ Len(auction'.Bids) = Len(bids) + 1
      /\ auction'.Bids[Len(bids) + 1] = entry
      /\ \A i \in 1 .. Len(bids) : auction'.Bids[i] = bids[i]
  BY <1>1, <1>2
<1>4. TypeOK'
  BY <1>3 DEF FirstBid, IInv, TypeOK
<1>5. AwardCoherent' /\ AbsentCoherent' /\ FinalAwardIsBest'
  BY <1>2 DEF IInv, AwardCoherent, AbsentCoherent, FinalAwardIsBest
<1>6. \A i \in 1 .. Len(bids) : bids[i].BidderAccount # a
  BY DEF FirstBid, EntriesOf
<1>7. OneEntryPerAccount'
  <2> SUFFICES ASSUME NEW i \in 1 .. Len(bids) + 1, NEW j \in 1 .. Len(bids) + 1,
                      auction'.Bids[i].BidderAccount = auction'.Bids[j].BidderAccount
               PROVE  i = j
    BY <1>3 DEF OneEntryPerAccount
  <2>1. Len(bids) \in Nat /\ entry.BidderAccount = a
    BY <1>1
  <2>2. CASE i \in 1 .. Len(bids) /\ j \in 1 .. Len(bids)
    BY <1>3, <2>2 DEF IInv, OneEntryPerAccount
  <2>3. CASE i = Len(bids) + 1 /\ j \in 1 .. Len(bids)
    BY <1>3, <1>6, <2>1, <2>3
  <2>4. CASE j = Len(bids) + 1 /\ i \in 1 .. Len(bids)
    BY <1>3, <1>6, <2>1, <2>4
  <2> HIDE DEF bids
  <2> QED
    BY <2>1, <2>2, <2>3, <2>4
<1> QED
  BY <1>4, <1>5, <1>7 DEF IInv

\* A higher bid of the same account preserves the invariant.
LEMMA UpdateBidIInv ==
  ASSUME IInv, NEW a \in Accounts, NEW b \in Amounts, auction.State = "OPEN",
         UpdateBid(a, b), award' = award
  PROVE  IInv'
<1> DEFINE bids == auction.Bids
           i == First(EntriesOf(a))
<1>1. i \in 1 .. Len(bids) /\ bids[i].BidderAccount = a
  BY FirstEntry DEF UpdateBid, IInv
<1>2. bids \in Seq(BidData)
  BY DEF IInv, TypeOK
<1>3. /\ auction'.State = "OPEN"
      /\ auction'.Bids = [bids EXCEPT ![i].Bid = b]
  BY DEF UpdateBid, IInv, TypeOK
<1>4. /\ auction'.Bids \in Seq(BidData)
      /\ Len(auction'.Bids) = Len(bids)
      /\ \A j \in 1 .. Len(bids) :
           auction'.Bids[j].BidderAccount = bids[j].BidderAccount
  <2> DEFINE entry == [bids[i] EXCEPT !.Bid = b]
  <2>1. bids[i] \in BidData
    BY <1>1, <1>2
  <2>2. entry \in BidData /\ entry.BidderAccount = bids[i].BidderAccount
    BY <2>1 DEF BidData
  <2>3. auction'.Bids = [bids EXCEPT ![i] = entry]
    BY <1>3, Zenon
  <2> HIDE DEF i, entry
  <2> QED
    BY <1>1, <1>2, <2>2, <2>3
<1>5. TypeOK'
  BY <1>4 DEF UpdateBid, IInv, TypeOK
<1>6. AwardCoherent' /\ AbsentCoherent' /\ FinalAwardIsBest'
  BY <1>3 DEF IInv, AwardCoherent, AbsentCoherent, FinalAwardIsBest
<1>7. OneEntryPerAccount'
  BY <1>4 DEF IInv, OneEntryPerAccount
<1> QED
  BY <1>5, <1>6, <1>7 DEF IInv

\* Awarding the good preserves the invariant.
LEMMA ProcessIInv ==
  ASSUME IInv, Process
  PROVE  IInv'
<1> DEFINE bids == auction.Bids
<1>1. PICK i \in 1 .. Len(bids) :
        /\ IsWinner(bids, i)
        /\ auction' = [auction EXCEPT !.Bids = Remove(@, i),
                                      !.WinnerAccount = bids[i].BidderAccount]
        /\ award' = [bid |-> bids[i].Bid, final |-> auction.State = "CLOSED"]
  BY DEF Process
<1>2. bids \in Seq(BidData) /\ bids[i] \in BidData /\ Len(bids) \in Nat
  BY <1>1 DEF IInv, TypeOK
<1>3. /\ auction'.State = auction.State
      /\ auction'.Bids = Remove(bids, i)
      /\ award'.bid = bids[i].Bid
      /\ award'.final <=> auction.State = "CLOSED"
  BY <1>1 DEF IInv, TypeOK
<1>4. /\ auction'.Bids \in Seq(BidData)
      /\ Len(auction'.Bids) = Len(bids) - 1
      /\ \A j \in 1 .. Len(bids) - 1 :
           auction'.Bids[j] = IF j = i THEN bids[Len(bids)] ELSE bids[j]
  <2> HIDE DEF bids
  <2>1. i \in 1 .. Len(bids)
    BY <1>1
  <2>2. /\ Remove(bids, i) \in Seq(BidData)
        /\ Len(Remove(bids, i)) = Len(bids) - 1
        /\ \A j \in 1 .. Len(bids) - 1 :
             Remove(bids, i)[j] = IF j = i THEN bids[Len(bids)] ELSE bids[j]
    BY <1>2, <2>1, RemoveSeq, Zenon
  <2> QED
    BY <1>3, <2>2
<1>5. TypeOK'
  BY <1>1, <1>2, <1>4 DEF IInv, TypeOK, BidData
<1>6. AwardCoherent' /\ AbsentCoherent'
  BY <1>3 DEF Process, IInv, AwardCoherent, AbsentCoherent
<1>7. FinalAwardIsBest'
  BY <1>1, <1>2, <1>3, <1>4 DEF FinalAwardIsBest, IsWinner
<1>8. OneEntryPerAccount'
  <2> DEFINE from(j) == IF j = i THEN Len(bids) ELSE j
  <2> SUFFICES ASSUME NEW j \in 1 .. Len(bids) - 1, NEW k \in 1 .. Len(bids) - 1,
                      auction'.Bids[j].BidderAccount = auction'.Bids[k].BidderAccount
               PROVE  j = k
    BY <1>4 DEF OneEntryPerAccount
  <2>1. /\ from(j) \in 1 .. Len(bids)
        /\ from(k) \in 1 .. Len(bids)
    BY <1>2
  <2>2. /\ auction'.Bids[j] = bids[from(j)]
        /\ auction'.Bids[k] = bids[from(k)]
    BY <1>4
  <2>3. from(j) = from(k)
    BY <2>1, <2>2 DEF IInv, OneEntryPerAccount
  <2> QED
    BY <1>2, <2>3
<1> QED
  BY <1>5, <1>6, <1>7, <1>8 DEF IInv

\* Every step preserves the invariant.
LEMMA NextIInv == IInv /\ [Next]_vars => IInv'
<1> SUFFICES ASSUME IInv, [Next]_vars PROVE IInv'
  OBVIOUS
<1>1. CASE \E reserve \in Amounts : Spawn(reserve)
  BY <1>1, SpawnIInv
<1>2. CASE \E a \in Accounts, b \in Amounts : Bid(a, b)
  BY <1>2, FirstBidIInv, UpdateBidIInv DEF Bid
<1>3. CASE Close
  BY <1>3, CloseIInv
<1>4. CASE Process
  BY <1>4, ProcessIInv
<1>5. CASE UNCHANGED vars
  BY <1>5 DEF vars, IInv, TypeOK, AwardCoherent, AbsentCoherent,
              OneEntryPerAccount, FinalAwardIsBest
<1> QED
  BY <1>1, <1>2, <1>3, <1>4, <1>5 DEF Next

\* The list of bids stays a list of bids, whatever is removed from it.
THEOREM SBTypeCorrect == Spec => []TypeOK
<1>1. IInv => TypeOK
  BY DEF IInv
<1> QED
  BY <1>1, InitIInv, NextIInv, PTL DEF Spec

\* However often the list is searched, appended to and shrunk by moving its
\* last element, no account has two entries.
THEOREM OneEntry == Spec => []OneEntryPerAccount
<1>1. IInv => OneEntryPerAccount
  BY DEF IInv
<1> QED
  BY <1>1, InitIInv, NextIInv, PTL DEF Spec

\* No bid on record is higher than one that won after the close.
THEOREM FinalAward == Spec => []FinalAwardIsBest
<1>1. IInv => FinalAwardIsBest
  BY DEF IInv
<1> QED
  BY <1>1, InitIInv, NextIInv, PTL DEF Spec

------------------------------------------------------------------------------

\* The offer of an account is that of its only entry.
LEMMA OfferOfEntry ==
  IInv => \A a \in Accounts :
            /\ \A i \in 1 .. Len(auction.Bids) :
                 auction.Bids[i].BidderAccount = a => OfferOf(a) = auction.Bids[i].Bid
            /\ (\A i \in 1 .. Len(auction.Bids) : auction.Bids[i].BidderAccount # a)
                 => OfferOf(a) = -1
<1> SUFFICES ASSUME IInv, NEW a \in Accounts
             PROVE  /\ \A i \in 1 .. Len(auction.Bids) :
                         auction.Bids[i].BidderAccount = a
                           => OfferOf(a) = auction.Bids[i].Bid
                    /\ (\A i \in 1 .. Len(auction.Bids) :
                          auction.Bids[i].BidderAccount # a) => OfferOf(a) = -1
  OBVIOUS
<1>1. ASSUME NEW i \in 1 .. Len(auction.Bids), auction.Bids[i].BidderAccount = a
      PROVE  OfferOf(a) = auction.Bids[i].Bid
  <2>1. EntriesOf(a) # {}
    BY <1>1 DEF EntriesOf
  <2>2. First(EntriesOf(a)) = i
    BY <1>1, <2>1, FirstEntry DEF IInv, OneEntryPerAccount
  <2> QED
    BY <2>1, <2>2 DEF OfferOf
<1>2. ASSUME \A i \in 1 .. Len(auction.Bids) : auction.Bids[i].BidderAccount # a
      PROVE  OfferOf(a) = -1
  BY <1>2 DEF OfferOf, EntriesOf
<1> QED
  BY <1>1, <1>2

\* The same after a step.
LEMMA OfferOfEntryNext ==
  IInv' => \A a \in Accounts :
             /\ \A i \in 1 .. Len(auction'.Bids) :
                  auction'.Bids[i].BidderAccount = a
                    => OfferOf(a)' = auction'.Bids[i].Bid
             /\ (\A i \in 1 .. Len(auction'.Bids) : auction'.Bids[i].BidderAccount # a)
                  => OfferOf(a)' = -1
<1>1. (IInv => \A a \in Accounts :
            /\ \A i \in 1 .. Len(auction.Bids) :
                 auction.Bids[i].BidderAccount = a => OfferOf(a) = auction.Bids[i].Bid
            /\ (\A i \in 1 .. Len(auction.Bids) : auction.Bids[i].BidderAccount # a)
                 => OfferOf(a) = -1)'
  BY OfferOfEntry, PTL
<1> QED
  BY <1>1

\* The offers, as the refinement mapping has them.
Offer == [a \in Accounts |-> OfferOf(a)]

\* Unchanged entries are unchanged offers.
LEMMA SameOffers ==
  ASSUME auction'.Bids = auction.Bids
  PROVE  Offer' = Offer
  BY DEF Offer, OfferOf, EntriesOf, First

\* The initial states correspond.
LEMMA InitRefines == Init => Sealed!Init
<1> SUFFICES ASSUME Init PROVE Sealed!Init
  OBVIOUS
<1>1. auction.State = "ABSENT" /\ auction.ReservePrice = 0 /\ Len(auction.Bids) = 0
      /\ auction.WinnerAccount = NoAccount /\ award.bid = -1
  BY DEF Init, Absent
<1>2. \A a \in Accounts : OfferOf(a) = -1
  BY <1>1 DEF OfferOf, EntriesOf
<1> QED
  BY <1>1, <1>2 DEF Sealed!Init, Sealed!NoOffer, PhaseOf

\* Spawning opens the auction.
LEMMA SpawnRefines ==
  ASSUME IInv, NEW reserve \in Amounts, Spawn(reserve)
  PROVE  Sealed!Next
<1>1. /\ auction = Absent /\ auction.State = "ABSENT" /\ award' = award
      /\ auction' = [Absent EXCEPT !.State = "OPEN", !.ReservePrice = reserve]
  BY DEF IInv, AbsentCoherent, Spawn
<1>2. /\ auction'.State = "OPEN" /\ auction'.ReservePrice = reserve
      /\ auction'.Bids = auction.Bids /\ auction'.WinnerAccount = auction.WinnerAccount
  BY <1>1 DEF Absent
<1>3. Offer' = Offer
  BY <1>2, SameOffers
<1>4. Sealed!Open(reserve)
  BY <1>1, <1>2, <1>3 DEF Sealed!Open, PhaseOf, Offer
<1> QED
  BY <1>4 DEF Sealed!Next

\* Closing an open auction closes it; closing it again is no step.
LEMMA CloseRefines ==
  ASSUME IInv, Close
  PROVE  Sealed!Close \/ UNCHANGED Sealed!vars
<1>1. /\ auction.State \in {"OPEN", "CLOSED"} /\ award' = award
      /\ auction'.State = "CLOSED" /\ auction'.ReservePrice = auction.ReservePrice
      /\ auction'.Bids = auction.Bids /\ auction'.WinnerAccount = auction.WinnerAccount
  BY DEF IInv, TypeOK, Close
<1>2. Offer' = Offer
  BY <1>1, SameOffers
<1>3. CASE auction.State = "OPEN"
  BY <1>1, <1>2, <1>3 DEF Sealed!Close, PhaseOf, Offer
<1>4. CASE auction.State = "CLOSED"
  BY <1>1, <1>2, <1>4 DEF Sealed!vars, PhaseOf, Offer
<1> QED
  BY <1>1, <1>3, <1>4

\* A bid submits one offer: what is left to show of one that changes only the
\* offer of its account.
LEMMA SubmitRefines ==
  ASSUME NEW a \in Accounts, NEW b \in Amounts, auction.State = "OPEN",
         auction'.State = "OPEN", auction'.ReservePrice = auction.ReservePrice,
         auction'.WinnerAccount = auction.WinnerAccount, award' = award,
         OfferOf(a) <= b, OfferOf(a)' = b,
         \A other \in Accounts \ {a} : OfferOf(other)' = OfferOf(other)
  PROVE  Sealed!Next
<1>1. Offer' = [Offer EXCEPT ![a] = b] /\ Offer[a] <= b
  BY DEF Offer
<1>2. Sealed!Submit(a, b)
  BY <1>1 DEF Sealed!Submit, PhaseOf, Offer
<1> QED
  BY <1>2 DEF Sealed!Next

LEMMA FirstBidRefines ==
  ASSUME IInv, IInv', NEW a \in Accounts, NEW b \in Amounts, auction.State = "OPEN",
         FirstBid(a, b), award' = award
  PROVE  Sealed!Next
<1> PICK bids : bids = auction.Bids
  OBVIOUS
<1> PICK entry : entry = [BidderAccount |-> a, Bid |-> b]
  OBVIOUS
<1>1. bids \in Seq(BidData) /\ entry \in BidData /\ Len(bids) \in Nat
      /\ entry.BidderAccount = a /\ entry.Bid = b
  BY DEF IInv, TypeOK, BidData
<1>2. /\ auction'.State = "OPEN" /\ auction'.ReservePrice = auction.ReservePrice
      /\ auction'.Bids = Append(bids, entry)
      /\ auction'.WinnerAccount = auction.WinnerAccount
  BY DEF FirstBid, IInv, TypeOK
<1>3. /\ Len(auction'.Bids) = Len(bids) + 1
      /\ auction'.Bids[Len(bids) + 1] = entry
      /\ \A i \in 1 .. Len(bids) : auction'.Bids[i] = bids[i]
  BY <1>1, <1>2
<1>4. \A i \in 1 .. Len(bids) : bids[i].BidderAccount # a
  BY DEF FirstBid, EntriesOf
<1>5. OfferOf(a) = -1 /\ OfferOf(a)' = b
  BY <1>1, <1>3, <1>4, OfferOfEntry, OfferOfEntryNext
<1>6. ASSUME NEW other \in Accounts \ {a} PROVE OfferOf(other)' = OfferOf(other)
  <2>1. CASE \E i \in 1 .. Len(bids) : bids[i].BidderAccount = other
    <3>1. PICK i \in 1 .. Len(bids) : bids[i].BidderAccount = other
      BY <2>1
    <3>2. i \in 1 .. Len(auction'.Bids) /\ auction'.Bids[i] = bids[i]
      BY <1>1, <1>3
    <3> QED
      BY <3>1, <3>2, OfferOfEntry, OfferOfEntryNext
  <2>2. CASE \A i \in 1 .. Len(bids) : bids[i].BidderAccount # other
    <3>1. \A i \in 1 .. Len(auction'.Bids) : auction'.Bids[i].BidderAccount # other
      <4>1. ASSUME NEW i \in 1 .. Len(auction'.Bids)
            PROVE  i \in 1 .. Len(bids) \/ i = Len(bids) + 1
        BY <1>1, <1>3
      <4> QED
        BY <1>1, <1>3, <2>2, <4>1
    <3> QED
      BY <2>2, <3>1, OfferOfEntry, OfferOfEntryNext
  <2> QED
    BY <2>1, <2>2
<1>7. OfferOf(a) <= b
  BY <1>5, BidAssumption DEF Amounts
<1> QED
  BY <1>2, <1>5, <1>6, <1>7, SubmitRefines

LEMMA UpdateBidRefines ==
  ASSUME IInv, IInv', NEW a \in Accounts, NEW b \in Amounts, auction.State = "OPEN",
         UpdateBid(a, b), award' = award
  PROVE  Sealed!Next
<1> PICK bids : bids = auction.Bids
  OBVIOUS
<1> PICK i : i = First(EntriesOf(a))
  OBVIOUS
<1>1. i \in 1 .. Len(bids) /\ bids[i].BidderAccount = a
  BY FirstEntry DEF UpdateBid, IInv
<1>2. bids \in Seq(BidData) /\ bids[i] \in BidData
  BY <1>1 DEF IInv, TypeOK
<1>3. /\ auction'.State = "OPEN" /\ auction'.ReservePrice = auction.ReservePrice
      /\ auction'.Bids = [bids EXCEPT ![i].Bid = b]
      /\ auction'.WinnerAccount = auction.WinnerAccount
  BY DEF UpdateBid, IInv, TypeOK
<1>4. /\ Len(auction'.Bids) = Len(bids)
      /\ auction'.Bids[i].BidderAccount = a /\ auction'.Bids[i].Bid = b
      /\ \A j \in 1 .. Len(bids) \ {i} : auction'.Bids[j] = bids[j]
  <2> DEFINE entry == [bids[i] EXCEPT !.Bid = b]
  <2>1. entry \in BidData /\ entry.BidderAccount = a /\ entry.Bid = b
    BY <1>1, <1>2 DEF BidData
  <2>2. auction'.Bids = [bids EXCEPT ![i] = entry]
    BY <1>3, Zenon
  <2> HIDE DEF entry
  <2> QED
    BY <1>1, <1>2, <2>1, <2>2
<1>5. bids[i].Bid <= b
  BY DEF UpdateBid, IInv, TypeOK, Amounts
<1>6. OfferOf(a) = bids[i].Bid /\ OfferOf(a)' = b
  BY <1>1, <1>4, OfferOfEntry, OfferOfEntryNext
<1>7. \A j \in 1 .. Len(bids) : auction'.Bids[j].BidderAccount = bids[j].BidderAccount
  BY <1>1, <1>4
<1>8. ASSUME NEW other \in Accounts \ {a} PROVE OfferOf(other)' = OfferOf(other)
  <2>1. CASE \E j \in 1 .. Len(bids) : bids[j].BidderAccount = other
    <3>1. PICK j \in 1 .. Len(bids) : bids[j].BidderAccount = other
      BY <2>1
    <3>2. auction'.Bids[j] = bids[j]
      BY <1>1, <1>4, <3>1
    <3> QED
      BY <1>4, <3>1, <3>2, OfferOfEntry, OfferOfEntryNext
  <2>2. CASE \A j \in 1 .. Len(bids) : bids[j].BidderAccount # other
    BY <1>4, <1>7, <2>2, OfferOfEntry, OfferOfEntryNext
  <2> QED
    BY <2>1, <2>2
<1> QED
  BY <1>3, <1>5, <1>6, <1>8, SubmitRefines

\* "process" is an award.
LEMMA ProcessRefines ==
  ASSUME IInv, IInv', Process
  PROVE  Sealed!Next
<1> PICK bids : bids = auction.Bids
  OBVIOUS
<1>1. PICK i \in 1 .. Len(bids) :
        /\ IsWinner(bids, i)
        /\ bids[i].Bid > auction.ReservePrice
        /\ auction' = [auction EXCEPT !.Bids = Remove(@, i),
                                      !.WinnerAccount = bids[i].BidderAccount]
        /\ award' = [bid |-> bids[i].Bid, final |-> auction.State = "CLOSED"]
  BY DEF Process
<1> PICK a : a = bids[i].BidderAccount
  OBVIOUS
<1>2. bids \in Seq(BidData) /\ bids[i] \in BidData /\ Len(bids) \in Nat /\ a \in Accounts
  <2>1. bids \in Seq(BidData)
    BY DEF IInv, TypeOK
  <2>2. bids[i] \in BidData /\ Len(bids) \in Nat
    BY <1>1, <2>1
  <2> QED
    BY <2>1, <2>2 DEF BidData
<1>3. /\ auction'.State = auction.State /\ auction'.Bids = Remove(bids, i)
      /\ auction'.ReservePrice = auction.ReservePrice
      /\ auction'.WinnerAccount = a /\ award'.bid = bids[i].Bid
  BY <1>1 DEF IInv, TypeOK
<1>4. /\ Len(auction'.Bids) = Len(bids) - 1
      /\ \A j \in 1 .. Len(bids) - 1 :
           auction'.Bids[j] = IF j = i THEN bids[Len(bids)] ELSE bids[j]
  BY <1>1, <1>2, <1>3, RemoveSeq
<1>5. OfferOf(a) = bids[i].Bid
  BY <1>1, <1>2, OfferOfEntry
<1>6. \A j \in 1 .. Len(bids) : bids[j].BidderAccount = a => j = i
  BY <1>1 DEF IInv, OneEntryPerAccount
<1>7. OfferOf(a)' = -1
  <2>1. ASSUME NEW j \in 1 .. Len(bids) - 1 PROVE auction'.Bids[j].BidderAccount # a
    <3>1. CASE j = i
      <4>1. Len(bids) \in 1 .. Len(bids) /\ Len(bids) # i
        BY <1>2, <3>1
      <4> QED
        BY <1>4, <1>6, <3>1, <4>1
    <3>2. CASE j # i
      BY <1>2, <1>4, <1>6, <3>2
    <3> QED
      BY <3>1, <3>2
  <2> QED
    BY <1>2, <1>4, <2>1, OfferOfEntryNext
<1>8. ASSUME NEW other \in Accounts \ {a} PROVE OfferOf(other)' = OfferOf(other)
  <2>1. CASE \E j \in 1 .. Len(bids) : bids[j].BidderAccount = other
    <3>1. PICK j \in 1 .. Len(bids) : bids[j].BidderAccount = other
      BY <2>1
    <3>2. j # i
      BY <3>1
    <3>3. PICK k \in 1 .. Len(bids) - 1 : auction'.Bids[k] = bids[j]
      <4>1. CASE j = Len(bids)
        <5>1. i \in 1 .. Len(bids) - 1 /\ auction'.Bids[i] = bids[j]
          BY <1>1, <1>2, <1>4, <3>2, <4>1
        <5> QED
          BY <5>1
      <4>2. CASE j # Len(bids)
        <5>1. j \in 1 .. Len(bids) - 1 /\ auction'.Bids[j] = bids[j]
          BY <1>2, <1>4, <3>2, <4>2
        <5> QED
          BY <5>1
      <4> QED
        BY <4>1, <4>2
    <3> QED
      BY <1>4, <3>1, <3>3, OfferOfEntry, OfferOfEntryNext
  <2>2. CASE \A j \in 1 .. Len(bids) : bids[j].BidderAccount # other
    <3>1. \A j \in 1 .. Len(bids) - 1 : auction'.Bids[j].BidderAccount # other
      BY <1>1, <1>2, <1>4, <2>2
    <3> QED
      BY <1>4, <2>2, <3>1, OfferOfEntry, OfferOfEntryNext
  <2> QED
    BY <2>1, <2>2
<1>9. \A other \in Accounts : OfferOf(other) <= OfferOf(a)
  <2> SUFFICES ASSUME NEW other \in Accounts PROVE OfferOf(other) <= OfferOf(a)
    OBVIOUS
  <2>1. CASE \E j \in 1 .. Len(bids) : bids[j].BidderAccount = other
    BY <1>1, <1>5, <2>1, OfferOfEntry DEF IsWinner
  <2>2. CASE \A j \in 1 .. Len(bids) : bids[j].BidderAccount # other
    <3>1. OfferOf(other) = -1
      BY <2>2, OfferOfEntry
    <3>2. bids[i].Bid \in Nat
      BY <1>2, BidAssumption DEF BidData, Amounts
    <3> QED
      BY <1>5, <3>1, <3>2
  <2> QED
    BY <2>1, <2>2
<1>10. /\ Offer' = [Offer EXCEPT ![a] = -1] /\ Offer[a] = bids[i].Bid
       /\ \A other \in Accounts : Offer[other] <= Offer[a]
  BY <1>2, <1>5, <1>7, <1>8, <1>9 DEF Offer
<1>11. PhaseOf(auction.State) # "announced"
  BY DEF Process, IInv, TypeOK, PhaseOf
<1>12. Sealed!Award(a)
  BY <1>1, <1>3, <1>10, <1>11 DEF Sealed!Award, Sealed!NoOffer, Offer
<1> QED
  BY <1>2, <1>12 DEF Sealed!Next

\* Every step of the contract is a step of the sealed offers, or none.
LEMMA NextRefines == IInv /\ IInv' /\ [Next]_vars => [Sealed!Next]_(Sealed!vars)
<1> SUFFICES ASSUME IInv, IInv', [Next]_vars
             PROVE  Sealed!Next \/ UNCHANGED Sealed!vars
  OBVIOUS
<1>1. CASE UNCHANGED vars
  BY <1>1, SameOffers DEF vars, Sealed!vars, Offer
<1> QED
  BY <1>1, SpawnRefines, FirstBidRefines, UpdateBidRefines, CloseRefines, ProcessRefines
  DEF Next, Bid, Sealed!Next

\* The list of bids implements one offer per bidder.
THEOREM OffersImplemented == Spec => ImplementsSealedOffers
<1>1. Init => Sealed!Init
  BY InitRefines
<1> QED
  BY <1>1, InitIInv, NextIInv, NextRefines, PTL
  DEF Spec, ImplementsSealedOffers, Sealed!Spec
==============================================================================
