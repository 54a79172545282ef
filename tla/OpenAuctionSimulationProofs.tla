---------------------- MODULE OpenAuctionSimulationProofs ----------------------
(***************************************************************************)
(* The script of the simulation is right: whatever the numbers of auctions,*)
(* bidders and rounds, and however far the client runs ahead, the ledger   *)
(* executes a prefix of the script, in order, and refuses nothing but what *)
(* follows a lost transaction.                                             *)
(***************************************************************************)
EXTENDS OpenAuctionSimulation, SequenceTheorems, TLAPS

\* The auctions and bids of all rounds, the lengths of the script's parts.
AllAuctions == Rounds * Auctions
AllBids == Rounds * Bids

\* How many transactions create the accounts and the auctions and mint, which
\* of them spawns the auction that bids go to, and how many there are in all.
Prepared == AllAuctions + 3
Spawned == (Rounds - 1) * Auctions + 2
Last == Prepared + AllBids + 1

\* The ledger's counter after i transactions of the script.
CtAt(i) ==
  IF i = 0 THEN 0
  ELSE IF i <= AllAuctions + 1 THEN Auctions + i - 1
  ELSE IF i = AllAuctions + 2 THEN Auctions + AllAuctions + Bids
  ELSE IF i < Last THEN Auctions + AllAuctions + 2 * Bids + 2 * (i - Prepared)
  ELSE Auctions + AllAuctions + 2 * Bids + 2 * AllBids + 1

\* How many bids the first i transactions place, and who places the k-th.
BidsAt(i) == IF i <= Prepared THEN 0 ELSE IF i < Last THEN i - Prepared ELSE AllBids
BidderOf(k) == Bidders[((k - 1) % Bids) + 1]

\* What the first i transactions make of auction and accounts.
AuctionAt(i) ==
  LET k == BidsAt(i)
  IN  [State |-> IF i < Spawned THEN "ABSENT"
                 ELSE IF i < Last THEN "OPEN" ELSE "WCLOSED",
       SellerAccount |-> IF i < Spawned THEN NoAccount ELSE Seller,
       ReservePrice |-> IF i < Spawned THEN Empty ELSE Hash(Salt, 0),
       HighestBid |-> k,
       HighestBidder |-> IF k = 0 THEN NoAccount ELSE BidderOf(k),
       WinProof |-> IF k = 0 THEN Empty ELSE PubKey[BidderOf(k)]]

BalanceAt(i) ==
  LET k == BidsAt(i)
  IN  [a \in Accounts |->
         (IF i >= Prepared /\ a \in Funded THEN Coins ELSE 0)
           - (IF k > 0 /\ a = BidderOf(k) THEN k ELSE 0)
           + (IF i = Last /\ a = Seller THEN k ELSE 0)]

\* The p-th transaction as the client sends it, and the first n of them.
Expected(p) == [tx |-> Script[p], ct |-> 1 + CtAt(p - 1)]
ExpectedUpTo(n) == {Expected(p) : p \in 1 .. n}

\* The ledger has executed the first e transactions.
Executed(e) ==
  /\ counter = CtAt(e)
  /\ auction = AuctionAt(e)
  /\ balance = BalanceAt(e)

\* The ones pending were sent, and are the next ones if nothing was lost.
PendingSent ==
  /\ pending \in Seq(ExpectedUpTo(sent))
  /\ ~lost => \A e \in 0 .. sent : counter = CtAt(e) =>
       /\ Len(pending) = sent - e
       /\ \A i \in 1 .. Len(pending) : pending[i] = Expected(e + i)

\* The inductive invariant.
SimInv ==
  /\ sent \in 0 .. Last
  /\ ct = 1 + CtAt(sent)
  /\ \E e \in 0 .. sent : Executed(e)
  /\ PendingSent
  /\ ~lost => /\ phase \notin {"refused", "wrong amount"}
              /\ phase = "sending" /\ sent = Last => pending = <<>>

------------------------------------------------------------------------------

\* What the assumptions say about the numbers.
LEMMA Numbers ==
  /\ Bids \in Nat \ {0} /\ Auctions \in Nat \ {0} /\ Rounds \in Nat \ {0}
  /\ AllAuctions \in Nat /\ AllAuctions >= Auctions
  /\ AllBids \in Nat /\ AllBids >= Bids /\ AllBids = Bids * Rounds
  /\ (Rounds - 1) * Auctions = AllAuctions - Auctions
  /\ Spawned = AllAuctions - Auctions + 2
  /\ Prepared = AllAuctions + 3 /\ Last = AllAuctions + AllBids + 4
  /\ Coins \in Nat /\ MaxCoin \in Nat /\ AllBids <= Coins /\ Coins <= MaxCoin
  /\ Bids = 1 => Coins + 1 >= 2 * AllBids
<1>1. Bids \in Nat \ {0} /\ Auctions \in Nat \ {0} /\ Rounds \in Nat \ {0}
  BY SimulationAssumption, LenProperties DEF Bids
<1>2. \A m, n \in Nat \ {0} : /\ m * n \in Nat /\ m * n >= n /\ m * n = n * m
                              /\ (m - 1) * n = m * n - n
  OBVIOUS
<1>3. Bids = 1 => AllBids = Rounds
  BY <1>1 DEF AllBids
<1>4. Coins \in Bids * Rounds .. MaxCoin /\ Bids * Rounds \in Nat /\ MaxCoin \in Nat
  BY <1>1, <1>2, SimulationAssumption, AmountAssumption
<1>5. /\ AllAuctions \in Nat /\ AllAuctions >= Auctions
      /\ AllBids \in Nat /\ AllBids >= Bids /\ AllBids = Bids * Rounds
      /\ (Rounds - 1) * Auctions = AllAuctions - Auctions
  BY <1>1, <1>2 DEF AllAuctions, AllBids
<1>6. /\ Spawned = AllAuctions - Auctions + 2
      /\ Prepared = AllAuctions + 3 /\ Last = AllAuctions + AllBids + 4
  BY <1>5 DEF Spawned, Prepared, Last
<1> QED
  BY <1>1, <1>3, <1>4, <1>5, <1>6, SimulationAssumption

\* The bidders take turns.
LEMMA Turns ==
  \A k \in Nat \ {0} :
    /\ BidderOf(k) \in Accounts \ {Seller} /\ BidderOf(k) \in Funded
    /\ Bids > 1 => BidderOf(k + 1) # BidderOf(k)
<1> SUFFICES ASSUME NEW k \in Nat \ {0}
             PROVE  /\ BidderOf(k) \in Accounts \ {Seller} /\ BidderOf(k) \in Funded
                    /\ Bids > 1 => BidderOf(k + 1) # BidderOf(k)
  OBVIOUS
<1>1. Bids \in Nat \ {0}
  BY Numbers
<1>2. \A n \in Nat, m \in Nat \ {0} :
        n % m \in 0 .. m - 1 /\ n \div m \in Int /\ n = m * (n \div m) + (n % m)
  OBVIOUS
<1> DEFINE i == ((k - 1) % Bids) + 1
           j == ((k + 1 - 1) % Bids) + 1
<1>3. i \in 1 .. Bids /\ j \in 1 .. Bids
  BY <1>1, <1>2
<1>4. Bidders[i] \in Accounts \ {Seller} /\ Bidders[i] \in Funded
  BY <1>3, SimulationAssumption, ElementOfSeq DEF Funded, Bids
<1>5. Bids > 1 => i # j
  <2> SUFFICES ASSUME Bids > 1, i = j PROVE FALSE
    OBVIOUS
  <2> DEFINE p == (k - 1) \div Bids
             q == k \div Bids
  <2>0. k - 1 \in Nat /\ k \in Nat /\ k + 1 - 1 = k
    OBVIOUS
  <2>1. /\ p \in Int /\ k - 1 = Bids * p + ((k - 1) % Bids)
        /\ q \in Int /\ k = Bids * q + (k % Bids)
        /\ (k - 1) % Bids \in Int /\ k % Bids \in Int
    BY <1>1, <1>2, <2>0
  <2>2. (k - 1) % Bids = k % Bids
    BY <2>0, <2>1
  <2> HIDE DEF p, q
  <2>3. Bids * q - Bids * p = 1
    BY <1>1, <2>1, <2>2
  <2>4. \A m \in Nat, x, y \in Int : m > 1 => m * x - m * y # 1
    <3> SUFFICES ASSUME NEW m \in Nat, NEW x \in Int, NEW y \in Int, m > 1,
                        m * x - m * y = 1
                 PROVE  FALSE
      OBVIOUS
    <3>1. m * (x - y) = 1
      OBVIOUS
    <3>2. x - y >= 1 \/ x - y <= 0
      OBVIOUS
    <3>3. x - y >= 1 => m * (x - y) >= m
      OBVIOUS
    <3>4. x - y <= 0 => m * (x - y) <= 0
      OBVIOUS
    <3> QED
      BY <3>1, <3>2, <3>3, <3>4
  <2> QED
    BY <1>1, <2>1, <2>3, <2>4
<1>6. Bids > 1 => Bidders[i] # Bidders[j]
  BY <1>3, <1>5, SimulationAssumption
<1> QED
  BY <1>4, <1>6 DEF BidderOf

\* What two sequences are when joined.
LEMMA Joined ==
  ASSUME NEW S, NEW s \in Seq(S), NEW t \in Seq(S)
  PROVE  /\ s \o t \in Seq(S) /\ Len(s \o t) = Len(s) + Len(t)
         /\ \A i \in 1 .. Len(s) : (s \o t)[i] = s[i]
         /\ \A i \in 1 .. Len(t) : (s \o t)[Len(s) + i] = t[i]
<1>1. Len(s) \in Nat /\ Len(t) \in Nat
  OBVIOUS
<1>2. /\ s \o t \in Seq(S) /\ Len(s \o t) = Len(s) + Len(t)
      /\ \A i \in 1 .. Len(s) + Len(t) :
           (s \o t)[i] = IF i <= Len(s) THEN s[i] ELSE t[i - Len(s)]
  BY ConcatProperties
<1> QED
  BY <1>1, <1>2

\* The script, item by item.
LEMMA ScriptItems ==
  /\ Len(Script) = Last
  /\ Script[1] = SpawnAccounts(Auctions)
  /\ \A k \in 1 .. AllAuctions : Script[k + 1] = SpawnAuction(k)
  /\ Script[AllAuctions + 2] = SpawnAccounts(Bids)
  /\ Script[Prepared] = MintAll
  /\ \A k \in 1 .. AllBids : Script[Prepared + k] = BidNumber(k)
  /\ Script[Last] = Closing
<1> DEFINE auctions == [k \in 1 .. AllAuctions |-> SpawnAuction(k)]
           bids == [k \in 1 .. AllBids |-> BidNumber(k)]
           Items == {SpawnAccounts(Auctions), SpawnAccounts(Bids), MintAll, Closing}
                      \cup {SpawnAuction(k) : k \in 1 .. AllAuctions}
                      \cup {BidNumber(k) : k \in 1 .. AllBids}
           s1 == <<SpawnAccounts(Auctions)>>
           s3 == <<SpawnAccounts(Bids), MintAll>>
           s5 == <<Closing>>
<1>0. Script = s1 \o auctions \o s3 \o bids \o s5
  BY DEF Script, AllAuctions, AllBids
<1>1. /\ s1 \in Seq(Items) /\ Len(s1) = 1 /\ s1[1] = SpawnAccounts(Auctions)
      /\ s3 \in Seq(Items) /\ Len(s3) = 2 /\ s3[1] = SpawnAccounts(Bids)
      /\ s3[2] = MintAll
      /\ s5 \in Seq(Items) /\ Len(s5) = 1 /\ s5[1] = Closing
  OBVIOUS
<1>2. /\ auctions \in Seq(Items) /\ Len(auctions) = AllAuctions
      /\ \A k \in 1 .. AllAuctions : auctions[k] = SpawnAuction(k)
  BY Numbers, IsASeq
<1>3. /\ bids \in Seq(Items) /\ Len(bids) = AllBids
      /\ \A k \in 1 .. AllBids : bids[k] = BidNumber(k)
  BY Numbers, IsASeq
<1> HIDE DEF auctions, bids, Items, s1, s3, s5
<1> DEFINE t2 == s1 \o auctions
           t3 == t2 \o s3
           t4 == t3 \o bids
<1>4. /\ t2 \in Seq(Items) /\ Len(t2) = 1 + AllAuctions
      /\ t2[1] = s1[1]
      /\ \A k \in 1 .. AllAuctions : t2[1 + k] = auctions[k]
  <2>1. /\ s1 \o auctions \in Seq(Items)
        /\ Len(s1 \o auctions) = Len(s1) + Len(auctions)
        /\ \A i \in 1 .. Len(s1) : (s1 \o auctions)[i] = s1[i]
        /\ \A i \in 1 .. Len(auctions) : (s1 \o auctions)[Len(s1) + i] = auctions[i]
    <3>1. s1 \in Seq(Items) /\ auctions \in Seq(Items)
      BY <1>1, <1>2
    <3> QED
      BY <3>1, Joined
  <2> QED
    BY <1>1, <1>2, <2>1, Numbers
<1> HIDE DEF t2
<1>5. /\ t3 \in Seq(Items) /\ Len(t3) = Prepared
      /\ \A i \in 1 .. 1 + AllAuctions : t3[i] = t2[i]
      /\ t3[1 + AllAuctions + 1] = s3[1] /\ t3[1 + AllAuctions + 2] = s3[2]
  <2>1. /\ t2 \o s3 \in Seq(Items) /\ Len(t2 \o s3) = Len(t2) + Len(s3)
        /\ \A i \in 1 .. Len(t2) : (t2 \o s3)[i] = t2[i]
        /\ \A i \in 1 .. Len(s3) : (t2 \o s3)[Len(t2) + i] = s3[i]
    <3>1. t2 \in Seq(Items) /\ s3 \in Seq(Items)
      BY <1>1, <1>4
    <3> QED
      BY <3>1, Joined
  <2> QED
    BY <1>1, <1>4, <2>1, Numbers
<1> HIDE DEF t3
<1>6. /\ t4 \in Seq(Items) /\ Len(t4) = Prepared + AllBids
      /\ \A i \in 1 .. Prepared : t4[i] = t3[i]
      /\ \A k \in 1 .. AllBids : t4[Prepared + k] = bids[k]
  <2>1. /\ t3 \o bids \in Seq(Items) /\ Len(t3 \o bids) = Len(t3) + Len(bids)
        /\ \A i \in 1 .. Len(t3) : (t3 \o bids)[i] = t3[i]
        /\ \A i \in 1 .. Len(bids) : (t3 \o bids)[Len(t3) + i] = bids[i]
    <3>1. t3 \in Seq(Items) /\ bids \in Seq(Items)
      BY <1>3, <1>5
    <3> QED
      BY <3>1, Joined
  <2> QED
    BY <1>3, <1>5, <2>1, Numbers
<1> HIDE DEF t4
<1>7. /\ Len(Script) = Last /\ Script[Last] = s5[1]
      /\ \A i \in 1 .. Last - 1 : Script[i] = t4[i]
  <2>1. Script = t4 \o s5
    BY <1>0 DEF t4, t3, t2
  <2>2. /\ Len(t4 \o s5) = Len(t4) + Len(s5)
        /\ \A i \in 1 .. Len(t4) : (t4 \o s5)[i] = t4[i]
        /\ \A i \in 1 .. Len(s5) : (t4 \o s5)[Len(t4) + i] = s5[i]
    <3>1. t4 \in Seq(Items) /\ s5 \in Seq(Items)
      BY <1>1, <1>6
    <3> QED
      BY <3>1, Joined
  <2> QED
    BY <1>1, <1>6, <2>1, <2>2, Numbers
<1>8. Script[1] = SpawnAccounts(Auctions)
  BY <1>1, <1>4, <1>5, <1>6, <1>7, Numbers
<1>9. ASSUME NEW k \in 1 .. AllAuctions PROVE Script[k + 1] = SpawnAuction(k)
  BY <1>2, <1>4, <1>5, <1>6, <1>7, Numbers
<1>10. Script[AllAuctions + 2] = SpawnAccounts(Bids) /\ Script[Prepared] = MintAll
  BY <1>1, <1>5, <1>6, <1>7, Numbers
<1>11. ASSUME NEW k \in 1 .. AllBids PROVE Script[Prepared + k] = BidNumber(k)
  <2>1. Prepared + k \in 1 .. Last - 1
    BY Numbers
  <2> QED
    BY <1>3, <1>6, <1>7, <2>1
<1>12. Script[Last] = Closing
  BY <1>1, <1>7, Numbers
<1> QED
  BY <1>7, <1>8, <1>9, <1>10, <1>11, <1>12

------------------------------------------------------------------------------

\* Where a position of the script is.
LEMMA Positions ==
  ASSUME NEW e \in 0 .. Last - 1
  PROVE  \/ e = 0
         \/ \E k \in 1 .. AllAuctions : e = k
         \/ e = AllAuctions + 1
         \/ e = AllAuctions + 2
         \/ \E k \in 1 .. AllBids : e + 1 = Prepared + k
         \/ e + 1 = Last
<1>1. CASE e \in Prepared .. Last - 2
  <2>1. e + 1 - Prepared \in 1 .. AllBids /\ e + 1 = Prepared + (e + 1 - Prepared)
    BY <1>1, Numbers
  <2> QED
    BY <2>1
<1> QED
  BY <1>1, Numbers

\* What the items of the script are.
LEMMA ItemFacts ==
  /\ \A n : SpawnAccounts(n).op = "spawn accounts" /\ SpawnAccounts(n).instructions = n
  /\ \A k : /\ SpawnAuction(k).op = IF k = (Rounds - 1) * Auctions + 1
                                     THEN "spawn" ELSE "spawn another"
            /\ SpawnAuction(k).instructions = 1
  /\ MintAll.op = "mint" /\ MintAll.instructions = Bids
  /\ \A k : /\ BidNumber(k).op = "bid" /\ BidNumber(k).instructions = 2
            /\ BidNumber(k).bidder = BidderOf(k) /\ BidNumber(k).amount = k
  /\ Closing.op = "close" /\ Closing.instructions = 1 /\ Closing.waits
BY DEF SpawnAccounts, SpawnAuction, MintAll, BidNumber, BidderOf, Closing

\* The counter that the client expects is the one the ledger reaches.
LEMMA CtSteps ==
  ASSUME NEW e \in 0 .. Last - 1
  PROVE  /\ Script[e + 1].instructions \in Nat \ {0}
         /\ CtAt(e + 1) = CtAt(e) + Script[e + 1].instructions
<1>1. CASE e = 0
  <2>1. Script[e + 1] = SpawnAccounts(Auctions)
    BY <1>1, ScriptItems, Numbers
  <2>2. Script[e + 1].instructions = Auctions
    BY <2>1, ItemFacts
  <2>3. CtAt(e + 1) = CtAt(e) + Auctions
    BY <1>1, Numbers DEF CtAt
  <2> QED
    BY <2>2, <2>3, Numbers
<1>2. ASSUME NEW k \in 1 .. AllAuctions, e = k
      PROVE  /\ Script[e + 1].instructions \in Nat \ {0}
             /\ CtAt(e + 1) = CtAt(e) + Script[e + 1].instructions
  <2>1. Script[e + 1] = SpawnAuction(k)
    BY <1>2, ScriptItems, Numbers
  <2>2. Script[e + 1].instructions = 1
    BY <2>1, ItemFacts
  <2>3. CtAt(e + 1) = CtAt(e) + 1
    BY <1>2, Numbers DEF CtAt
  <2> QED
    BY <2>2, <2>3, Numbers
<1>3. CASE e = AllAuctions + 1
  <2>1. Script[e + 1] = SpawnAccounts(Bids)
    BY <1>3, ScriptItems, Numbers
  <2>2. Script[e + 1].instructions = Bids
    BY <2>1, ItemFacts
  <2>3. CtAt(e + 1) = CtAt(e) + Bids
    BY <1>3, Numbers DEF CtAt
  <2> QED
    BY <2>2, <2>3, Numbers
<1>4. CASE e = AllAuctions + 2
  <2>1. Script[e + 1] = MintAll
    BY <1>4, ScriptItems, Numbers
  <2>2. Script[e + 1].instructions = Bids
    BY <2>1, ItemFacts
  <2>3. CtAt(e + 1) = CtAt(e) + Bids
    BY <1>4, Numbers DEF CtAt
  <2> QED
    BY <2>2, <2>3, Numbers
<1>5. ASSUME NEW k \in 1 .. AllBids, e + 1 = Prepared + k
      PROVE  /\ Script[e + 1].instructions \in Nat \ {0}
             /\ CtAt(e + 1) = CtAt(e) + Script[e + 1].instructions
  <2>1. Script[e + 1] = BidNumber(k)
    BY <1>5, ScriptItems, Numbers
  <2>2. Script[e + 1].instructions = 2
    BY <2>1 DEF BidNumber
  <2>3. CtAt(e + 1) = CtAt(e) + 2
    BY <1>5, Numbers DEF CtAt
  <2> QED
    BY <2>2, <2>3, Numbers
<1>6. CASE e + 1 = Last
  <2>1. Script[e + 1] = Closing
    BY <1>6, ScriptItems, Numbers
  <2>2. Script[e + 1].instructions = 1
    BY <2>1, ItemFacts
  <2>3. CtAt(e + 1) = CtAt(e) + 1
    BY <1>6, Numbers DEF CtAt
  <2> QED
    BY <2>2, <2>3, Numbers
<1> QED
  BY <1>1, <1>2, <1>3, <1>4, <1>5, <1>6, Positions

\* It grows, and so tells how many transactions were executed.
LEMMA CtGrows ==
  \A i, j \in 0 .. Last : CtAt(i) \in Nat /\ (i < j => CtAt(i) < CtAt(j))
BY Numbers DEF CtAt

\* No two positions of the script have the same counter.
LEMMA CtTells == \A i, j \in 0 .. Last : CtAt(i) = CtAt(j) => i = j
<1> SUFFICES ASSUME NEW i \in 0 .. Last, NEW j \in 0 .. Last, CtAt(i) = CtAt(j)
             PROVE  i = j
  OBVIOUS
<1>1. /\ CtAt(i) \in Nat /\ ~(i < j) /\ ~(j < i) /\ i \in Int /\ j \in Int
  BY CtGrows, Numbers
<1> QED
  BY <1>1

\* The accounts that play a part.
LEMMA Players ==
  /\ Seller \in Accounts /\ Seller # NoAccount /\ NoAccount \notin Accounts
  /\ Funded \subseteq Accounts /\ Seller \notin Funded
BY SimulationAssumption, AccountAssumption, ElementOfSeq DEF Funded, Bids

\* A transaction that prepares something else changes neither the auction nor
\* the accounts.
LEMMA NothingChanges ==
  ASSUME NEW e \in 0 .. Last - 1
  PROVE  /\ e < Prepared /\ e + 1 # Spawned => AuctionAt(e + 1) = AuctionAt(e)
         /\ e + 1 < Prepared => BalanceAt(e + 1) = BalanceAt(e)
<1>1. e + 1 <= Prepared => BidsAt(e) = 0 /\ BidsAt(e + 1) = 0
  BY Numbers DEF BidsAt
<1>2. ASSUME e < Prepared, e + 1 # Spawned PROVE AuctionAt(e + 1) = AuctionAt(e)
  <2>1. (e < Spawned <=> e + 1 < Spawned) /\ e < Last /\ e + 1 < Last
    BY <1>2, Numbers
  <2> QED
    BY <1>1, <1>2, <2>1, Numbers DEF AuctionAt
<1>3. ASSUME e + 1 < Prepared PROVE BalanceAt(e + 1) = BalanceAt(e)
  <2>1. e < Prepared /\ e + 1 < Prepared /\ e # Last /\ e + 1 # Last
    BY <1>3, Numbers
  <2> QED
    BY <1>1, <1>3, <2>1, Numbers DEF BalanceAt
<1> QED
  BY <1>2, <1>3


\* What an account has.
LEMMA BalanceOf ==
  \A e : \A a \in Accounts :
    BalanceAt(e)[a] = (IF e >= Prepared /\ a \in Funded THEN Coins ELSE 0)
                        - (IF BidsAt(e) > 0 /\ a = BidderOf(BidsAt(e))
                           THEN BidsAt(e) ELSE 0)
                        + (IF e = Last /\ a = Seller THEN BidsAt(e) ELSE 0)
BY DEF BalanceAt

\* After the first transactions up to minting ...
LEMMA BeforeBids ==
  ASSUME NEW e \in 0 .. Prepared - 1,
         auction = AuctionAt(e), balance = BalanceAt(e)
  PROVE  /\ auction.HighestBid = 0
         /\ e < Spawned => auction = Absent
         /\ e >= Spawned => auction.State = "OPEN"
         /\ \A a \in Accounts : balance[a] = 0
<1>1. BidsAt(e) = 0 /\ e < Last /\ e # Last /\ ~(e >= Prepared) /\ e \in Int
  BY Numbers DEF BidsAt
<1>2. Spawned \in Int
  BY Numbers
<1>3. \A a \in Accounts : BalanceAt(e)[a] = 0
  BY <1>1, BalanceOf
<1> QED
  BY <1>1, <1>2, <1>3 DEF AuctionAt, Absent

\* ... and after k bids.
LEMMA AfterBids ==
  ASSUME NEW k \in 0 .. AllBids,
         auction = AuctionAt(Prepared + k), balance = BalanceAt(Prepared + k)
  PROVE  /\ auction.State = "OPEN" /\ auction.SellerAccount = Seller
         /\ auction.ReservePrice = Hash(Salt, 0) /\ auction.HighestBid = k
         /\ k > 0 => auction.HighestBidder = BidderOf(k)
         /\ \A a \in Accounts :
              balance[a] = (IF a \in Funded THEN Coins ELSE 0)
                             - (IF k > 0 /\ a = BidderOf(k) THEN k ELSE 0)
<1> DEFINE e == Prepared + k
<1>1. /\ BidsAt(e) = k /\ ~(e < Spawned) /\ e < Last /\ e # Last /\ e >= Prepared
      /\ k \in Nat
  BY Numbers DEF BidsAt
<1>2. \A a \in Accounts :
        BalanceAt(e)[a] = (IF a \in Funded THEN Coins ELSE 0)
                            - (IF k > 0 /\ a = BidderOf(k) THEN k ELSE 0)
  <2>1. /\ BidsAt(e) = k /\ e # Last /\ e >= Prepared /\ k \in Int
        /\ Coins \in Int
    BY <1>1, Numbers
  <2> HIDE DEF e
  <2> QED
    BY <2>1, BalanceOf
<1> HIDE DEF e
<1>3. auction = AuctionAt(e) /\ balance = BalanceAt(e)
  BY DEF e
<1> QED
  BY <1>1, <1>2, <1>3 DEF AuctionAt

\* The (k+1)-st bid: its bidder can pay, the bid is the highest, and there is
\* room for the refund.
LEMMA BidIsGood ==
  ASSUME NEW k \in 0 .. AllBids - 1,
         auction = AuctionAt(Prepared + k), balance = BalanceAt(Prepared + k)
  PROVE  BidAccepted(BidderOf(k + 1), k + 1)
<1> DEFINE a == BidderOf(k + 1)
           b == BidderOf(k)
<1>1. /\ auction.State = "OPEN" /\ auction.SellerAccount = Seller
      /\ auction.HighestBid = k
      /\ k > 0 => auction.HighestBidder = b
      /\ \A x \in Accounts :
           balance[x] = (IF x \in Funded THEN Coins ELSE 0)
                          - (IF k > 0 /\ x = b THEN k ELSE 0)
  BY AfterBids, Numbers
<1>2. /\ a \in Accounts \ {Seller} /\ a \in Funded
      /\ k > 0 => b \in Accounts /\ b \in Funded
      /\ k > 0 /\ Bids > 1 => a # b
  BY Turns, Numbers
<1>3. balance \in [Accounts -> Int]
  <2>1. \A e \in Int : BidsAt(e) \in Int
    BY Numbers DEF BidsAt
  <2>2. Prepared + k \in Int /\ BidsAt(Prepared + k) \in Int
    BY <2>1, Numbers
  <2> QED
    BY <2>2, Numbers DEF BalanceAt
<1> HIDE DEF a, b
<1>4. /\ k \in Nat /\ k + 1 <= AllBids /\ AllBids \in Nat /\ Coins \in Nat
      /\ AllBids <= Coins /\ Coins <= MaxCoin /\ MaxCoin \in Nat
      /\ Bids = 1 => Coins + 1 >= 2 * AllBids
      /\ Bids > 1 \/ Bids = 1
  BY Numbers
<1>5. balance[a] >= k + 1
  BY <1>1, <1>2, <1>4
<1>6. ASSUME k > 0 PROVE CanStore(AfterFetch(a, k + 1), b, k)
  BY <1>1, <1>2, <1>3, <1>4, <1>6 DEF CanStore, AfterFetch
<1> QED
  BY <1>1, <1>2, <1>4, <1>5, <1>6 DEF BidAccepted, CanFetch, Live, a

\* The next transaction is accepted.
LEMMA NextAccepted ==
  ASSUME NEW e \in 0 .. Last - 1,
         auction = AuctionAt(e), balance = BalanceAt(e)
  PROVE  Accepted(Script[e + 1])
<1>1. CASE e = 0 \/ e = AllAuctions + 1
  <2>1. \E n : Script[e + 1] = SpawnAccounts(n)
    <3>1. Script[0 + 1] = SpawnAccounts(Auctions)
      BY ScriptItems
    <3>2. Script[AllAuctions + 1 + 1] = SpawnAccounts(Bids)
      BY ScriptItems, Numbers
    <3> QED
      BY <1>1, <3>1, <3>2
  <2>2. Script[e + 1].op = "spawn accounts"
    BY <2>1, ItemFacts
  <2> QED
    BY <2>2 DEF Accepted
<1>2. ASSUME NEW k \in 1 .. AllAuctions, e = k
      PROVE  Accepted(Script[e + 1])
  <2>1. Script[e + 1] = SpawnAuction(k)
    BY <1>2, ScriptItems
  <2>2. Script[e + 1].op \in {"spawn", "spawn another"}
    BY <2>1, ItemFacts
  <2>3. Script[e + 1].op = "spawn" => e + 1 = Spawned
    <3> DEFINE m == (Rounds - 1) * Auctions + 1
    <3>1. Script[e + 1].op = IF k = m THEN "spawn" ELSE "spawn another"
      BY <2>1, ItemFacts
    <3>2. Spawned = m + 1
      BY Numbers
    <3> HIDE DEF m
    <3> QED
      BY <1>2, <3>1, <3>2
  <2>4. e \in 0 .. Prepared - 1 /\ (e + 1 = Spawned => e < Spawned)
    BY <1>2, Numbers
  <2>5. e + 1 = Spawned => auction.State = "ABSENT"
    BY <2>4, BeforeBids DEF Absent
  <2> QED
    BY <2>2, <2>3, <2>5 DEF Accepted
<1>3. CASE e = AllAuctions + 2
  <2>0. Script[e + 1] = MintAll
    BY <1>3, ScriptItems, Numbers
  <2>1. Script[e + 1].op = "mint"
    BY <2>0, ItemFacts
  <2>2. \A a \in Accounts : balance[a] = 0
    BY <1>3, BeforeBids, Numbers
  <2>3. \A a \in Funded : CanStore(balance, a, Coins)
    <3>1. Coins \in Int /\ Coins <= MaxCoin /\ MaxCoin \in Int
      BY Numbers
    <3> TAKE a \in Funded
    <3>2. a \in Accounts /\ balance[a] = 0
      BY <2>2, Players
    <3> QED
      BY <3>1, <3>2 DEF CanStore
  <2> QED
    BY <2>1, <2>3 DEF Accepted
<1>4. ASSUME NEW k \in 1 .. AllBids, e + 1 = Prepared + k
      PROVE  Accepted(Script[e + 1])
  <2>1. Script[e + 1] = BidNumber(k)
    BY <1>4, ScriptItems
  <2>2. /\ Script[e + 1].op = "bid" /\ Script[e + 1].bidder = BidderOf(k)
        /\ Script[e + 1].amount = k
    BY <2>1, ItemFacts
  <2>3. k - 1 \in 0 .. AllBids - 1 /\ Prepared + (k - 1) = e /\ (k - 1) + 1 = k
    BY <1>4, Numbers
  <2>4. BidAccepted(BidderOf((k - 1) + 1), (k - 1) + 1)
    BY <2>3, BidIsGood
  <2> QED
    BY <2>2, <2>3, <2>4 DEF Accepted
<1>5. CASE e + 1 = Last
  <2>1. Script[e + 1].op = "close"
    BY <1>5, ScriptItems, ItemFacts
  <2>2. AllBids \in 0 .. AllBids /\ e = Prepared + AllBids
    BY <1>5, Numbers
  <2>3. /\ auction.State = "OPEN" /\ auction.SellerAccount = Seller
        /\ auction.ReservePrice = Hash(Salt, 0) /\ auction.HighestBid = AllBids
        /\ balance[Seller] = (IF Seller \in Funded THEN Coins ELSE 0)
             - (IF AllBids > 0 /\ Seller = BidderOf(AllBids) THEN AllBids ELSE 0)
    BY <2>2, AfterBids, Players
  <2>4. balance[Seller] = 0
    BY <2>3, Players, Turns, Numbers
  <2> QED
    BY <2>1, <2>3, <2>4, Players, Numbers
    DEF Accepted, Live, ReserveOpened, CanStore
<1> QED
  BY <1>1, <1>2, <1>3, <1>4, <1>5, Positions

\* The accounts as the script leaves them are functions of the right type.
LEMMA BalanceType == \A e \in Int : BalanceAt(e) \in [Accounts -> Int]
<1> SUFFICES ASSUME NEW e \in Int PROVE BalanceAt(e) \in [Accounts -> Int]
  OBVIOUS
<1>1. BidsAt(e) \in Int
  BY Numbers DEF BidsAt
<1>2. Coins \in Int
  BY Numbers
<1> QED
  BY <1>1, <1>2 DEF BalanceAt

\* Minting.
LEMMA MintExecuted ==
  ASSUME auction = AuctionAt(Prepared - 1), balance = BalanceAt(Prepared - 1),
         MintForAll
  PROVE  auction' = AuctionAt(Prepared) /\ balance' = BalanceAt(Prepared)
<1> DEFINE e == Prepared - 1
<1>1. /\ e \in 0 .. Last - 1 /\ e \in 0 .. Prepared - 1 /\ e + 1 = Prepared
      /\ e < Prepared /\ e + 1 # Spawned
  BY Numbers
<1>2. auction' = AuctionAt(Prepared)
  BY <1>1, NothingChanges DEF MintForAll
<1>3. \A a \in Accounts : balance[a] = 0
  BY <1>1, BeforeBids
<1>4. BidsAt(Prepared) = 0 /\ Prepared # Last /\ Prepared >= Prepared /\ Coins \in Int
  BY Numbers DEF BidsAt
<1>5. \A a \in Accounts : BalanceAt(Prepared)[a] = IF a \in Funded THEN Coins ELSE 0
  BY <1>4, BalanceOf
<1>6. balance' = [a \in Accounts |-> balance[a] + IF a \in Funded THEN Coins ELSE 0]
  BY DEF MintForAll
<1>7. \A a \in Accounts : balance'[a] = BalanceAt(Prepared)[a]
  BY <1>3, <1>4, <1>5, <1>6
<1>8. BalanceAt(Prepared) = [a \in Accounts |-> BalanceAt(Prepared)[a]]
  BY DEF BalanceAt
<1> QED
  BY <1>2, <1>6, <1>7, <1>8

\* The k-th bid: the highest bidder so far has its coins back.
LEMMA BidExecuted ==
  ASSUME NEW k \in 1 .. AllBids,
         auction = AuctionAt(Prepared + (k - 1)),
         balance = BalanceAt(Prepared + (k - 1)),
         PlaceBid(BidderOf(k), PubKey[BidderOf(k)], k, 0)
  PROVE  auction' = AuctionAt(Prepared + k) /\ balance' = BalanceAt(Prepared + k)
<1> DEFINE j == k - 1
           e == Prepared + j
           a == BidderOf(k)
           b == BidderOf(j)
<1>0. /\ k \in Nat /\ k > 0 /\ j \in 0 .. AllBids /\ j \in Nat /\ j + 1 = k
      /\ k \in 0 .. AllBids /\ k <= MaxCoin /\ Coins \in Int /\ MaxCoin \in Nat
  BY Numbers
<1>1. /\ auction.HighestBid = j /\ (j > 0 => auction.HighestBidder = b)
      /\ \A x \in Accounts :
           balance[x] = (IF x \in Funded THEN Coins ELSE 0)
                          - (IF j > 0 /\ x = b THEN j ELSE 0)
  BY <1>0, AfterBids
<1>2. Add64(0, k) = k
  BY <1>0 DEF Add64
<1>4. /\ a \in Accounts /\ a \in Funded
      /\ j > 0 => b \in Accounts
  BY <1>0, Turns
<1>5. /\ balance \in [Accounts -> Int] /\ BalanceAt(Prepared + k) \in [Accounts -> Int]
  BY <1>0, BalanceType, Numbers
<1>11. AfterFetch(a, k) = [balance EXCEPT ![a] = @ - k]
  <2> HIDE DEF a
  <2> QED
    BY <1>4, <1>5 DEF AfterFetch
<1>3. /\ auction' = [auction EXCEPT !.HighestBid = k, !.HighestBidder = a,
                                    !.WinProof = PubKey[a]]
      /\ \/ j = 0 /\ balance' = [balance EXCEPT ![a] = @ - k]
         \/ /\ j # 0
            /\ balance' = [[balance EXCEPT ![a] = @ - k] EXCEPT ![b] = @ + j]
  <2> DEFINE key == PubKey[a]
  <2>1. FirstBid(a, key, k, k) \/ Outbid(a, key, k, k)
    BY <1>2 DEF PlaceBid
  <2> HIDE DEF key, a
  <2>2. ASSUME FirstBid(a, key, k, k)
        PROVE  /\ j = 0 /\ balance' = [balance EXCEPT ![a] = @ - k]
               /\ RecordBid(a, key, k, k)
    BY <1>1, <1>11, <2>2 DEF FirstBid
  <2>3. ASSUME Outbid(a, key, k, k)
        PROVE  /\ j # 0
               /\ balance' = [[balance EXCEPT ![a] = @ - k] EXCEPT ![b] = @ + j]
               /\ RecordBid(a, key, k, k)
    <3>1. j # 0 /\ auction.HighestBid = j /\ auction.HighestBidder = b
      BY <1>0, <1>1, <2>3 DEF Outbid
    <3> QED
      BY <1>11, <2>3, <3>1 DEF Outbid, Store
  <2> QED
    BY <2>1, <2>2, <2>3 DEF RecordBid, key
<1>6. \A x \in Accounts :
        BalanceAt(Prepared + k)[x] = (IF x \in Funded THEN Coins ELSE 0)
                                       - (IF x = a THEN k ELSE 0)
  <2> DEFINE n == Prepared + k
  <2>1. BidsAt(n) = k /\ n # Last /\ n >= Prepared
    BY <1>0, Numbers DEF BidsAt
  <2> HIDE DEF n
  <2>2. \A x \in Accounts :
          BalanceAt(n)[x] = (IF x \in Funded THEN Coins ELSE 0)
                              - (IF x = BidderOf(k) THEN k ELSE 0)
    BY <1>0, <2>1, BalanceOf
  <2> QED
    BY <2>2 DEF n
<1>7. AuctionAt(Prepared + k)
        = [AuctionAt(e) EXCEPT !.HighestBid = k, !.HighestBidder = a,
                               !.WinProof = PubKey[a]]
  <2> DEFINE n == Prepared + k
  <2>1. /\ BidsAt(n) = k /\ ~(n < Spawned) /\ n < Last
        /\ ~(e < Spawned) /\ e < Last
    BY <1>0, Numbers DEF BidsAt
  <2> HIDE DEF n, e
  <2>2. AuctionAt(n) = [State |-> "OPEN", SellerAccount |-> Seller,
                        ReservePrice |-> Hash(Salt, 0), HighestBid |-> k,
                        HighestBidder |-> a, WinProof |-> PubKey[a]]
    BY <1>0, <2>1 DEF AuctionAt
  <2>3. [AuctionAt(e) EXCEPT !.HighestBid = k, !.HighestBidder = a,
                             !.WinProof = PubKey[a]]
          = [State |-> "OPEN", SellerAccount |-> Seller,
             ReservePrice |-> Hash(Salt, 0), HighestBid |-> k,
             HighestBidder |-> a, WinProof |-> PubKey[a]]
    <3> DEFINE m == BidsAt(e)
               h == IF m = 0 THEN NoAccount ELSE BidderOf(m)
               w == IF m = 0 THEN Empty ELSE PubKey[BidderOf(m)]
    <3>1. AuctionAt(e) = [State |-> "OPEN", SellerAccount |-> Seller,
                          ReservePrice |-> Hash(Salt, 0), HighestBid |-> m,
                          HighestBidder |-> h, WinProof |-> w]
      BY <2>1 DEF AuctionAt
    <3> DEFINE key == PubKey[a]
               r1 == [AuctionAt(e) EXCEPT !.HighestBid = k]
               r2 == [r1 EXCEPT !.HighestBidder = a]
               r3 == [r2 EXCEPT !.WinProof = key]
    <3> HIDE DEF m, h, w, a, key
    <3>2. r1 = [State |-> "OPEN", SellerAccount |-> Seller,
                 ReservePrice |-> Hash(Salt, 0), HighestBid |-> k,
                 HighestBidder |-> h, WinProof |-> w]
      BY <3>1
    <3>3. [AuctionAt(e) EXCEPT !.HighestBid = k, !.HighestBidder = a,
                               !.WinProof = key] = r3
      OBVIOUS
    <3> HIDE DEF r1
    <3>4. r2 = [State |-> "OPEN", SellerAccount |-> Seller,
                 ReservePrice |-> Hash(Salt, 0), HighestBid |-> k,
                 HighestBidder |-> a, WinProof |-> w]
      BY <3>2
    <3> HIDE DEF r2
    <3>5. r3 = [State |-> "OPEN", SellerAccount |-> Seller,
                 ReservePrice |-> Hash(Salt, 0), HighestBid |-> k,
                 HighestBidder |-> a, WinProof |-> key]
      BY <3>4
    <3> QED
      BY <3>3, <3>5 DEF key
  <2> QED
    BY <2>2, <2>3 DEF n
<1> HIDE DEF a, b, j
<1>8. \A x \in Accounts : balance'[x] = BalanceAt(Prepared + k)[x]
  BY <1>0, <1>1, <1>3, <1>4, <1>5, <1>6
<1>9. balance' \in [Accounts -> Int]
  BY <1>0, <1>3, <1>4, <1>5
<1> QED
  BY <1>3, <1>5, <1>7, <1>8, <1>9 DEF j

\* Closing the auction: the last bid wins and the seller is paid.
LEMMA CloseExecuted ==
  ASSUME auction = AuctionAt(Last - 1), balance = BalanceAt(Last - 1),
         CloseSold(Salt, 0) \/ CloseUnsold(Salt, 0)
  PROVE  auction' = AuctionAt(Last) /\ balance' = BalanceAt(Last)
<1>0. /\ AllBids \in 0 .. AllBids /\ Last - 1 = Prepared + AllBids
      /\ AllBids > 0 /\ AllBids \in Int /\ Coins \in Int
  BY Numbers
<1>1. /\ auction.SellerAccount = Seller /\ auction.HighestBid = AllBids
      /\ \A x \in Accounts :
           balance[x] = (IF x \in Funded THEN Coins ELSE 0)
                          - (IF x = BidderOf(AllBids) THEN AllBids ELSE 0)
  BY <1>0, AfterBids
<1>2. ReserveMet(0)
  BY <1>0, <1>1 DEF ReserveMet
<1>3. /\ balance' = [balance EXCEPT ![Seller] = @ + AllBids]
      /\ auction' = [auction EXCEPT !.State = "WCLOSED"]
  BY <1>1, <1>2 DEF CloseSold, CloseUnsold, Store
<1>4. /\ BidsAt(Last) = AllBids /\ BidsAt(Last - 1) = AllBids
      /\ ~(Last < Spawned) /\ ~(Last < Last) /\ Last >= Prepared
      /\ ~(Last - 1 < Spawned) /\ Last - 1 < Last /\ Last \in Int
  BY Numbers DEF BidsAt
<1>5. AuctionAt(Last) = [AuctionAt(Last - 1) EXCEPT !.State = "WCLOSED"]
  BY <1>4 DEF AuctionAt
<1>6. \A x \in Accounts :
        BalanceAt(Last)[x] = (IF x \in Funded THEN Coins ELSE 0)
                               - (IF x = BidderOf(AllBids) THEN AllBids ELSE 0)
                               + (IF x = Seller THEN AllBids ELSE 0)
  BY <1>0, <1>4, BalanceOf
<1>7. balance \in [Accounts -> Int] /\ BalanceAt(Last) \in [Accounts -> Int]
  BY <1>4, BalanceType
<1>8. BidderOf(AllBids) # Seller /\ Seller \in Accounts
  BY <1>0, Turns, Players
<1>9. \A x \in Accounts : balance'[x] = BalanceAt(Last)[x]
  BY <1>0, <1>1, <1>3, <1>6, <1>7, <1>8
<1>10. balance' \in [Accounts -> Int]
  BY <1>0, <1>3, <1>7, <1>8
<1> QED
  BY <1>3, <1>5, <1>7, <1>9, <1>10

\* The auction is spawned with the terms the seller closes it with.
LEMMA SpawnExecuted ==
  ASSUME NEW e \in 0 .. Prepared - 1, e + 1 = Spawned,
         balance = BalanceAt(e), Spawn(Seller, [salt |-> Salt, price |-> 0])
  PROVE  auction' = AuctionAt(e + 1) /\ balance' = BalanceAt(e + 1)
<1> DEFINE t == [salt |-> Salt, price |-> 0]
           n == e + 1
<1>1. t # NoReserve /\ t.salt = Salt /\ t.price = 0
  <2>1. t \in [salt : Salts, price : Prices]
    BY SimulationAssumption
  <2> QED
    BY <2>1, HashAssumption
<1>2. /\ BidsAt(n) = 0 /\ ~(n < Spawned) /\ n < Last /\ e \in 0 .. Last - 1
      /\ e + 1 < Prepared
  BY Numbers DEF BidsAt
<1>3. AuctionAt(n) = [State |-> "OPEN", SellerAccount |-> Seller,
                      ReservePrice |-> Hash(Salt, 0), HighestBid |-> 0,
                      HighestBidder |-> NoAccount, WinProof |-> Empty]
  <2> HIDE DEF n
  <2> QED
    BY <1>2 DEF AuctionAt
<1>4. auction' = [Absent EXCEPT !.State = "OPEN", !.SellerAccount = Seller,
                                !.ReservePrice = Hash(Salt, 0)]
  <2> HIDE DEF t
  <2> QED
    BY <1>1 DEF Spawn, t
<1>5. auction' = AuctionAt(n)
  <2> HIDE DEF n
  <2> DEFINE r1 == [Absent EXCEPT !.State = "OPEN"]
             r2 == [r1 EXCEPT !.SellerAccount = Seller]
             r3 == [r2 EXCEPT !.ReservePrice = Hash(Salt, 0)]
  <2>1. r1 = [State |-> "OPEN", SellerAccount |-> NoAccount,
              ReservePrice |-> Empty, HighestBid |-> 0,
              HighestBidder |-> NoAccount, WinProof |-> Empty]
    BY DEF Absent
  <2>2. auction' = r3
    BY <1>4
  <2> HIDE DEF r1
  <2>3. r2 = [State |-> "OPEN", SellerAccount |-> Seller,
              ReservePrice |-> Empty, HighestBid |-> 0,
              HighestBidder |-> NoAccount, WinProof |-> Empty]
    BY <2>1
  <2> HIDE DEF r2
  <2>4. r3 = AuctionAt(n)
    BY <1>3, <2>3
  <2> QED
    BY <2>2, <2>4
<1>6. balance' = balance
  BY DEF Spawn
<1> QED
  BY <1>2, <1>5, <1>6, NothingChanges

\* What the contracts do with the next transaction is what the script expects.
LEMMA NextExecuted ==
  ASSUME NEW e \in 0 .. Last - 1,
         auction = AuctionAt(e), balance = BalanceAt(e),
         Apply(Script[e + 1])
  PROVE  auction' = AuctionAt(e + 1) /\ balance' = BalanceAt(e + 1)
<1> DEFINE Next1 == auction' = AuctionAt(e + 1) /\ balance' = BalanceAt(e + 1)
<1>0. UNCHANGED vars /\ e + 1 < Prepared /\ e + 1 # Spawned => Next1
  <2>1. e + 1 < Prepared => e < Prepared
    BY Numbers
  <2> QED
    BY <2>1, NothingChanges DEF vars
<1>1. ASSUME e = 0 \/ e = AllAuctions + 1 PROVE Next1
  <2>1. \E n : Script[e + 1] = SpawnAccounts(n)
    <3>1. Script[0 + 1] = SpawnAccounts(Auctions)
      BY ScriptItems
    <3>2. Script[AllAuctions + 1 + 1] = SpawnAccounts(Bids)
      BY ScriptItems, Numbers
    <3> QED
      BY <1>1, <3>1, <3>2
  <2>2. Script[e + 1].op = "spawn accounts"
    BY <2>1, ItemFacts
  <2>3. UNCHANGED vars
    BY <2>2 DEF Apply
  <2>4. e + 1 < Prepared /\ e + 1 # Spawned
    BY <1>1, Numbers
  <2> QED
    BY <1>0, <2>3, <2>4
<1>2. ASSUME NEW k \in 1 .. AllAuctions, e = k PROVE Next1
  <2>1. Script[e + 1] = SpawnAuction(k)
    BY <1>2, ScriptItems
  <2>2. Script[e + 1].op = IF e + 1 = Spawned THEN "spawn" ELSE "spawn another"
    <3> DEFINE m == (Rounds - 1) * Auctions + 1
    <3>1. Script[e + 1].op = IF k = m THEN "spawn" ELSE "spawn another"
      BY <2>1, ItemFacts
    <3>2. Spawned = m + 1 /\ m \in Int
      BY Numbers
    <3> HIDE DEF m
    <3>3. k = m <=> e + 1 = Spawned
      BY <1>2, <3>2
    <3> QED
      BY <3>1, <3>3
  <2>3. e \in 0 .. Prepared - 1 /\ e + 1 < Prepared
    BY <1>2, Numbers
  <2>4. CASE e + 1 = Spawned
    <3>1. Spawn(Seller, [salt |-> Salt, price |-> 0])
      BY <2>2, <2>4 DEF Apply
    <3> QED
      BY <2>3, <2>4, <3>1, SpawnExecuted
  <2>5. CASE e + 1 # Spawned
    <3>1. UNCHANGED vars
      BY <2>2, <2>5 DEF Apply
    <3> QED
      BY <1>0, <2>3, <2>5, <3>1
  <2> QED
    BY <2>4, <2>5
<1>3. ASSUME e = AllAuctions + 2 PROVE Next1
  <2>1. Script[e + 1] = MintAll /\ e = Prepared - 1 /\ e + 1 = Prepared
    BY <1>3, ScriptItems, Numbers
  <2>2. Script[e + 1].op = "mint"
    BY <2>1, ItemFacts
  <2>3. MintForAll
    BY <2>2 DEF Apply
  <2> QED
    BY <2>1, <2>3, MintExecuted
<1>4. ASSUME NEW k \in 1 .. AllBids, e + 1 = Prepared + k PROVE Next1
  <2>1. Script[e + 1] = BidNumber(k)
    BY <1>4, ScriptItems
  <2>2. /\ Script[e + 1].op = "bid" /\ Script[e + 1].bidder = BidderOf(k)
        /\ Script[e + 1].amount = k
    BY <2>1, ItemFacts
  <2>3. PlaceBid(BidderOf(k), PubKey[BidderOf(k)], k, 0)
    BY <2>2 DEF Apply
  <2>4. e = Prepared + (k - 1)
    BY <1>4, Numbers
  <2>5. auction' = AuctionAt(Prepared + k) /\ balance' = BalanceAt(Prepared + k)
    BY <2>3, <2>4, BidExecuted
  <2> QED
    BY <1>4, <2>5
<1>5. ASSUME e + 1 = Last PROVE Next1
  <2>1. Script[e + 1] = Closing /\ e = Last - 1
    BY <1>5, ScriptItems, Numbers
  <2>2. Script[e + 1].op = "close"
    BY <2>1, ItemFacts
  <2>3. CloseSold(Salt, 0) \/ CloseUnsold(Salt, 0)
    BY <2>2 DEF Apply
  <2> QED
    BY <1>5, <2>1, <2>3, CloseExecuted
<1> HIDE DEF Next1
<1>6. Next1
  BY <1>1, <1>2, <1>3, <1>4, <1>5, Positions
<1> QED
  BY <1>6 DEF Next1

------------------------------------------------------------------------------

\* The seller is paid at the end, and never anything before.
LEMMA SellerPaid ==
  ASSUME NEW e \in 0 .. Last
  PROVE  /\ BalanceAt(e)[Seller] \in {0, Bids * Rounds}
         /\ BalanceAt(Last)[Seller] = Bids * Rounds
<1>1. \A n \in 0 .. Last :
        /\ BidsAt(n) \in Nat
        /\ BidsAt(n) > 0 => BidderOf(BidsAt(n)) # Seller
  <2>1. \A n \in 0 .. Last : BidsAt(n) \in Nat
    BY Numbers DEF BidsAt
  <2>2. \A k \in Nat : k > 0 => BidderOf(k) # Seller
    BY Turns
  <2> QED
    BY <2>1, <2>2
<1>2. BidsAt(Last) = Bids * Rounds /\ Last \in 0 .. Last
  BY Numbers DEF BidsAt
<1>3. \A n \in 0 .. Last :
        BalanceAt(n)[Seller] = IF n = Last THEN BidsAt(n) ELSE 0
  <2> TAKE n \in 0 .. Last
  <2> DEFINE k == BidsAt(n)
  <2>1. BalanceAt(n)[Seller] = (IF n >= Prepared /\ Seller \in Funded THEN Coins ELSE 0)
                        - (IF k > 0 /\ Seller = BidderOf(k) THEN k ELSE 0)
                        + (IF n = Last /\ Seller = Seller THEN k ELSE 0)
    BY Players, BalanceOf
  <2>2. k \in Nat /\ ~(k > 0 /\ Seller = BidderOf(k)) /\ Seller \notin Funded
    BY <1>1, Players
  <2> HIDE DEF k
  <2>3. BalanceAt(n)[Seller] = IF n = Last THEN k ELSE 0
    BY <2>1, <2>2
  <2> QED
    BY <2>3 DEF k
<1> QED
  BY <1>2, <1>3

\* How much has been sent.
LEMMA SentType == SimInv => sent \in 0 .. Last /\ sent \in Nat /\ Last \in Nat
<1>1. SimInv => sent \in 0 .. Last
  BY DEF SimInv
<1>2. Last \in Nat
  BY Numbers
<1> QED
  BY <1>1, <1>2

\* The oldest transaction is one that was sent, and the next one of the script
\* if nothing was lost.
LEMMA OldestPending ==
  ASSUME SimInv, pending # <<>>
  PROVE  /\ \E p \in 1 .. sent : Head(pending) = Expected(p)
         /\ Tail(pending) \in Seq(ExpectedUpTo(sent))
         /\ Len(pending) \in Nat /\ Len(pending) > 0
         /\ Len(Tail(pending)) = Len(pending) - 1
         /\ Head(pending) = pending[1]
         /\ \A i \in 1 .. Len(Tail(pending)) : Tail(pending)[i] = pending[i + 1]
<1>1. pending \in Seq(ExpectedUpTo(sent))
  BY DEF SimInv, PendingSent
<1>2. /\ Head(pending) \in ExpectedUpTo(sent)
      /\ Tail(pending) \in Seq(ExpectedUpTo(sent))
      /\ Len(Tail(pending)) = Len(pending) - 1
      /\ \A i \in 1 .. Len(Tail(pending)) : Tail(pending)[i] = pending[i + 1]
  BY <1>1, HeadTailProperties
<1>3. Len(pending) \in Nat /\ Len(pending) > 0 /\ Head(pending) = pending[1]
  BY <1>1, EmptySeq
<1> QED
  BY <1>2, <1>3 DEF ExpectedUpTo

\* The invariant holds when Run starts.
LEMMA SimInitInv == SimInit => SimInv
<1> SUFFICES ASSUME SimInit PROVE SimInv
  OBVIOUS
<1>1. /\ CtAt(0) = 0 /\ BidsAt(0) = 0 /\ 0 < Spawned /\ ~(0 >= Prepared)
      /\ 0 # Last /\ Last \in Nat
  BY Numbers DEF CtAt, BidsAt
<1>2. auction = AuctionAt(0)
  BY <1>1 DEF SimInit, Init, Absent, AuctionAt
<1>3. balance = BalanceAt(0)
  BY <1>1 DEF SimInit, Init, BalanceAt
<1>4. sent = 0 /\ ct = 1 /\ counter = 0 /\ pending = <<>> /\ phase = "sending"
  BY DEF SimInit
<1>5. PendingSent
  <2>1. pending \in Seq(ExpectedUpTo(sent)) /\ Len(pending) = 0
    BY <1>4, EmptySeq
  <2>2. \A e \in 0 .. sent : Len(pending) = sent - e
    <3> TAKE e \in 0 .. sent
    <3>1. e = 0
      BY <1>4
    <3>2. sent - e = 0
      BY <1>4, <3>1
    <3> QED
      BY <2>1, <3>2
  <2>3. \A e, i : i \in 1 .. Len(pending) => pending[i] = Expected(e + i)
    BY <2>1
  <2> QED
    BY <2>1, <2>2, <2>3 DEF PendingSent
<1> QED
  BY <1>1, <1>2, <1>3, <1>4, <1>5 DEF SimInv, Executed

\* The client sends the next transaction of the script, and is told so or not.
LEMMA TransmitInv ==
  ASSUME SimInv, Send \/ SendFails, Transmit
  PROVE  SimInv'
<1>0. PICK e \in 0 .. sent : Executed(e)
  BY DEF SimInv
<1> DEFINE tx == Script[sent + 1]
<1>1. /\ sent \in 0 .. Last - 1 /\ sent' = sent + 1 /\ sent' \in 0 .. Last
      /\ Last \in Nat
  <2>1. sent < Len(Script)
    BY Zenon DEF Send, SendFails
  <2>2. sent' = sent + 1
    BY DEF Transmit
  <2>3. sent \in 0 .. Last
    BY DEF SimInv
  <2>4. Len(Script) = Last
    BY ScriptItems
  <2>5. Last \in Nat
    BY Numbers
  <2> QED
    BY <2>1, <2>2, <2>3, <2>4, <2>5
<1>2. /\ pending' = Append(pending, [tx |-> tx, ct |-> ct])
      /\ ct' = ct + tx.instructions
  BY DEF Transmit
<1>3. /\ counter' = counter /\ lost' = lost /\ auction' = auction
      /\ balance' = balance
  BY DEF Send, SendFails, vars
<1> HIDE DEF tx
<1>4. ct' = 1 + CtAt(sent')
  <2>1. CtAt(sent) \in Nat /\ CtAt(sent + 1) = CtAt(sent) + tx.instructions
        /\ tx.instructions \in Nat
    BY <1>1, CtSteps, CtGrows DEF tx
  <2>2. ct = 1 + CtAt(sent)
    BY DEF SimInv
  <2> QED
    BY <1>1, <1>2, <2>1, <2>2
<1>5. Executed(e)' /\ e \in 0 .. sent'
  BY <1>0, <1>1, <1>3 DEF Executed
<1>6. [tx |-> tx, ct |-> ct] = Expected(sent + 1)
  <2>1. sent + 1 - 1 = sent /\ ct = 1 + CtAt(sent)
    <3>1. ct = 1 + CtAt(sent)
      BY DEF SimInv
    <3> QED
      BY <1>1, <3>1, Numbers
  <2> DEFINE q == sent + 1
  <2>2. q - 1 = sent
    BY <1>1
  <2>3. tx = Script[q]
    BY DEF tx
  <2> HIDE DEF q
  <2>4. [tx |-> tx, ct |-> ct] = Expected(q)
    BY <2>1, <2>2, <2>3 DEF Expected
  <2> QED
    BY <2>4 DEF q
<1>7. /\ pending' \in Seq(ExpectedUpTo(sent + 1)) /\ Len(pending') = Len(pending) + 1
      /\ \A i \in 1 .. Len(pending) : pending'[i] = pending[i]
      /\ pending'[Len(pending) + 1] = Expected(sent + 1)
      /\ Len(pending) \in Nat
  <2>1. /\ ExpectedUpTo(sent) \subseteq ExpectedUpTo(sent + 1)
        /\ Expected(sent + 1) \in ExpectedUpTo(sent + 1)
    BY <1>1 DEF ExpectedUpTo
  <2>2. pending \in Seq(ExpectedUpTo(sent))
    BY DEF SimInv, PendingSent
  <2>3. pending \in Seq(ExpectedUpTo(sent + 1))
    BY <2>1, <2>2, SeqMonotonic
  <2> DEFINE x == Expected(sent + 1)
  <2>4. pending' = Append(pending, x) /\ x \in ExpectedUpTo(sent + 1)
    BY <1>2, <1>6, <2>1
  <2> HIDE DEF x
  <2> QED
    BY <2>3, <2>4, AppendProperties, LenProperties DEF x
<1>8. ASSUME ~lost', NEW f \in 0 .. sent', counter' = CtAt(f)
      PROVE  /\ Len(pending') = sent' - f
             /\ \A i \in 1 .. Len(pending') : pending'[i] = Expected(f + i)
  <2>1. counter = CtAt(e) /\ counter = CtAt(f) /\ e \in 0 .. Last /\ f \in 0 .. Last
    BY <1>0, <1>1, <1>3, <1>8 DEF Executed
  <2>2. f = e
    BY <2>1, CtTells
  <2>3. /\ Len(pending) = sent - e
        /\ \A i \in 1 .. Len(pending) : pending[i] = Expected(e + i)
    BY <1>3, <1>8, <2>1 DEF SimInv, PendingSent
  <2>4. Len(pending) + 1 = sent' - f /\ f + (Len(pending) + 1) = sent + 1
    BY <1>1, <2>2, <2>3
  <2>5. ASSUME NEW i \in 1 .. Len(pending') PROVE pending'[i] = Expected(f + i)
    <3>1. CASE i \in 1 .. Len(pending)
      BY <1>7, <2>2, <2>3, <3>1
    <3>2. CASE i = Len(pending) + 1
      BY <1>7, <2>4, <3>2
    <3> QED
      BY <1>7, <3>1, <3>2
  <2> QED
    BY <1>7, <2>4, <2>5
<1>9. PendingSent'
  BY <1>1, <1>7, <1>8 DEF PendingSent
<1>10. ~lost' => /\ phase' \notin {"refused", "wrong amount"}
                 /\ phase' = "sending" /\ sent' = Last => pending' = <<>>
  <2>1. sent' = Last => tx.waits
    BY <1>1, ScriptItems, ItemFacts DEF tx
  <2>2. \/ phase' = (IF tx.waits THEN "waiting" ELSE "sending")
        \/ phase' = "send failed"
    BY DEF Send, SendFails, tx
  <2> QED
    BY <2>1, <2>2
<1> QED
  BY <1>1, <1>4, <1>5, <1>9, <1>10 DEF SimInv

\* The ledger accepts the next transaction of the script.
LEMMA IncludeInv == SimInv /\ Include => SimInv' /\ counter' > counter
<1> SUFFICES ASSUME SimInv, Include PROVE SimInv' /\ counter' > counter
  OBVIOUS
<1> DEFINE next == Head(pending)
<1>1. /\ pending # <<>> /\ next.ct = counter + 1 /\ Apply(next.tx)
      /\ counter' = counter + next.tx.instructions
      /\ pending' = Tail(pending)
      /\ phase' = IF phase = "waiting" /\ Len(pending) = 1 THEN "sending" ELSE phase
      /\ sent' = sent /\ ct' = ct /\ lost' = lost
  BY DEF Include, Answer
<1>2. PICK p \in 1 .. sent : next = Expected(p)
  BY <1>1, OldestPending
<1>3. PICK e \in 0 .. sent : Executed(e)
  BY DEF SimInv
<1>4. /\ sent \in 0 .. Last /\ Last \in Nat
      /\ e \in 0 .. Last /\ p - 1 \in 0 .. Last /\ p - 1 \in 0 .. Last - 1
      /\ p \in 0 .. Last /\ p - 1 + 1 = p
  BY SentType
<1>5. next.tx = Script[p] /\ next.ct = 1 + CtAt(p - 1)
  BY <1>2 DEF Expected
<1> HIDE DEF next
<1>6. e = p - 1 /\ counter = CtAt(p - 1)
  <2>1. counter = CtAt(e) /\ CtAt(e) \in Nat /\ CtAt(p - 1) \in Nat
    BY <1>3, <1>4, CtGrows DEF Executed
  <2>2. CtAt(e) = CtAt(p - 1)
    BY <1>1, <1>5, <2>1
  <2> QED
    BY <1>4, <2>1, <2>2, CtTells
<1>7. counter' = CtAt(p) /\ counter' > counter
  <2> DEFINE q == p - 1
  <2>1. q \in 0 .. Last - 1 /\ q + 1 = p /\ q \in 0 .. Last
    BY <1>4
  <2> HIDE DEF q
  <2>2. /\ Script[q + 1].instructions \in Nat \ {0}
        /\ CtAt(q + 1) = CtAt(q) + Script[q + 1].instructions
        /\ CtAt(q) \in Nat
    BY <2>1, CtSteps, CtGrows
  <2>3. counter = CtAt(q)
    BY <1>6 DEF q
  <2> QED
    BY <1>1, <1>5, <2>1, <2>2, <2>3
<1>8. auction' = AuctionAt(p) /\ balance' = BalanceAt(p)
  <2> DEFINE q == p - 1
  <2>1. q \in 0 .. Last - 1 /\ q + 1 = p
    BY <1>4
  <2>2. auction = AuctionAt(q) /\ balance = BalanceAt(q)
    BY <1>3, <1>6 DEF Executed
  <2> HIDE DEF q
  <2>3. Apply(Script[q + 1])
    BY <1>1, <1>5, <2>1
  <2> QED
    BY <2>1, <2>2, <2>3, NextExecuted
<1>9. p \in 0 .. sent' /\ Executed(p)'
  BY <1>1, <1>7, <1>8 DEF Executed
<1>10. ASSUME ~lost', NEW f \in 0 .. sent', counter' = CtAt(f)
       PROVE  /\ Len(pending') = sent' - f
              /\ \A i \in 1 .. Len(pending') : pending'[i] = Expected(f + i)
  <2>1. f = p /\ f \in 0 .. Last
    <3>1. f \in 0 .. Last /\ CtAt(f) = CtAt(p)
      BY <1>1, <1>4, <1>7, <1>10
    <3> QED
      BY <1>4, <3>1, CtTells
  <2>2. /\ Len(pending) = sent - e
        /\ \A i \in 1 .. Len(pending) : pending[i] = Expected(e + i)
    BY <1>1, <1>3, <1>10 DEF SimInv, PendingSent, Executed
  <2>3. /\ Len(pending') = Len(pending) - 1
        /\ \A i \in 1 .. Len(pending') : pending'[i] = pending[i + 1]
        /\ Len(pending) \in Nat
    BY <1>1, OldestPending
  <2>4. Len(pending') = sent' - f
    BY <1>1, <1>4, <1>6, <2>1, <2>2, <2>3
  <2>5. ASSUME NEW i \in 1 .. Len(pending') PROVE pending'[i] = Expected(f + i)
    <3>1. i + 1 \in 1 .. Len(pending) /\ e + (i + 1) = f + i
      BY <1>4, <1>6, <2>1, <2>3
    <3>2. pending'[i] = pending[i + 1] /\ pending[i + 1] = Expected(e + (i + 1))
      BY <2>2, <2>3, <3>1
    <3> QED
      BY <3>1, <3>2
  <2> QED
    BY <2>4, <2>5
<1>11. PendingSent'
  BY <1>1, <1>10, OldestPending DEF PendingSent
<1>12. ~lost' => /\ phase' \notin {"refused", "wrong amount"}
                 /\ phase' = "sending" /\ sent' = Last => pending' = <<>>
  <2> SUFFICES ASSUME ~lost'
               PROVE  /\ phase' \notin {"refused", "wrong amount"}
                      /\ phase' = "sending" /\ sent' = Last => pending' = <<>>
    OBVIOUS
  <2>1. /\ phase \notin {"refused", "wrong amount"}
        /\ phase = "sending" /\ sent = Last => pending = <<>>
    BY <1>1 DEF SimInv
  <2>2. Len(pending) = 1 => pending' = <<>>
    BY <1>1, OldestPending, EmptySeq
  <2> QED
    BY <1>1, <2>1, <2>2
<1> QED
  BY <1>1, <1>7, <1>9, <1>11, <1>12 DEF SimInv

\* The ledger refuses a transaction only after a loss.
LEMMA RefuseLost == SimInv /\ Refuse => lost
<1> SUFFICES ASSUME SimInv, Refuse, ~lost PROVE FALSE
  BY DEF SimInv
<1>1. PICK e \in 0 .. sent : Executed(e)
  BY DEF SimInv
<1>2. pending # <<>>
  BY DEF Refuse
<1>3. /\ Len(pending) = sent - e
      /\ \A i \in 1 .. Len(pending) : pending[i] = Expected(e + i)
  BY <1>1 DEF SimInv, PendingSent, Executed
<1>4. Head(pending) = Expected(e + 1) /\ e < sent
  BY <1>2, <1>3, OldestPending, SentType
<1>5. e \in 0 .. Last - 1 /\ e + 1 - 1 = e
  BY <1>4, SentType
<1>6. Head(pending).tx = Script[e + 1] /\ Head(pending).ct = 1 + CtAt(e)
  BY <1>4, <1>5 DEF Expected
<1>7. Accepted(Script[e + 1])
  BY <1>1, <1>5, NextAccepted DEF Executed
<1>8. counter = CtAt(e) /\ CtAt(e) \in Nat
  BY <1>1, <1>5, CtGrows, Numbers DEF Executed
<1> QED
  BY <1>6, <1>7, <1>8 DEF Refuse

\* After a loss little remains to be said of the transactions pending.
LEMMA LostInv ==
  ASSUME SimInv, lost', UNCHANGED <<vars, sent, ct, counter>>,
         pending' = pending \/ (pending # <<>> /\ pending' = Tail(pending))
  PROVE  SimInv'
<1>1. PICK e \in 0 .. sent : Executed(e)
  BY DEF SimInv
<1>2. Executed(e)'
  BY <1>1 DEF Executed, vars
<1>3. pending' \in Seq(ExpectedUpTo(sent'))
  BY OldestPending DEF SimInv, PendingSent
<1> QED
  BY <1>1, <1>2, <1>3 DEF SimInv, PendingSent

\* A step of the client alone, or none.
LEMMA ClientInv ==
  ASSUME SimInv, UNCHANGED <<vars, sent, ct, pending, counter, lost>>,
         ~lost => /\ phase' \notin {"refused", "wrong amount"}
                  /\ phase' = "sending" => phase = "sending"
  PROVE  SimInv'
<1>1. PICK e \in 0 .. sent : Executed(e)
  BY DEF SimInv
<1>2. Executed(e)'
  BY <1>1 DEF Executed, vars
<1>3. PendingSent'
  BY DEF SimInv, PendingSent
<1> QED
  BY <1>1, <1>2, <1>3 DEF SimInv

\* If nothing was lost, everything is executed when Run reads the account.
LEMMA CheckGood == SimInv /\ CheckSeller /\ ~lost => phase' = "done"
<1> SUFFICES ASSUME SimInv, CheckSeller, ~lost PROVE phase' = "done"
  OBVIOUS
<1>1. PICK e \in 0 .. sent : Executed(e)
  BY DEF SimInv
<1>2. sent = Last /\ phase = "sending" /\ Last \in Nat
  BY ScriptItems, SentType DEF CheckSeller
<1>3. pending = <<>> /\ Len(pending) = sent - e
  BY <1>1, <1>2 DEF SimInv, PendingSent, Executed
<1>4. e = Last
  BY <1>2, <1>3, EmptySeq
<1>5. balance[Seller] = Bids * Rounds
  BY <1>1, <1>2, <1>4, SellerPaid DEF Executed
<1> QED
  BY <1>5 DEF CheckSeller

\* Every step keeps the invariant.
LEMMA SimNextInv == SimInv /\ [SimNext]_simVars => SimInv'
<1> SUFFICES ASSUME SimInv, [SimNext]_simVars PROVE SimInv'
  OBVIOUS
<1>1. CASE Send
  BY <1>1, TransmitInv DEF Send
<1>8. CASE SendFails
  <2>1. CASE Transmit
    BY <1>8, <2>1, TransmitInv
  <2>2. CASE UNCHANGED <<sent, ct, pending>>
    BY <1>8, <2>2, ClientInv DEF SendFails
  <2> QED
    BY <1>8, <2>1, <2>2 DEF SendFails
<1>2. CASE Include
  BY <1>2, IncludeInv
<1>3. CASE Refuse
  <2>1. lost /\ lost' = lost
    BY <1>3, RefuseLost DEF Refuse
  <2> QED
    BY <1>3, <2>1, LostInv DEF Refuse
<1>4. CASE Lose
  BY <1>4, LostInv DEF Lose
<1>5. CASE TimeOut
  BY <1>5, ClientInv DEF TimeOut
<1>6. CASE CheckSeller
  <2>1. ~lost => phase' = "done"
    BY <1>6, CheckGood
  <2> QED
    BY <1>6, <2>1, ClientInv DEF CheckSeller
<1>9. CASE ReadFails
  BY <1>9, ClientInv DEF ReadFails
<1>7. CASE UNCHANGED simVars
  <2>1. ~lost => phase' \notin {"refused", "wrong amount"}
    BY <1>7 DEF SimInv, simVars
  <2> QED
    BY <1>7, <2>1, ClientInv DEF simVars
<1> QED
  BY <1>1, <1>2, <1>3, <1>4, <1>5, <1>6, <1>7, <1>8, <1>9
  DEF SimNext, ClientGoesOn

\* The ledger executes a prefix of the script, and nothing else.
THEOREM SimInvariance == SimSpec => []SimInv
<1> QED
  BY SimInitInv, SimNextInv, PTL DEF SimSpec

\* The seller's account holds the last bid or nothing, whatever is lost, late or
\* refused, for any numbers of auctions, bidders and rounds
\* (open_auction.go:348-361, 401).
THEOREM SellerPaidOnce == SimSpec => []SellerAllOrNothing
<1>1. SimInv => SellerAllOrNothing
  <2> SUFFICES ASSUME SimInv PROVE SellerAllOrNothing
    OBVIOUS
  <2>1. PICK e \in 0 .. sent : Executed(e)
    BY DEF SimInv
  <2>2. e \in 0 .. Last
    BY SentType
  <2> QED
    BY <2>1, <2>2, SellerPaid DEF Executed, SellerAllOrNothing
<1> QED
  BY <1>1, SimInvariance, PTL

\* Run fails only after a loss: no transaction it waits for is refused and the
\* amount at the end is right (open_auction.go:350-361, 432-434).
THEOREM FailureMeansLoss == SimSpec => []FailsOnlyAfterLoss
<1>1. SimInv => FailsOnlyAfterLoss
  BY DEF SimInv, FailsOnlyAfterLoss
<1> QED
  BY <1>1, SimInvariance, PTL

\* However far the client runs ahead, counters, amounts and funds are right when
\* the ledger gets to a transaction: it refuses none unless an earlier one was
\* lost (open_auction.go:289-363).
THEOREM ScriptNeverRefused == SimSpec => NothingRefused
<1>1. SimInv /\ [SimNext]_simVars
        => [pending # <<>> /\ pending' = Tail(pending)
              => lost' \/ counter' > counter]_simVars
  <2> SUFFICES ASSUME SimInv, SimNext, pending # <<>>, pending' = Tail(pending)
               PROVE  lost' \/ counter' > counter
    OBVIOUS
  <2>1. pending' # pending
    <3>1. Len(pending') = Len(pending) - 1 /\ Len(pending) \in Nat
      BY OldestPending
    <3>2. pending' = pending => Len(pending') = Len(pending)
      OBVIOUS
    <3>3. \A n \in Nat : n - 1 # n
      OBVIOUS
    <3> QED
      BY <3>1, <3>2, <3>3, Zenon
  <2>2. ~Transmit
    <3> SUFFICES ASSUME Transmit PROVE FALSE
      OBVIOUS
    <3>1. Len(pending') = Len(pending) - 1 /\ Len(pending) \in Nat
      BY OldestPending
    <3>2. Len(pending') = Len(pending) + 1
      <4>1. \E x : pending' = Append(pending, x)
        BY Zenon DEF Transmit
      <4>2. \E S : pending \in Seq(S)
        BY Zenon DEF SimInv, PendingSent
      <4>3. \A S, q, x : q \in Seq(S) => Len(Append(q, x)) = Len(q) + 1
        BY LenProperties, AppendProperties
      <4> QED
        BY <4>1, <4>2, <4>3, Zenon
    <3> QED
      BY <3>1, <3>2
  <2>3. CASE Include
    BY <2>3, IncludeInv
  <2>4. CASE Refuse
    BY <2>4, RefuseLost DEF Refuse
  <2>5. CASE Lose
    BY <2>5 DEF Lose
  <2>6. ~ClientGoesOn /\ ~TimeOut
    BY <2>1, <2>2
    DEF ClientGoesOn, Send, SendFails, CheckSeller, ReadFails, TimeOut
  <2> QED
    BY <2>3, <2>4, <2>5, <2>6 DEF SimNext
<1> QED
  BY <1>1, SimInvariance, PTL DEF SimSpec, NothingRefused
==============================================================================
