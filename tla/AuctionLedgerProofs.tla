------------------------- MODULE AuctionLedgerProofs -------------------------
(***************************************************************************)
(* The open auction under transactions of any shape and length: what       *)
(* OpenAuctionProofs shows of the clients' transactions holds in every     *)
(* state a transaction can stage, and therefore in every committed one.    *)
(***************************************************************************)
EXTENDS AuctionLedger, OpenAuctionProofs, FiniteSetTheorems

\* The invariant of OpenAuctionProofs on the committed state, which a roll-back
\* returns to.
Saved == INSTANCE OpenAuctionProofs WITH
  balance <- committed.balance,
  auction <- committed.auction,
  terms <- committed.terms,
  minted <- committed.minted,
  unbacked <- committed.unbacked,
  proceeds <- committed.proceeds,
  opened <- committed.opened,
  accepted <- committed.accepted

\* The inductive invariant.
LInv ==
  /\ LedgerTypeOK
  /\ IInv
  /\ Saved!IInv

------------------------------------------------------------------------------

\* The constants of the instance are those of OpenAuction.
LEMMA SavedConstants ==
  /\ Saved!Amounts = Amounts /\ Saved!Terms = Terms /\ Saved!Empty = Empty
  /\ Saved!AuctionData = AuctionData /\ Saved!BidRecords = BidRecords
  /\ Saved!Absent = Absent /\ Saved!BidderAccounts = BidderAccounts
<1>1. /\ Saved!Amounts = Amounts /\ Saved!Terms = Terms /\ Saved!Empty = Empty
      /\ Saved!BidderAccounts = BidderAccounts
  BY DEF Saved!Amounts, Amounts, Saved!Terms, Terms, Saved!Empty, Empty,
         Saved!BidderAccounts, BidderAccounts
<1> QED
  BY <1>1
  DEF Saved!AuctionData, AuctionData, Saved!BidRecords, BidRecords,
      Saved!Absent, Absent

\* The staged state is the committed one.
Clean ==
  /\ balance = committed.balance
  /\ auction = committed.auction
  /\ terms = committed.terms
  /\ minted = committed.minted
  /\ unbacked = committed.unbacked
  /\ proceeds = committed.proceeds
  /\ opened = committed.opened
  /\ accepted = committed.accepted

\* Then the invariant says the same of both.
LEMMA CleanInv == Clean => (IInv <=> Saved!IInv)
<1> SUFFICES ASSUME Clean PROVE IInv <=> Saved!IInv
  OBVIOUS
<1>1. Live <=> Saved!Live
  BY DEF Clean, Live, Saved!Live
<1>2. TypeOK <=> Saved!TypeOK
  BY SavedConstants DEF Clean, TypeOK, Saved!TypeOK
<1>3. LifecycleCoherent <=> Saved!LifecycleCoherent
  BY SavedConstants DEF Clean, LifecycleCoherent, Saved!LifecycleCoherent
<1>4. RecordCoherent <=> Saved!RecordCoherent
  BY SavedConstants DEF Clean, RecordCoherent, Saved!RecordCoherent
<1>5. CommitmentCoherent <=> Saved!CommitmentCoherent
  BY SavedConstants DEF Clean, CommitmentCoherent, Saved!CommitmentCoherent
<1>6. AccountsBalanced <=> Saved!AccountsBalanced
  BY <1>1
  DEF Clean, AccountsBalanced, Saved!AccountsBalanced, Claim, Saved!Claim,
      Earned, Saved!Earned
<1>7. WinnerIsBestAccepted <=> Saved!WinnerIsBestAccepted
  BY DEF Clean, WinnerIsBestAccepted, Saved!WinnerIsBestAccepted
<1>8. ReserveRespected <=> Saved!ReserveRespected
  BY DEF Clean, ReserveRespected, Saved!ReserveRespected
<1> QED
  BY <1>2, <1>3, <1>4, <1>5, <1>6, <1>7, <1>8 DEF IInv, Saved!IInv

\* What is committed stays as it is while a transaction is executed.
LEMMA SavedStays == Saved!IInv /\ UNCHANGED committed => Saved!IInv'
<1> SUFFICES ASSUME Saved!IInv, UNCHANGED committed PROVE Saved!IInv'
  OBVIOUS
<1>1. Saved!TypeOK' /\ Saved!LifecycleCoherent' /\ Saved!RecordCoherent'
  BY DEF Saved!IInv, Saved!TypeOK, Saved!LifecycleCoherent, Saved!RecordCoherent
<1>2. Saved!CommitmentCoherent' /\ Saved!ReserveRespected'
  BY DEF Saved!IInv, Saved!CommitmentCoherent, Saved!ReserveRespected
<1>3. Saved!AccountsBalanced'
  BY DEF Saved!IInv, Saved!AccountsBalanced, Saved!Claim, Saved!Live, Saved!Earned
<1>4. Saved!WinnerIsBestAccepted'
  BY DEF Saved!IInv, Saved!WinnerIsBestAccepted
<1> QED
  BY <1>1, <1>2, <1>3, <1>4 DEF Saved!IInv

------------------------------------------------------------------------------

\* The initial state satisfies the invariant.
LEMMA LedgerInitLInv == LedgerInit => LInv
<1> SUFFICES ASSUME LedgerInit PROVE LInv
  OBVIOUS
<1>1. IInv
  BY InitIInv DEF LedgerInit
<1>2. Saved!IInv
  BY <1>1, CleanInv DEF LedgerInit, Staged, Clean
<1>3. LedgerTypeOK
  BY <1>1, LedgerBoundAssumption DEF LedgerInit, IInv, LedgerTypeOK, NoCoins, Start
<1> QED
  BY <1>1, <1>2, <1>3 DEF LInv

\* Fetching coins preserves the invariant of the auction: the account has less,
\* and has received nothing for it yet.
LEMMA FetchIInv ==
  ASSUME IInv, NEW a \in Accounts, NEW amount \in Amounts, Fetch(a, amount)
  PROVE  IInv'
<1>1. /\ balance' = [balance EXCEPT ![a] = @ - amount]
      /\ unbacked' = [unbacked EXCEPT ![a] = @ - amount]
      /\ balance[a] >= amount
      /\ UNCHANGED <<auction, terms, minted, proceeds, opened, accepted>>
  BY DEF Fetch
<1>2. TypeOK'
  <2>1. balance' \in [Accounts -> Amounts]
    BY <1>1, AmountAssumption DEF IInv, TypeOK, Amounts
  <2>2. unbacked' \in [BidderAccounts -> Int]
    BY <1>1, AmountAssumption DEF IInv, TypeOK, Amounts, BidderAccounts
  <2> QED
    BY <1>1, <2>1, <2>2 DEF IInv, TypeOK
<1>3. AccountsBalanced'
  <2> SUFFICES ASSUME NEW q \in Accounts
               PROVE  balance'[q] + Claim(q)' = minted'[q] + unbacked'[q] + Earned(q)'
    BY DEF AccountsBalanced
  <2>1. Claim(q)' = Claim(q) /\ Earned(q)' = Earned(q) /\ minted' = minted
    BY <1>1 DEF Claim, Earned, Live
  <2>2. balance[q] + Claim(q) = minted[q] + unbacked[q] + Earned(q)
    BY DEF IInv, AccountsBalanced
  <2>3. Claim(q) \in Int /\ Earned(q) \in Int
    BY ClaimType DEF IInv
  <2> QED
    BY <1>1, <2>1, <2>2, <2>3, AmountAssumption
    DEF IInv, TypeOK, BidderAccounts, Amounts
<1> QED
  BY <1>1, <1>2, <1>3
  DEF IInv, LifecycleCoherent, RecordCoherent, CommitmentCoherent,
      WinnerIsBestAccepted, ReserveRespected

\* What is left to show of an instruction once the auction's invariant holds.
LEMMA ExecuteLInv ==
  ASSUME LInv, IInv', Execute, coins' \in [CoinNames -> Nat],
         shape' \in [kind : {"start", "fetched", "client", "other"},
                     account : Accounts \cup {NoAccount}]
  PROVE  LInv'
<1>1. Saved!IInv'
  BY SavedStays DEF LInv, Execute
<1>2. executed' \in 0 .. MaxInstructions
  BY LedgerBoundAssumption DEF LInv, LedgerTypeOK, Execute
<1> QED
  BY <1>1, <1>2 DEF LInv, LedgerTypeOK, IInv

\* An instruction the clients send alone.
LEMMA AloneType ==
  ASSUME Alone
  PROVE  shape' \in [kind : {"start", "fetched", "client", "other"},
                     account : Accounts \cup {NoAccount}]
  BY DEF Alone, ClientShape, OtherShape

\* No coins are coins.
LEMMA NoCoinsType == NoCoins \in [CoinNames -> Nat]
  BY DEF NoCoins

\* What a transaction that ends leaves.
LEMMA EndLInv ==
  ASSUME LedgerTypeOK, IInv', Saved!IInv', executed' = 0, coins' = NoCoins,
         shape' = Start
  PROVE  LInv'
<1>1. executed' \in 0 .. MaxInstructions
  BY LedgerBoundAssumption
<1> QED
  BY <1>1, NoCoinsType DEF LInv, LedgerTypeOK, IInv, Start

\* Every step preserves the invariant.
LEMMA LedgerNextLInv == LInv /\ [LedgerNext]_ledgerVars => LInv'
<1> SUFFICES ASSUME LInv, [LedgerNext]_ledgerVars PROVE LInv'
  OBVIOUS
<1>0. IInv /\ Saved!IInv /\ LedgerTypeOK
  BY DEF LInv
<1>1. ASSUME NEW a \in Accounts, NEW amount \in 1 .. MaxCoin, MintCoins(a, amount)
      PROVE  LInv'
  <2>1. IInv'
    BY <1>0, <1>1, MintIInv DEF MintCoins
  <2> QED
    BY <1>0, <1>1, <2>1, ExecuteLInv, AloneType DEF MintCoins, LedgerTypeOK
<1>2. ASSUME NEW a \in Accounts, NEW amount \in Amounts, Fetch(a, amount)
      PROVE  LInv'
  <2>1. IInv'
    BY <1>0, <1>2, FetchIInv
  <2>2. coins' \in [CoinNames -> Nat]
    BY <1>0, <1>2, NameAssumption, AmountAssumption
    DEF Fetch, BidderAccounts, LedgerTypeOK, Amounts
  <2>3. shape' \in [kind : {"start", "fetched", "client", "other"},
                    account : Accounts \cup {NoAccount}]
    BY <1>2 DEF Fetch, Fetched, OtherShape
  <2> QED
    BY <1>2, <2>1, <2>2, <2>3, ExecuteLInv DEF Fetch
<1>3. ASSUME NEW seller \in Sellers, NEW t \in Terms \cup {NoReserve},
             SpawnAuction(seller, t)
      PROVE  LInv'
  <2>1. IInv'
    BY <1>0, <1>3, SpawnIInv DEF SpawnAuction
  <2> QED
    BY <1>0, <1>3, <2>1, ExecuteLInv, AloneType DEF SpawnAuction, LedgerTypeOK
<1>4. ASSUME NEW a \in BidderAccounts, NEW key \in Keys, NEW d \in DeclaredBids,
             Bid(a, key, d)
      PROVE  LInv'
  <2> DEFINE all == Add64(d, coins[NameOf[a]])
  <2>1. all \in Amounts
    BY <1>0, NameAssumption, AmountAssumption
    DEF Add64, Amounts, LedgerTypeOK
  <2>2. 0 \in Amounts
    BY AmountAssumption DEF Amounts
  <2>3. PlaceBid(a, key, 0, all)
    BY <1>4 DEF Bid
  <2> HIDE DEF all
  <2>4. IInv'
    BY <1>0, <2>1, <2>2, <2>3, PlaceBidIInv
  <2>5. shape' \in [kind : {"start", "fetched", "client", "other"},
                    account : Accounts \cup {NoAccount}]
    BY <1>4 DEF Bid, ClientShape, OtherShape
  <2> QED
    BY <1>4, <2>4, <2>5, ExecuteLInv, NoCoinsType DEF Bid
<1>5. ASSUME NEW salt \in Salts, NEW price \in Prices, CloseAuction(salt, price)
      PROVE  LInv'
  <2>1. IInv'
    BY <1>0, <1>5, CloseSoldIInv, StutterIInv DEF CloseAuction, CloseUnsold
  <2> QED
    BY <1>5, <2>1, ExecuteLInv, AloneType, NoCoinsType DEF CloseAuction
<1>6. CASE VoidAuction
  <2>1. IInv'
    BY <1>0, <1>6, VoidIInv DEF VoidAuction, Drop, ForceClose
  <2> QED
    BY <1>6, <2>1, ExecuteLInv, AloneType, NoCoinsType DEF VoidAuction
<1>7. CASE Commit
  <2>1. IInv'
    BY <1>0, <1>7, StutterIInv DEF Commit
  <2>2. Clean'
    BY <1>7 DEF Commit, Staged, Clean, vars, history
  <2>3. (Clean => (IInv <=> Saved!IInv))'
    BY CleanInv, PTL
  <2>4. Saved!IInv'
    BY <2>1, <2>2, <2>3
  <2> QED
    BY <1>0, <1>7, <2>1, <2>4, EndLInv DEF Commit
<1>8. CASE Abort
  <2>1. Saved!IInv'
    BY <1>0, <1>8, SavedStays DEF Abort
  <2>2. Clean'
    BY <1>8 DEF Abort, Clean
  <2>3. (Clean => (IInv <=> Saved!IInv))'
    BY CleanInv, PTL
  <2>4. IInv'
    BY <2>1, <2>2, <2>3
  <2> QED
    BY <1>0, <1>8, <2>1, <2>4, EndLInv DEF Abort
<1>9. CASE UNCHANGED ledgerVars
  <2>1. IInv' /\ Saved!IInv'
    BY <1>0, <1>9, StutterIInv, SavedStays DEF ledgerVars
  <2> QED
    BY <1>0, <1>9, <2>1 DEF LInv, LedgerTypeOK, IInv, ledgerVars
<1> QED
  BY <1>1, <1>2, <1>3, <1>4, <1>5, <1>6, <1>7, <1>8, <1>9 DEF LedgerNext

\* The invariant holds in every state of the ledger, staged or committed.
THEOREM LedgerInvariance == LedgerSpec => []LInv
<1> QED
  BY LedgerInitLInv, LedgerNextLInv, PTL DEF LedgerSpec

\* Accounts and record keep their types through every transaction, finished or
\* not, and the coins passed on are never negative.
THEOREM LedgerTypeCorrect == LedgerSpec => []LedgerTypeOK
<1>1. LInv => LedgerTypeOK
  BY DEF LInv
<1> QED
  BY <1>1, LedgerInvariance, PTL

\* Coins are accounted for after every instruction of every transaction, in the
\* shape of the clients or not, rolled back or not (auction.go:96-371).
THEOREM LedgerCoinsAccountedFor == LedgerSpec => []AccountsBalanced
<1>1. LInv => AccountsBalanced
  BY DEF LInv, IInv
<1> QED
  BY <1>1, LedgerInvariance, PTL

\* So do the reserve price and the best bid hold in what readers of the ledger
\* see.
THEOREM CommittedRecordIsBest ==
  LedgerSpec => [](Saved!WinnerIsBestAccepted /\ Saved!ReserveRespected)
<1>1. LInv => Saved!WinnerIsBestAccepted /\ Saved!ReserveRespected
  BY DEF LInv, Saved!IInv
<1> QED
  BY <1>1, LedgerInvariance, PTL
------------------------------------------------------------------------------

\* Sums over finite sets.  MapThenSumSet adds up the elements of a set one by
\* one, in an order of its own; what it computes is shown by looking at the
\* smallest set for which it would be wrong.
Sum(f, S) == MapThenSumSet(LAMBDA a : f[a], S)

\* The element that is added last, and the sum according to the other ones.
Pick(s) == CHOOSE x \in s : TRUE
Added(h, f, s) == IF s = {} THEN 0 ELSE f[Pick(s)] + h[s \ {Pick(s)}]

\* The least number principle, in the form first-order provers can use.
LEMMA LeastOf ==
  ASSUME NEW T \in SUBSET Nat, T # {}
  PROVE  \E n \in T : \A m \in T : ~(m < n)
<1>1. \E n \in T : \A m \in T : <<m, n>> \notin OpToRel(<, Nat)
  BY WFMin, NatLessThanWellFounded, Zenon
<1> QED
  BY <1>1 DEF OpToRel

\* It is one of them.
LEMMA PickIn == \A s : s # {} => Pick(s) \in s
  BY DEF Pick

\* There is a function that adds up the subsets with n elements at most, ...
LEMMA PartialSum ==
  ASSUME NEW f, NEW S, IsFiniteSet(S), NEW n \in Nat
  PROVE  \E h : \A s \in SUBSET S : Cardinality(s) <= n => h[s] = Added(h, f, s)
<1> DEFINE Good(k) == \E h : \A s \in SUBSET S : Cardinality(s) <= k => h[s] = Added(h, f, s)
<1> DEFINE T == {k \in Nat : ~Good(k)}
<1>card. \A s \in SUBSET S : /\ Cardinality(s) \in Nat
                             /\ Cardinality(s) = 0 <=> s = {}
                             /\ \A x \in s : Cardinality(s \ {x}) = Cardinality(s) - 1
  BY FS_Subset, FS_CardinalityType, FS_EmptySet, FS_RemoveElement
<1>0. Good(0)
  <2> DEFINE h0 == [s \in SUBSET S |-> 0]
  <2>1. \A s \in SUBSET S : Cardinality(s) <= 0 => h0[s] = Added(h0, f, s)
    BY <1>card DEF Added
  <2> QED BY <2>1
<1>1. ASSUME NEW k \in Nat, Good(k) PROVE Good(k + 1)
  <2> PICK h : \A s \in SUBSET S : Cardinality(s) <= k => h[s] = Added(h, f, s)
    BY <1>1
  <2> DEFINE hh == [s \in SUBSET S |-> IF Cardinality(s) <= k THEN h[s] ELSE Added(h, f, s)]
  <2>1. ASSUME NEW s \in SUBSET S, Cardinality(s) <= k + 1
        PROVE  hh[s] = Added(hh, f, s)
    <3>1. CASE s = {}
      BY <3>1, <1>card DEF Added
    <3>2. CASE s # {}
      <4>1. Pick(s) \in s
        BY <3>2, PickIn
      <4>2. Cardinality(s \ {Pick(s)}) <= k /\ s \ {Pick(s)} \in SUBSET S
        BY <4>1, <1>card, <2>1
      <4>3. hh[s \ {Pick(s)}] = h[s \ {Pick(s)}]
        BY <4>2
      <4>4. hh[s] = Added(h, f, s)
        OBVIOUS
      <4> QED BY <4>3, <4>4 DEF Added
    <3> QED BY <3>1, <3>2
  <2> QED BY <2>1, Zenon
<1>2. T = {}
  <2> SUFFICES ASSUME T # {} PROVE FALSE
    OBVIOUS
  <2>1. T \in SUBSET Nat
    OBVIOUS
  <2> HIDE DEF Good
  <2>2. PICK k \in T : \A m \in T : ~(m < k)
    BY <2>1, LeastOf
  <2>3. k \in Nat /\ k # 0 /\ ~Good(k)
    BY <1>0
  <2>4. Good(k - 1)
    BY <2>2, <2>3
  <2> QED
    BY <1>1, <2>3, <2>4
<1> QED
  BY <1>2

\* ... so the recursive function in MapThenFoldSet is well defined.
LEMMA SumUnfolds ==
  ASSUME NEW f, NEW S, IsFiniteSet(S)
  PROVE \E h : /\ \A s \in SUBSET S : h[s] = Added(h, f, s)
               /\ Sum(f, S) = h[S]
<1> DEFINE Eq(h) == h = [s \in SUBSET S |-> IF s = {} THEN 0 ELSE f[Pick(s)] + h[s \ {Pick(s)}]]
<1> DEFINE it == CHOOSE h : Eq(h)
<1>0. \E h : Eq(h)
  <2>1. Cardinality(S) \in Nat /\ \A s \in SUBSET S : Cardinality(s) <= Cardinality(S)
    BY FS_Subset, FS_CardinalityType
  <2>2. PICK h : \A s \in SUBSET S : h[s] = Added(h, f, s)
    <3> DEFINE n == Cardinality(S)
    <3>1. \E h : \A s \in SUBSET S : Cardinality(s) <= n => h[s] = Added(h, f, s)
      <4> HIDE DEF n
      <4>1. n \in Nat
        BY <2>1 DEF n
      <4> QED BY <4>1, PartialSum
    <3> QED BY <2>1, <3>1
  <2> DEFINE hh == [s \in SUBSET S |-> h[s]]
  <2>3. ASSUME NEW s \in SUBSET S PROVE hh[s] = IF s = {} THEN 0 ELSE f[Pick(s)] + hh[s \ {Pick(s)}]
    BY <2>2 DEF Added
  <2>4. Eq(hh)
    BY <2>3
  <2> QED BY <2>4
<1>1. Eq(it)
  BY <1>0, Zenon
<1>2. Sum(f, S) = it[S]
  BY Zenon DEF Sum, MapThenSumSet, MapThenFoldSet, Pick
<1>3. \A s \in SUBSET S : it[s] = Added(it, f, s)
  <2> HIDE DEF it
  <2> QED BY <1>1 DEF Added
<1> QED BY <1>3, <1>2, Zenon

\* Among subsets of a finite set there is one that contains no other.
LEMMA LeastSubset ==
  ASSUME NEW S, IsFiniteSet(S), NEW T \in SUBSET (SUBSET S), T # {}
  PROVE  \E t \in T : \A u \in T : ~(u \subseteq t /\ u # t)
<1>1. T \subseteq FiniteSubsetsOf(S)
  BY FS_FiniteSubsetsOfFinite
<1>2. \E t \in T : \A u \in T : <<u, t>> \notin StrictSubsetOrdering(S)
  BY <1>1, WFMin, FS_StrictSubsetOrderingWellFounded, Zenon
<1> QED
  BY <1>2 DEF StrictSubsetOrdering

\* If one summand changes, the sum changes by as much.
LEMMA SumChanges ==
  ASSUME NEW S, IsFiniteSet(S), NEW f, NEW g, NEW x, NEW d \in Int,
         \A s \in S : f[s] \in Int,
         \A s \in S : s # x => g[s] = f[s],
         g[x] = f[x] + d
  PROVE  /\ Sum(f, S) \in Int
         /\ x \in S => Sum(g, S) = Sum(f, S) + d
         /\ x \notin S => Sum(g, S) = Sum(f, S)
<1>1. PICK h : (\A s \in SUBSET S : h[s] = Added(h, f, s)) /\ Sum(f, S) = h[S]
  BY SumUnfolds
<1>2. PICK k : (\A s \in SUBSET S : k[s] = Added(k, g, s)) /\ Sum(g, S) = k[S]
  BY SumUnfolds
<1> DEFINE Good(s) == h[s] \in Int /\ k[s] = h[s] + (IF x \in s THEN d ELSE 0)
           T == {s \in SUBSET S : ~Good(s)}
<1>3. T = {}
  <2> SUFFICES ASSUME T # {} PROVE FALSE
    OBVIOUS
  <2>1. PICK t \in T : \A u \in T : ~(u \subseteq t /\ u # t)
    <3>1. T \in SUBSET (SUBSET S)
      OBVIOUS
    <3> HIDE DEF T
    <3> QED BY <3>1, LeastSubset
  <2>2. t \in SUBSET S /\ h[t] = Added(h, f, t) /\ k[t] = Added(k, g, t)
    BY <1>1, <1>2
  <2>3. t # {}
    BY <2>2 DEF Added
  <2> DEFINE p == Pick(t)
             u == t \ {p}
  <2>4. p \in t
    BY <2>3, PickIn
  <2>5. u \in SUBSET S /\ u \subseteq t /\ u # t /\ p \notin u
    BY <2>2, <2>4
  <2>6. Good(u)
    BY <2>1, <2>5
  <2>7. h[t] = f[p] + h[u] /\ k[t] = g[p] + k[u]
    BY <2>2, <2>3 DEF Added
  <2>8. p \in S
    BY <2>2, <2>4
  <2>9. x \in t <=> x = p \/ x \in u
    BY <2>4
  <2> HIDE DEF p, u
  <2>10. f[p] \in Int /\ g[p] = f[p] + (IF p = x THEN d ELSE 0)
    BY <2>8
  <2>11. Good(t)
    BY <2>5, <2>6, <2>7, <2>9, <2>10
  <2> QED
    BY <2>11
<1> QED
  BY <1>1, <1>2, <1>3

\* A sum of integers.
LEMMA SumType ==
  ASSUME NEW S, IsFiniteSet(S), NEW f, \A s \in S : f[s] \in Int
  PROVE  Sum(f, S) \in Int
<1>1. PICK h : (\A s \in SUBSET S : h[s] = Added(h, f, s)) /\ Sum(f, S) = h[S]
  BY SumUnfolds
<1> DEFINE T == {s \in SUBSET S : h[s] \notin Int}
<1>2. T = {}
  <2> SUFFICES ASSUME T # {} PROVE FALSE
    OBVIOUS
  <2>1. PICK t \in T : \A u \in T : ~(u \subseteq t /\ u # t)
    <3>1. T \in SUBSET (SUBSET S)
      OBVIOUS
    <3> HIDE DEF T
    <3> QED BY <3>1, LeastSubset
  <2>2. t \in SUBSET S /\ h[t] = Added(h, f, t) /\ h[t] \notin Int
    BY <1>1
  <2>3. t # {} /\ Pick(t) \in t
    BY <2>2, PickIn DEF Added
  <2>4. h[t \ {Pick(t)}] \in Int
    BY <2>1, <2>2, <2>3
  <2> QED
    BY <2>2, <2>3, <2>4 DEF Added
<1> QED
  BY <1>1, <1>2

\* A sum of zeros.
LEMMA SumOfZeros ==
  ASSUME NEW S, IsFiniteSet(S), NEW f, \A s \in S : f[s] = 0
  PROVE  Sum(f, S) = 0
<1>1. PICK h : (\A s \in SUBSET S : h[s] = Added(h, f, s)) /\ Sum(f, S) = h[S]
  BY SumUnfolds
<1> DEFINE T == {s \in SUBSET S : h[s] # 0}
<1>2. T = {}
  <2> SUFFICES ASSUME T # {} PROVE FALSE
    OBVIOUS
  <2>1. PICK t \in T : \A u \in T : ~(u \subseteq t /\ u # t)
    <3>1. T \in SUBSET (SUBSET S)
      OBVIOUS
    <3> HIDE DEF T
    <3> QED BY <3>1, LeastSubset
  <2>2. t \in SUBSET S /\ h[t] = Added(h, f, t) /\ h[t] # 0
    BY <1>1
  <2>3. t # {} /\ Pick(t) \in t
    BY <2>2, PickIn DEF Added
  <2>4. h[t \ {Pick(t)}] = 0
    BY <2>1, <2>2, <2>3
  <2> QED
    BY <2>2, <2>3, <2>4 DEF Added
<1> QED
  BY <1>1, <1>2

------------------------------------------------------------------------------

\* What an account more or less changes in the total of its name.
LEMMA TotalChanges ==
  ASSUME NEW f, NEW g, NEW a \in BidderAccounts, NEW d \in Int, NEW n \in CoinNames,
         \A b \in BidderAccounts : f[b] \in Int,
         \A b \in BidderAccounts : b # a => g[b] = f[b],
         g[a] = f[a] + d
  PROVE  /\ Total(f, n) \in Int
         /\ NameOf[a] = n => Total(g, n) = Total(f, n) + d
         /\ NameOf[a] # n => Total(g, n) = Total(f, n)
<1> DEFINE named == {b \in BidderAccounts : NameOf[b] = n}
<1>1. IsFiniteSet(named)
  BY FiniteAssumption, FS_Subset
<1>2. /\ \A b \in named : f[b] \in Int
      /\ \A b \in named : b # a => g[b] = f[b]
      /\ a \in named <=> NameOf[a] = n
  OBVIOUS
<1>3. Total(f, n) = Sum(f, named) /\ Total(g, n) = Sum(g, named)
  BY DEF Total, Sum
<1> HIDE DEF named
<1> QED
  BY <1>1, <1>2, <1>3, SumChanges

\* A total is an integer.
LEMMA TotalType ==
  ASSUME NEW f \in [BidderAccounts -> Int], NEW n \in CoinNames
  PROVE  Total(f, n) \in Int
<1> DEFINE named == {b \in BidderAccounts : NameOf[b] = n}
<1>1. IsFiniteSet(named) /\ \A b \in named : f[b] \in Int
  BY FiniteAssumption, FS_Subset
<1>2. Total(f, n) = Sum(f, named)
  BY DEF Total, Sum
<1> HIDE DEF named
<1> QED
  BY <1>1, <1>2, SumType

\* Every bid is paid, and was paid in the state a roll-back returns to.
PaidInv ==
  \A n \in CoinNames :
    /\ coins[n] + Total(unbacked, n) <= 0
    /\ Total(committed.unbacked, n) <= 0

\* At first nobody has bid anything.
LEMMA InitPaidInv == LedgerInit => PaidInv
<1> SUFFICES ASSUME LedgerInit, NEW n \in CoinNames
             PROVE  /\ coins[n] + Total(unbacked, n) <= 0
                    /\ Total(committed.unbacked, n) <= 0
  BY DEF PaidInv
<1> DEFINE named == {b \in BidderAccounts : NameOf[b] = n}
<1>1. IsFiniteSet(named)
  BY FiniteAssumption, FS_Subset
<1>2. \A b \in named : unbacked[b] = 0
  BY DEF LedgerInit, Init
<1>3. Total(unbacked, n) = Sum(unbacked, named)
  BY DEF Total, Sum
<1>4. coins[n] = 0 /\ committed.unbacked = unbacked
  BY DEF LedgerInit, NoCoins, Staged
<1> HIDE DEF named
<1> QED
  BY <1>1, <1>2, <1>3, <1>4, SumOfZeros

\* The types the totals need.
LEMMA PaidTypes ==
  LInv => /\ unbacked \in [BidderAccounts -> Int]
          /\ committed.unbacked \in [BidderAccounts -> Int]
          /\ coins \in [CoinNames -> Nat]
  BY SavedConstants DEF LInv, LedgerTypeOK, IInv, TypeOK, Saved!IInv, Saved!TypeOK

\* An instruction that records no bid, and gives up coins or passes them on.
LEMMA UnrecordedPaid ==
  ASSUME LInv, PaidInv, unbacked' = unbacked,
         committed' = committed \/ committed' = Staged,
         coins' = coins \/ coins' = NoCoins
  PROVE  PaidInv'
<1> SUFFICES ASSUME NEW n \in CoinNames
             PROVE  /\ coins'[n] + Total(unbacked, n)' <= 0
                    /\ Total(committed.unbacked, n)' <= 0
  BY DEF PaidInv
<1>1. Total(unbacked, n)' = Total(unbacked, n)
  OBVIOUS
<1>2. \/ Total(committed.unbacked, n)' = Total(committed.unbacked, n)
      \/ Total(committed.unbacked, n)' = Total(unbacked, n)
  BY DEF Staged
<1>3. Total(unbacked, n) \in Int /\ coins[n] \in Nat
  BY PaidTypes, TotalType
<1>4. coins'[n] \in {0, coins[n]}
  BY DEF NoCoins
<1> QED
  BY <1>1, <1>2, <1>3, <1>4 DEF PaidInv

\* Coins fetched are coins an account has paid for nothing yet.
LEMMA FetchPaid ==
  ASSUME LInv, PaidInv, NEW a \in Accounts, NEW amount \in Amounts,
         Fetch(a, amount)
  PROVE  PaidInv'
<1> SUFFICES ASSUME NEW n \in CoinNames
             PROVE  /\ coins'[n] + Total(unbacked, n)' <= 0
                    /\ Total(committed.unbacked, n)' <= 0
  BY DEF PaidInv
<1>1. amount \in Nat
  BY AmountAssumption DEF Amounts
<1>2. unbacked \in [BidderAccounts -> Int] /\ coins \in [CoinNames -> Nat]
  BY PaidTypes
<1>3. /\ \A b \in BidderAccounts : unbacked[b] \in Int
      /\ \A b \in BidderAccounts : b # a => unbacked'[b] = unbacked[b]
      /\ unbacked'[a] = unbacked[a] + (0 - amount)
      /\ 0 - amount \in Int
  BY <1>1, <1>2 DEF Fetch, BidderAccounts
<1>4. /\ Total(unbacked, n) \in Int
      /\ NameOf[a] = n => Total(unbacked', n) = Total(unbacked, n) + (0 - amount)
      /\ NameOf[a] # n => Total(unbacked', n) = Total(unbacked, n)
  BY <1>3, TotalChanges DEF BidderAccounts
<1>5. Total(unbacked, n)' = Total(unbacked', n)
  OBVIOUS
<1>6. coins'[n] = coins[n] + (IF NameOf[a] = n THEN amount ELSE 0)
  BY <1>1, <1>2, NameAssumption DEF Fetch, BidderAccounts
<1>7. Total(committed.unbacked, n)' = Total(committed.unbacked, n)
  BY DEF Fetch, Execute
<1> QED
  BY <1>1, <1>2, <1>4, <1>5, <1>6, <1>7 DEF PaidInv

\* A bid records no more than the coins it takes.
LEMMA BidPaid ==
  ASSUME LInv, PaidInv, NEW a \in BidderAccounts, NEW key \in Keys, Bid(a, key, 0)
  PROVE  PaidInv'
<1> SUFFICES ASSUME NEW n \in CoinNames
             PROVE  /\ coins'[n] + Total(unbacked, n)' <= 0
                    /\ Total(committed.unbacked, n)' <= 0
  BY DEF PaidInv
<1> DEFINE taken == coins[NameOf[a]]
           offer == Add64(Add64(0, taken), 0)
<1>1. unbacked \in [BidderAccounts -> Int] /\ coins \in [CoinNames -> Nat]
  BY PaidTypes
<1>2. taken \in Nat /\ offer \in Nat /\ offer <= taken
  <2>1. taken \in Nat
    BY <1>1, NameAssumption
  <2>2. \A x \in Nat : Add64(x, 0) \in Nat /\ Add64(x, 0) <= x
    BY AmountAssumption DEF Add64
  <2>3. \A x \in Nat : Add64(0, x) \in Nat /\ Add64(0, x) <= x
    BY AmountAssumption DEF Add64
  <2> QED
    BY <2>1, <2>2, <2>3
<1>3. /\ coins' = NoCoins
      /\ committed' = committed
      /\ unbacked' = [unbacked EXCEPT ![a] = @ + offer - 0]
  BY DEF Bid, Execute, PlaceBid, FirstBid, Outbid, RecordBid
<1> HIDE DEF offer
<1>4. /\ \A b \in BidderAccounts : unbacked[b] \in Int
      /\ \A b \in BidderAccounts : b # a => unbacked'[b] = unbacked[b]
      /\ unbacked'[a] = unbacked[a] + offer
      /\ offer \in Int
  BY <1>1, <1>2, <1>3
<1>5. /\ Total(unbacked, n) \in Int
      /\ NameOf[a] = n => Total(unbacked', n) = Total(unbacked, n) + offer
      /\ NameOf[a] # n => Total(unbacked', n) = Total(unbacked, n)
  BY <1>4, TotalChanges
<1>6. Total(unbacked, n)' = Total(unbacked', n)
  OBVIOUS
<1>7. Total(committed.unbacked, n)' = Total(committed.unbacked, n)
  BY <1>3
<1>8. coins'[n] = 0 /\ coins[n] \in Nat /\ (NameOf[a] = n => taken = coins[n])
  BY <1>1, <1>3 DEF NoCoins
<1> QED
  BY <1>2, <1>5, <1>6, <1>7, <1>8 DEF PaidInv

\* A roll-back returns to a state in which every bid was paid.
LEMMA AbortPaid == LInv /\ PaidInv /\ Abort => PaidInv'
<1> SUFFICES ASSUME LInv, PaidInv, Abort, NEW n \in CoinNames
             PROVE  /\ coins'[n] + Total(unbacked, n)' <= 0
                    /\ Total(committed.unbacked, n)' <= 0
  BY DEF PaidInv
<1>1. /\ Total(unbacked, n)' = Total(committed.unbacked, n)
      /\ Total(committed.unbacked, n)' = Total(committed.unbacked, n)
  BY DEF Abort
<1>2. Total(committed.unbacked, n) \in Int /\ coins'[n] = 0
  BY PaidTypes, TotalType DEF Abort, NoCoins
<1> QED
  BY <1>1, <1>2 DEF PaidInv

\* Every step keeps every bid paid, as long as bids declare nothing.
LEMMA NextPaidInv ==
  ASSUME DeclaredBids = {0}, LInv, PaidInv, [LedgerNext]_ledgerVars
  PROVE  PaidInv'
<1>1. ASSUME NEW a \in Accounts, NEW amount \in 1 .. MaxCoin, MintCoins(a, amount)
      PROVE  PaidInv'
  BY <1>1, UnrecordedPaid DEF MintCoins, Mint, Execute
<1>2. ASSUME NEW a \in Accounts, NEW amount \in Amounts, Fetch(a, amount)
      PROVE  PaidInv'
  BY <1>2, FetchPaid
<1>3. ASSUME NEW seller \in Sellers, NEW t \in Terms \cup {NoReserve},
             SpawnAuction(seller, t)
      PROVE  PaidInv'
  BY <1>3, UnrecordedPaid DEF SpawnAuction, Spawn, Execute
<1>4. ASSUME NEW a \in BidderAccounts, NEW key \in Keys, NEW d \in DeclaredBids,
             Bid(a, key, d)
      PROVE  PaidInv'
  BY <1>4, BidPaid
<1>5. ASSUME NEW salt \in Salts, NEW price \in Prices, CloseAuction(salt, price)
      PROVE  PaidInv'
  BY <1>5, UnrecordedPaid
  DEF CloseAuction, CloseSold, CloseUnsold, Execute, vars, history
<1>6. CASE VoidAuction
  BY <1>6, UnrecordedPaid
  DEF VoidAuction, Drop, ForceClose, Void, Execute, history
<1>7. CASE Commit
  BY <1>7, UnrecordedPaid DEF Commit, vars, history
<1>8. CASE Abort
  BY <1>8, AbortPaid
<1>9. CASE UNCHANGED ledgerVars
  BY <1>9, UnrecordedPaid DEF ledgerVars, vars, history
<1> QED
  BY <1>1, <1>2, <1>3, <1>4, <1>5, <1>6, <1>7, <1>8, <1>9 DEF LedgerNext

\* Over the accounts of a name, nothing is recorded as bid that was not fetched
\* for it, whatever a transaction strings together (auction.go:160-165).
THEOREM BidsPaid == LedgerSpec => []BidsArePaid
<1> DEFINE Paid == DeclaredBids = {0} => PaidInv
<1>1. LedgerInit => Paid
  BY InitPaidInv
<1>2. LInv /\ Paid /\ [LedgerNext]_ledgerVars => Paid'
  BY NextPaidInv
<1>3. Paid => BidsArePaid
  BY DEF PaidInv, BidsArePaid
<1> HIDE DEF Paid
<1> QED
  BY <1>1, <1>2, <1>3, LedgerInvariance, PTL DEF LedgerSpec

------------------------------------------------------------------------------

\* The transaction in progress as a step of OpenAuction from the committed state
\* to the staged one: what Committed!Next says of a commit, said before it.
StagedMint(a, amount) ==
  /\ CanStore(committed.balance, a, amount)
  /\ balance = Store(committed.balance, a, amount)
  /\ minted = [committed.minted EXCEPT ![a] = @ + amount]
  /\ auction = committed.auction /\ terms = committed.terms
  /\ unbacked = committed.unbacked /\ proceeds = committed.proceeds
  /\ opened = committed.opened /\ accepted = committed.accepted

StagedSpawn(seller, t) ==
  /\ committed.auction.State = "ABSENT"
  /\ auction = [Absent EXCEPT
                  !.State = "OPEN",
                  !.SellerAccount = seller,
                  !.ReservePrice = IF t = NoReserve THEN Empty
                                   ELSE Hash(t.salt, t.price)]
  /\ terms = t
  /\ balance = committed.balance /\ minted = committed.minted
  /\ unbacked = committed.unbacked /\ proceeds = committed.proceeds
  /\ opened = committed.opened /\ accepted = committed.accepted

\* What the fetch of a transaction leaves: the account is debited, the coins
\* are on their way and nothing else has changed.
HasFetched(a, amount) ==
  /\ Committed!CanFetch(a, amount)
  /\ balance = Committed!AfterFetch(a, amount)
  /\ unbacked = [committed.unbacked EXCEPT ![a] = @ - amount]
  /\ coins = [NoCoins EXCEPT ![NameOf[a]] = amount]
  /\ auction = committed.auction /\ terms = committed.terms
  /\ minted = committed.minted /\ proceeds = committed.proceeds
  /\ opened = committed.opened /\ accepted = committed.accepted

StagedBid(a, key, amount, declared) ==
  LET offer == Add64(declared, amount)
      fetched == Committed!AfterFetch(a, amount)
      best == committed.auction.HighestBid
      bidder == committed.auction.HighestBidder
  IN  /\ Committed!CanFetch(a, amount)
      /\ Committed!Live
      /\ a # committed.auction.SellerAccount
      /\ offer > 0
      /\ \/ best = 0 /\ balance = fetched
         \/ /\ best # 0 /\ offer > best
            /\ CanStore(fetched, bidder, best)
            /\ balance = Store(fetched, bidder, best)
      /\ auction = [committed.auction EXCEPT !.HighestBid = offer,
                                             !.HighestBidder = a,
                                             !.WinProof = key]
      /\ unbacked = [committed.unbacked EXCEPT ![a] = @ + offer - amount]
      /\ accepted = committed.accepted
                      \cup {[bidder |-> a, key |-> key, bid |-> offer]}
      /\ terms = committed.terms /\ minted = committed.minted
      /\ proceeds = committed.proceeds /\ opened = committed.opened

StagedClose(salt, price) ==
  /\ Committed!Live
  /\ Committed!ReserveOpened(salt, price)
  /\ \/ ~Committed!ReserveMet(price) /\ Clean
     \/ LET best == committed.auction.HighestBid
            seller == committed.auction.SellerAccount
        IN  /\ Committed!ReserveMet(price)
            /\ CanStore(committed.balance, seller, best)
            /\ balance = Store(committed.balance, seller, best)
            /\ auction = [committed.auction EXCEPT !.State = "WCLOSED"]
            /\ proceeds = committed.proceeds + best
            /\ opened = committed.opened \cup {salt}
            /\ terms = committed.terms /\ minted = committed.minted
            /\ unbacked = committed.unbacked /\ accepted = committed.accepted

StagedVoid(state) ==
  LET best == committed.auction.HighestBid
      bidder == committed.auction.HighestBidder
  IN  /\ Committed!Live
      /\ \/ best = 0 /\ balance = committed.balance
         \/ /\ best > 0
            /\ CanStore(committed.balance, bidder, best)
            /\ balance = Store(committed.balance, bidder, best)
      /\ auction = [committed.auction EXCEPT !.State = state]
      /\ terms = committed.terms /\ minted = committed.minted
      /\ unbacked = committed.unbacked /\ proceeds = committed.proceeds
      /\ opened = committed.opened /\ accepted = committed.accepted

StagedIsStep ==
  \/ \E a \in Accounts, amount \in 1 .. MaxCoin : StagedMint(a, amount)
  \/ \E seller \in Sellers, t \in Terms \cup {NoReserve} : StagedSpawn(seller, t)
  \/ \E a \in BidderAccounts, key \in Keys, amount \in Amounts, d \in DeclaredBids :
        StagedBid(a, key, amount, d)
  \/ \E salt \in Salts, price \in Prices : StagedClose(salt, price)
  \/ \E state \in {"DROPPED", "CLOSED"} : StagedVoid(state)

\* What the shape of a transaction says about the staged state.
ShapeInv ==
  /\ shape = Start => Clean /\ coins = NoCoins
  /\ \A a \in Accounts :
        shape = Fetched(a) => \E amount \in Amounts : HasFetched(a, amount)
  /\ shape = ClientShape => StagedIsStep

\* The shapes differ from each other.
LEMMA ShapesDiffer ==
  /\ Start # ClientShape /\ Start # OtherShape /\ ClientShape # OtherShape
  /\ \A a : /\ Fetched(a) # Start /\ Fetched(a) # ClientShape
            /\ Fetched(a) # OtherShape
            /\ \A b : Fetched(a) = Fetched(b) => a = b
BY DEF Start, Fetched, ClientShape, OtherShape

\* A transaction of one instruction is a step if that instruction is.
LEMMA AloneShape ==
  ASSUME ShapeInv, Alone, shape = Start => StagedIsStep'
  PROVE  ShapeInv'
BY ShapesDiffer DEF Alone, ShapeInv

\* Coins are minted.
LEMMA MintShape ==
  ASSUME ShapeInv, NEW a \in Accounts, NEW amount \in 1 .. MaxCoin,
         MintCoins(a, amount)
  PROVE  ShapeInv'
<1>1. ASSUME shape = Start PROVE StagedMint(a, amount)'
  BY <1>1 DEF ShapeInv, Clean, MintCoins, Execute, Mint, StagedMint, CanStore,
              Store
<1> QED
  BY <1>1, AloneShape DEF MintCoins, StagedIsStep

\* A first instruction that fetches.
LEMMA FetchShape ==
  ASSUME LInv, ShapeInv, NEW a \in Accounts, NEW amount \in Amounts,
         Fetch(a, amount)
  PROVE  ShapeInv'
<1>1. CASE shape = Start
  <2>1. shape' = Fetched(a)
    BY <1>1 DEF Fetch
  <2>2. amount \in Nat
    BY AmountAssumption DEF Amounts
  <2>3. coins' = [NoCoins EXCEPT ![NameOf[a]] = amount]
    <3>1. coins' = [NoCoins EXCEPT ![NameOf[a]] = NoCoins[NameOf[a]] + amount]
      BY <1>1 DEF Fetch, ShapeInv
    <3>2. NoCoins[NameOf[a]] + amount = amount
      BY <2>2, NameAssumption DEF NoCoins, BidderAccounts
    <3> QED
      BY <3>1, <3>2
  <2>4. balance \in [Accounts -> Amounts]
    BY DEF LInv, IInv, TypeOK
  <2>5. /\ Committed!CanFetch(a, amount)'
        /\ balance' = Committed!AfterFetch(a, amount)'
    BY <1>1, <2>4
    DEF ShapeInv, Clean, Fetch, Execute, Committed!CanFetch, Committed!AfterFetch
  <2>6. HasFetched(a, amount)'
    BY <1>1, <2>3, <2>5 DEF ShapeInv, Clean, Fetch, Execute, HasFetched, NoCoins
  <2> QED
    BY <2>1, <2>6, ShapesDiffer DEF ShapeInv, Amounts
<1>2. CASE shape # Start
  <2>1. shape' = OtherShape
    BY <1>2 DEF Fetch
  <2> QED
    BY <2>1, ShapesDiffer DEF ShapeInv
<1> QED
  BY <1>1, <1>2

\* An auction is spawned.
LEMMA SpawnShape ==
  ASSUME ShapeInv, NEW seller \in Sellers, NEW t \in Terms \cup {NoReserve},
         SpawnAuction(seller, t)
  PROVE  ShapeInv'
<1>1. ASSUME shape = Start PROVE StagedSpawn(seller, t)'
  BY <1>1 DEF ShapeInv, Clean, SpawnAuction, Execute, Spawn, StagedSpawn, Absent
<1>2. t \in (Terms \cup {NoReserve})'
  BY DEF Terms
<1> QED
  BY <1>1, <1>2, AloneShape DEF SpawnAuction, StagedIsStep

\* Before its first instruction a transaction has fetched nothing.
LEMMA StartHasFetched ==
  ASSUME LInv, ShapeInv, shape = Start, NEW a \in BidderAccounts
  PROVE  HasFetched(a, 0)
<1>1. Clean /\ coins = NoCoins
  BY DEF ShapeInv
<1>2. balance \in [Accounts -> Amounts] /\ unbacked \in [BidderAccounts -> Int]
  BY DEF LInv, IInv, TypeOK
<1>3. Committed!CanFetch(a, 0) /\ balance = Committed!AfterFetch(a, 0)
  BY <1>1, <1>2, AmountAssumption
  DEF Clean, Amounts, Committed!CanFetch, Committed!AfterFetch
<1>4. unbacked = [committed.unbacked EXCEPT ![a] = @ - 0]
  BY <1>1, <1>2 DEF Clean
<1>5. coins = [NoCoins EXCEPT ![NameOf[a]] = 0]
  BY <1>1, NameAssumption DEF NoCoins
<1> QED
  BY <1>1, <1>3, <1>4, <1>5 DEF Clean, HasFetched

\* A bid alone, or after a fetch from the same account, pays with what was
\* fetched, so it is the one step it is in OpenAuction.
LEMMA BidShape ==
  ASSUME LInv, ShapeInv, NEW a \in BidderAccounts, NEW key \in Keys,
         NEW d \in DeclaredBids, Bid(a, key, d)
  PROVE  ShapeInv'
<1>1. CASE shape \in {Start, Fetched(a)}
  <2>1. shape' = ClientShape
    BY <1>1 DEF Bid
  <2>2. PICK amount \in Amounts : HasFetched(a, amount)
    <3>1. CASE shape = Start
      BY <3>1, StartHasFetched, AmountAssumption DEF Amounts
    <3>2. CASE shape = Fetched(a)
      <4>1. a \in Accounts
        BY <3>2, AccountAssumption
        DEF LInv, LedgerTypeOK, Fetched, BidderAccounts
      <4> QED
        BY <3>2, <4>1 DEF ShapeInv
    <3> QED
      BY <1>1, <3>1, <3>2
  <2>3. /\ amount \in Nat /\ d \in Nat
        /\ coins[NameOf[a]] = amount
    BY <2>2, AmountAssumption, NameAssumption DEF Amounts, HasFetched, NoCoins
  <2> DEFINE offer == Add64(d, amount)
  <2>4. offer \in Nat /\ Add64(offer, 0) = offer
    BY <2>3, AmountAssumption DEF Add64
  <2>5. /\ balance \in [Accounts -> Int] /\ unbacked \in [BidderAccounts -> Int]
        /\ committed.unbacked \in [BidderAccounts -> Int]
    <3>1. Amounts \subseteq Int /\ Saved!BidderAccounts = BidderAccounts
      BY AmountAssumption, SavedConstants DEF Amounts
    <3> QED
      BY <3>1 DEF LInv, IInv, TypeOK, Saved!IInv, Saved!TypeOK
  <2>6. PlaceBid(a, key, 0, offer) /\ committed' = committed
    BY <2>3 DEF Bid, Execute
  <2> HIDE DEF offer
  <2>7. /\ AfterFetch(a, 0) = balance
        /\ [unbacked EXCEPT ![a] = @ + offer - 0]
             = [committed.unbacked EXCEPT ![a] = @ + offer - amount]
    BY <2>2, <2>3, <2>4, <2>5 DEF HasFetched, AfterFetch
  <2>8. /\ auction = committed.auction /\ accepted = committed.accepted
        /\ balance = Committed!AfterFetch(a, amount)
        /\ Committed!CanFetch(a, amount)
        /\ terms = committed.terms /\ minted = committed.minted
        /\ proceeds = committed.proceeds /\ opened = committed.opened
    BY <2>2 DEF HasFetched
  <2>9. /\ Live /\ a # auction.SellerAccount /\ offer > 0
        /\ \/ auction.HighestBid = 0 /\ balance' = balance
           \/ /\ auction.HighestBid # 0 /\ offer > auction.HighestBid
              /\ CanStore(balance, auction.HighestBidder, auction.HighestBid)
              /\ balance' = Store(balance, auction.HighestBidder, auction.HighestBid)
        /\ RecordBid(a, key, 0, offer)
    BY <2>4, <2>6, <2>7 DEF PlaceBid, FirstBid, Outbid
  <2>10. /\ Committed!AfterFetch(a, amount)' = Committed!AfterFetch(a, amount)
         /\ Committed!CanFetch(a, amount)' <=> Committed!CanFetch(a, amount)
    BY <2>6 DEF Committed!AfterFetch, Committed!CanFetch
  <2>11. StagedBid(a, key, amount, d)'
    BY <2>6, <2>7, <2>8, <2>9, <2>10
    DEF StagedBid, RecordBid, Live, Committed!Live, CanStore, Store, offer
  <2>12. StagedIsStep'
    BY <2>11 DEF StagedIsStep, Amounts, BidderAccounts
  <2> QED
    BY <2>1, <2>12, ShapesDiffer DEF ShapeInv
<1>2. CASE shape \notin {Start, Fetched(a)}
  <2>1. shape' = OtherShape
    BY <1>2 DEF Bid
  <2> QED
    BY <2>1, ShapesDiffer DEF ShapeInv
<1> QED
  BY <1>1, <1>2

\* The auction is closed, with a sale or without.
LEMMA CloseShape ==
  ASSUME ShapeInv, NEW salt \in Salts, NEW price \in Prices,
         CloseAuction(salt, price)
  PROVE  ShapeInv'
<1>1. ASSUME shape = Start PROVE StagedClose(salt, price)'
  <2>1. Clean /\ committed' = committed
    BY <1>1 DEF ShapeInv, CloseAuction, Execute
  <2>2. /\ Committed!Live' <=> Live
        /\ Committed!ReserveOpened(salt, price)' <=> ReserveOpened(salt, price)
        /\ Committed!ReserveMet(price)' <=> ReserveMet(price)
    BY <2>1 DEF Clean, Live, Committed!Live, ReserveOpened,
                Committed!ReserveOpened, ReserveMet, Committed!ReserveMet,
                Empty, Committed!Empty
  <2>3. CASE CloseSold(salt, price)
    BY <2>1, <2>2, <2>3 DEF CloseSold, StagedClose, Clean, CanStore, Store
  <2>4. CASE CloseUnsold(salt, price)
    BY <2>1, <2>2, <2>4 DEF CloseUnsold, StagedClose, Clean, vars, history
  <2> QED
    BY <2>3, <2>4 DEF CloseAuction
<1> QED
  BY <1>1, AloneShape DEF CloseAuction, StagedIsStep

\* The auction is dropped or closed by force.
LEMMA VoidShape ==
  ASSUME ShapeInv, VoidAuction
  PROVE  ShapeInv'
<1>1. PICK state \in {"DROPPED", "CLOSED"} : Void(state)
  BY DEF VoidAuction, Drop, ForceClose
<1>2. ASSUME shape = Start PROVE StagedVoid(state)'
  BY <1>1, <1>2 DEF ShapeInv, Clean, VoidAuction, Execute, Void, StagedVoid, Live,
                    Committed!Live, CanStore, Store, history
<1> QED
  BY <1>2, AloneShape DEF VoidAuction, StagedIsStep

\* A transaction that is over, kept or not, leaves the staged state committed.
LEMMA EndShape ==
  ASSUME ShapeInv, Commit \/ Abort
  PROVE  ShapeInv'
<1>1. Clean' /\ coins' = NoCoins /\ shape' = Start
  BY DEF Commit, Abort, Clean, Staged, vars, history
<1> QED
  BY <1>1, ShapesDiffer DEF ShapeInv, NoCoins

\* Nothing happens.
LEMMA StutterShape ==
  ASSUME ShapeInv, UNCHANGED ledgerVars
  PROVE  ShapeInv'
<1>1. StagedIsStep' <=> StagedIsStep
  BY DEF ledgerVars, vars, history, StagedIsStep, StagedMint, StagedSpawn,
         StagedBid, StagedClose, StagedVoid, Clean, Committed!Live,
         Committed!ReserveOpened, Committed!ReserveMet, Committed!CanFetch,
         Committed!AfterFetch, BidderAccounts
<1>2. \A a \in Accounts, amount \in Amounts :
         HasFetched(a, amount)' <=> HasFetched(a, amount)
  BY DEF ledgerVars, vars, history, HasFetched, NoCoins, Committed!CanFetch,
         Committed!AfterFetch
<1> QED
  BY <1>1, <1>2 DEF ledgerVars, vars, history, ShapeInv, Clean, NoCoins, Amounts

\* The shape of a transaction says what it has staged.
LEMMA NextShapeInv ==
  ASSUME LInv, ShapeInv, [LedgerNext]_ledgerVars
  PROVE  ShapeInv'
BY MintShape, FetchShape, SpawnShape, BidShape, CloseShape, VoidShape, EndShape,
   StutterShape
DEF LedgerNext

\* Committing a staged step is that step.
LEMMA CommitIsStep == StagedIsStep /\ Commit => Committed!Next
<1> SUFFICES ASSUME StagedIsStep, Commit PROVE Committed!Next
  OBVIOUS
<1>0. /\ committed'.balance = balance /\ committed'.auction = auction
      /\ committed'.terms = terms /\ committed'.minted = minted
      /\ committed'.unbacked = unbacked /\ committed'.proceeds = proceeds
      /\ committed'.opened = opened /\ committed'.accepted = accepted
  BY DEF Commit, Staged
<1>1. ASSUME NEW a \in Accounts, NEW amount \in 1 .. MaxCoin,
             StagedMint(a, amount)
      PROVE  Committed!Mint(a, amount)
  BY <1>0, <1>1 DEF StagedMint, Committed!Mint, CanStore, Committed!CanStore,
                    Store, Committed!Store
<1>2. ASSUME NEW seller \in Sellers, NEW t \in Terms \cup {NoReserve},
             StagedSpawn(seller, t)
      PROVE  Committed!Spawn(seller, t)
  BY <1>0, <1>2 DEF StagedSpawn, Committed!Spawn, Absent, Committed!Absent,
                    Empty, Committed!Empty
<1>3. ASSUME NEW a \in BidderAccounts, NEW key \in Keys, NEW amount \in Amounts,
             NEW d \in DeclaredBids, StagedBid(a, key, amount, d)
      PROVE  Committed!PlaceBid(a, key, amount, d)
  BY <1>0, <1>3
  DEF StagedBid, Committed!PlaceBid, Committed!FirstBid, Committed!Outbid,
      Committed!RecordBid, Add64, Committed!Add64, CanStore,
      Committed!CanStore, Store, Committed!Store
<1>4. ASSUME NEW salt \in Salts, NEW price \in Prices, StagedClose(salt, price)
      PROVE  Committed!CloseSold(salt, price) \/ Committed!CloseUnsold(salt, price)
  BY <1>0, <1>4
  DEF StagedClose, Clean, Committed!CloseSold, Committed!CloseUnsold, CanStore,
      Committed!CanStore, Store, Committed!Store, Committed!vars,
      Committed!history
<1>5. ASSUME NEW state \in {"DROPPED", "CLOSED"}, StagedVoid(state)
      PROVE  Committed!Drop \/ Committed!ForceClose
  BY <1>0, <1>5
  DEF StagedVoid, Committed!Drop, Committed!ForceClose, Committed!Void,
      CanStore, Committed!CanStore, Store, Committed!Store, Committed!history
<1>6. /\ Committed!Terms = Terms /\ Committed!Amounts = Amounts
      /\ Committed!BidderAccounts = BidderAccounts
  BY DEF Committed!Terms, Terms, Committed!Amounts, Amounts,
         Committed!BidderAccounts, BidderAccounts
<1> QED
  BY <1>1, <1>2, <1>3, <1>4, <1>5, <1>6 DEF StagedIsStep, Committed!Next

\* Nothing has been staged at first.
LEMMA InitShapeInv == LedgerInit => ShapeInv
BY ShapesDiffer DEF LedgerInit, ShapeInv, Clean, Staged

\* For a reader of the ledger a transaction of the shape the clients send is one
\* step of OpenAuction: the specification the clients are written against is
\* what the instructions do (fonctions.go:211-266, auction.go:157-204).
THEOREM ClientStepsAtomic == LedgerSpec => ClientTransactionsAreSteps
<1>1. LInv /\ ShapeInv /\ [LedgerNext]_ledgerVars => ShapeInv'
  BY NextShapeInv
<1>2. ShapeInv /\ [LedgerNext]_ledgerVars
        => [shape = ClientShape => Committed!Next]_committed
  <2>1. [LedgerNext]_ledgerVars => Commit \/ committed' = committed
    BY DEF LedgerNext, ledgerVars, MintCoins, Fetch, SpawnAuction, Bid,
           CloseAuction, VoidAuction, Abort, Execute
  <2> QED
    BY <2>1, CommitIsStep DEF ShapeInv
<1> QED
  BY <1>1, <1>2, InitShapeInv, LedgerInvariance, PTL
  DEF LedgerSpec, ClientTransactionsAreSteps
==============================================================================
