-------------------------- MODULE OpenAuctionProofs --------------------------
(***************************************************************************)
(* Theorems about the open auction, for every set of accounts, every width *)
(* of the coin type and every hash that HashAssumption admits.             *)
(***************************************************************************)
EXTENDS OpenAuction, TLAPS

\* An auction that does not exist has no fields set, nobody is paid before a
\* sale, and what paid the seller was a bid.
LifecycleCoherent ==
  /\ auction.State = "ABSENT" => auction = Absent
  /\ auction.State \in {"ABSENT", "OPEN"} => proceeds = 0
  /\ proceeds > 0 => auction.HighestBid > 0
  /\ opened # {} => proceeds > 0

\* The highest bid and the highest bidder are set together, and the seller is
\* never the highest bidder.
RecordCoherent ==
  /\ auction.HighestBid = 0 =>
       accepted = {} /\ auction.HighestBidder = NoAccount
  /\ auction.HighestBid > 0 =>
       auction.HighestBidder \in BidderAccounts \ {auction.SellerAccount}

\* The stored commitment is the one the seller made.
CommitmentCoherent ==
  auction.ReservePrice = IF terms = NoReserve THEN Empty
                         ELSE Hash(terms.salt, terms.price)

\* The inductive invariant.
IInv ==
  /\ TypeOK
  /\ LifecycleCoherent
  /\ RecordCoherent
  /\ CommitmentCoherent
  /\ AccountsBalanced
  /\ WinnerIsBestAccepted
  /\ ReserveRespected

------------------------------------------------------------------------------

\* A 64-bit sum is a 64-bit value.
LEMMA Add64Type ==
  ASSUME NEW x \in Amounts, NEW y \in Amounts
  PROVE  Add64(x, y) \in Amounts
  BY AmountAssumption, SMT DEF Add64, Amounts

\* Crediting an account that has room keeps every balance a coin amount.
LEMMA StoreType ==
  ASSUME NEW bal \in [Accounts -> Amounts], NEW account, NEW amount \in Amounts,
         CanStore(bal, account, amount)
  PROVE  Store(bal, account, amount) \in [Accounts -> Amounts]
  BY AmountAssumption DEF CanStore, Store, Amounts

\* Fetching no more than there is keeps every balance a coin amount.
LEMMA FetchType ==
  ASSUME TypeOK, NEW a, NEW amount \in Amounts, CanFetch(a, amount)
  PROVE  /\ AfterFetch(a, amount) \in [Accounts -> Amounts]
         /\ \A q \in Accounts : AfterFetch(a, amount)[q] =
              IF q = a THEN balance[q] - amount ELSE balance[q]
  BY AmountAssumption DEF TypeOK, CanFetch, AfterFetch, Amounts

\* Claims and earnings are numbers.
LEMMA ClaimType ==
  ASSUME TypeOK, NEW q \in Accounts
  PROVE  Claim(q) \in Int /\ Earned(q) \in Int
  BY AmountAssumption DEF TypeOK, AuctionData, Amounts, Claim, Earned

\* The initial state satisfies the inductive invariant.
LEMMA InitIInv == Init => IInv
<1> SUFFICES ASSUME Init PROVE IInv
  OBVIOUS
<1>1. TypeOK
  BY KeyAssumption, AmountAssumption
  DEF Init, TypeOK, Absent, AuctionData, Amounts
<1>2. LifecycleCoherent /\ RecordCoherent /\ CommitmentCoherent
  BY DEF Init, Absent, LifecycleCoherent, RecordCoherent, CommitmentCoherent
<1>3. AccountsBalanced /\ WinnerIsBestAccepted /\ ReserveRespected
  BY AccountAssumption
  DEF Init, Absent, BidderAccounts, AccountsBalanced, Claim, Live, Earned, WinnerIsBestAccepted,
      ReserveRespected
<1> QED
  BY <1>1, <1>2, <1>3 DEF IInv

\* Minting preserves it.
LEMMA MintIInv ==
  ASSUME IInv, NEW a \in Accounts, NEW amount \in 1 .. MaxCoin, Mint(a, amount)
  PROVE  IInv'
<1>1. TypeOK'
  <2>1. amount \in Amounts
    BY AmountAssumption DEF Amounts
  <2>2. balance' \in [Accounts -> Amounts]
    BY <2>1, StoreType DEF Mint, IInv, TypeOK
  <2>3. minted' \in [Accounts -> Nat]
    BY <2>1, AmountAssumption DEF Mint, IInv, TypeOK, Amounts
  <2> QED
    BY <2>2, <2>3 DEF Mint, IInv, TypeOK
<1>2. AccountsBalanced'
  <2> SUFFICES ASSUME NEW q \in Accounts
               PROVE  balance'[q] + Claim(q)' = minted'[q] + unbacked'[q] + Earned(q)'
    BY DEF AccountsBalanced
  <2>1. Claim(q)' = Claim(q) /\ Earned(q)' = Earned(q) /\ unbacked' = unbacked
    BY DEF Mint, Claim, Earned, Live
  <2>2. balance[q] + Claim(q) = minted[q] + unbacked[q] + Earned(q)
    BY DEF IInv, AccountsBalanced
  <2>3. Claim(q) \in Int /\ Earned(q) \in Int
    BY ClaimType DEF IInv
  <2> QED
    BY <2>1, <2>2, <2>3, AmountAssumption
    DEF Mint, Store, IInv, TypeOK, BidderAccounts, Amounts
<1> QED
  BY <1>1, <1>2
  DEF Mint, IInv, LifecycleCoherent, RecordCoherent, CommitmentCoherent,
      WinnerIsBestAccepted, ReserveRespected

\* Spawning preserves it.
LEMMA SpawnIInv ==
  ASSUME IInv, NEW seller \in Sellers, NEW t \in Terms \cup {NoReserve},
         Spawn(seller, t)
  PROVE  IInv'
<1>1. auction = Absent /\ proceeds = 0 /\ opened = {} /\ accepted = {}
  BY DEF Spawn, IInv, LifecycleCoherent, RecordCoherent, Absent
<1>2. auction' \in AuctionData
  BY <1>1 DEF Spawn, IInv, TypeOK, Absent, AuctionData
<1>3. /\ auction'.State = "OPEN"
      /\ auction'.HighestBid = 0
      /\ auction'.HighestBidder = NoAccount
  BY DEF Spawn, Absent
<1>4. TypeOK'
  BY <1>2 DEF Spawn, IInv, TypeOK
<1>5. LifecycleCoherent' /\ RecordCoherent' /\ CommitmentCoherent'
  BY <1>1, <1>3
  DEF Spawn, LifecycleCoherent, RecordCoherent, CommitmentCoherent, Absent
<1>6. AccountsBalanced'
  BY <1>1, <1>3, AccountAssumption
  DEF Spawn, IInv, AccountsBalanced, Claim, Earned, Absent, Live
<1>7. WinnerIsBestAccepted' /\ ReserveRespected'
  BY <1>1, <1>3 DEF Spawn, WinnerIsBestAccepted, ReserveRespected
<1> QED
  BY <1>4, <1>5, <1>6, <1>7 DEF IInv

\* What every accepted bid establishes, apart from the balances.
LEMMA RecordBidIInv ==
  ASSUME IInv, NEW a \in BidderAccounts, NEW key \in Keys, NEW amount \in Amounts,
         NEW offer \in Amounts, offer > auction.HighestBid, Live,
         a # auction.SellerAccount, RecordBid(a, key, amount, offer),
         balance' \in [Accounts -> Amounts], AccountsBalanced'
  PROVE  IInv'
<1>1. TypeOK'
  <2>1. auction' \in AuctionData
    BY DEF IInv, TypeOK, AuctionData, RecordBid
  <2>2. unbacked' \in [BidderAccounts -> Int]
    BY AmountAssumption DEF IInv, TypeOK, RecordBid, Amounts
  <2>3. accepted' \subseteq BidRecords
    BY DEF IInv, TypeOK, RecordBid, BidRecords
  <2> QED
    BY <2>1, <2>2, <2>3 DEF IInv, TypeOK, RecordBid
<1>2. /\ auction'.State = auction.State
      /\ auction'.SellerAccount = auction.SellerAccount
      /\ auction'.ReservePrice = auction.ReservePrice
      /\ auction'.HighestBid = offer
      /\ auction'.HighestBidder = a
      /\ auction'.WinProof = key
  BY DEF IInv, TypeOK, AuctionData, RecordBid
<1>3. auction.HighestBid \in Nat /\ offer \in Nat
  BY AmountAssumption DEF IInv, TypeOK, AuctionData, Amounts
<1>4. LifecycleCoherent'
  BY <1>2, <1>3 DEF IInv, LifecycleCoherent, Live, RecordBid
<1>5. RecordCoherent' /\ CommitmentCoherent'
  BY <1>2, <1>3 DEF IInv, RecordCoherent, CommitmentCoherent, RecordBid
<1>6. WinnerIsBestAccepted'
  <2> DEFINE best == [bidder |-> a, key |-> key, bid |-> offer]
  <2>1. accepted' = accepted \cup {best}
    BY DEF RecordBid
  <2>2. \A other \in accepted : other.bid <= auction.HighestBid
    BY <1>3 DEF IInv, TypeOK, BidRecords, RecordCoherent, WinnerIsBestAccepted, Amounts
  <2>3. \A other \in accepted' \ {best} : other.bid < best.bid
    BY <1>3, <2>1, <2>2, AmountAssumption DEF IInv, TypeOK, BidRecords, Amounts
  <2> QED
    BY <1>2, <2>1, <2>3 DEF WinnerIsBestAccepted
<1>7. ReserveRespected'
  BY <1>2, <1>3, AmountAssumption
  DEF IInv, TypeOK, Terms, LifecycleCoherent, ReserveRespected, RecordBid
<1> QED
  BY <1>1, <1>4, <1>5, <1>6, <1>7 DEF IInv

\* The first bid preserves the invariant.
LEMMA FirstBidIInv ==
  ASSUME IInv, NEW a \in BidderAccounts, NEW key \in Keys, NEW amount \in Amounts,
         NEW offer \in Amounts, offer > 0, CanFetch(a, amount), Live,
         a # auction.SellerAccount, FirstBid(a, key, amount, offer)
  PROVE  IInv'
<1>1. balance' \in [Accounts -> Amounts]
  BY FetchType DEF IInv, FirstBid
<1>2. /\ auction' = [auction EXCEPT !.HighestBid = offer,
                                    !.HighestBidder = a,
                                    !.WinProof = key]
      /\ auction'.State = auction.State
      /\ auction'.SellerAccount = auction.SellerAccount
      /\ auction'.HighestBid = offer
      /\ auction'.HighestBidder = a
  BY DEF IInv, TypeOK, AuctionData, FirstBid, RecordBid
<1>3. AccountsBalanced'
  <2> SUFFICES ASSUME NEW q \in Accounts
               PROVE  balance'[q] + Claim(q)' = minted'[q] + unbacked'[q] + Earned(q)'
    BY DEF AccountsBalanced
  <2>1. Claim(q) = 0
    BY AccountAssumption DEF IInv, RecordCoherent, FirstBid, Claim
  <2>2. Claim(q)' = IF q = a THEN offer ELSE 0
    BY <1>2 DEF Claim, Live
  <2>3. Earned(q)' = Earned(q)
    BY <1>2 DEF Earned, FirstBid, RecordBid
  <2>4. balance[q] + Claim(q) = minted[q] + unbacked[q] + Earned(q)
    BY DEF IInv, AccountsBalanced
  <2>5. Earned(q) \in Int
    BY ClaimType DEF IInv
  <2>6. balance'[q] = IF q = a THEN balance[q] - amount ELSE balance[q]
    BY FetchType DEF IInv, FirstBid
  <2>7. unbacked'[q] = IF q = a THEN unbacked[q] + offer - amount ELSE unbacked[q]
    BY DEF IInv, TypeOK, BidderAccounts, FirstBid, RecordBid
  <2>8. balance[q] \in Int /\ unbacked[q] \in Int /\ minted[q] \in Int
    BY AmountAssumption DEF IInv, TypeOK, BidderAccounts, Amounts
  <2> QED
    BY <2>1, <2>2, <2>3, <2>4, <2>5, <2>6, <2>7, <2>8, AmountAssumption
    DEF FirstBid, RecordBid, Amounts
<1> QED
  BY <1>1, <1>3, RecordBidIInv DEF FirstBid

\* A bid over an earlier one, with its refund, preserves the invariant.
LEMMA OutbidIInv ==
  ASSUME IInv, NEW a \in BidderAccounts, NEW key \in Keys, NEW amount \in Amounts,
         NEW offer \in Amounts, offer > 0, CanFetch(a, amount), Live,
         a # auction.SellerAccount, Outbid(a, key, amount, offer)
  PROVE  IInv'
<1> DEFINE fetched == AfterFetch(a, amount)
           old == auction.HighestBidder
<1>1. /\ auction.HighestBid \in Amounts
      /\ auction.HighestBid > 0
      /\ old \in Accounts
  BY AmountAssumption
  DEF IInv, TypeOK, AuctionData, Outbid, CanStore, Amounts
<1>2. fetched \in [Accounts -> Amounts]
  BY FetchType DEF IInv
<1>3. /\ CanStore(fetched, old, auction.HighestBid)
      /\ balance' = Store(fetched, old, auction.HighestBid)
  BY DEF Outbid
<1>4. balance' \in [Accounts -> Amounts]
  BY <1>1, <1>2, <1>3, StoreType
<1>5. /\ auction'.State = auction.State
      /\ auction'.SellerAccount = auction.SellerAccount
      /\ auction'.HighestBid = offer
      /\ auction'.HighestBidder = a
  BY DEF IInv, TypeOK, AuctionData, Outbid, RecordBid
<1>6. AccountsBalanced'
  <2> SUFFICES ASSUME NEW q \in Accounts
               PROVE  balance'[q] + Claim(q)' = minted'[q] + unbacked'[q] + Earned(q)'
    BY DEF AccountsBalanced
  <2>1. Claim(q) = IF q = old THEN auction.HighestBid ELSE 0
    BY DEF Claim
  <2>2. Claim(q)' = IF q = a THEN offer ELSE 0
    BY <1>5 DEF Claim, Live
  <2>3. Earned(q)' = Earned(q) /\ minted' = minted
    BY <1>5 DEF Earned, Outbid, RecordBid
  <2>4. balance[q] + Claim(q) = minted[q] + unbacked[q] + Earned(q)
    BY DEF IInv, AccountsBalanced
  <2>5. Earned(q) \in Int
    BY ClaimType DEF IInv
  <2>6. unbacked' = [unbacked EXCEPT ![a] = @ + offer - amount]
    BY DEF Outbid, RecordBid
  <2>7. balance'[q] = (IF q = a THEN balance[q] - amount ELSE balance[q])
                      + (IF q = old THEN auction.HighestBid ELSE 0)
    <3>1. fetched[q] = IF q = a THEN balance[q] - amount ELSE balance[q]
      BY FetchType DEF IInv
    <3> HIDE DEF fetched
    <3> QED
      BY <1>1, <1>2, <1>3, <3>1, AmountAssumption
      DEF Store, IInv, TypeOK, Amounts
  <2>8. balance[q] \in Int /\ unbacked[q] \in Int /\ minted[q] \in Int
    BY AmountAssumption DEF IInv, TypeOK, BidderAccounts, Amounts
  <2>9. unbacked'[q] = IF q = a THEN unbacked[q] + offer - amount ELSE unbacked[q]
    BY <2>6 DEF IInv, TypeOK, BidderAccounts
  <2> HIDE DEF fetched, old
  <2> QED
    BY <1>1, <2>1, <2>2, <2>3, <2>4, <2>5, <2>7, <2>8, <2>9, AmountAssumption
    DEF Amounts
<1> QED
  BY <1>4, <1>6, RecordBidIInv DEF Outbid

\* An accepted bid preserves the invariant, whatever it declares.
LEMMA PlaceBidIInv ==
  ASSUME IInv, NEW a \in BidderAccounts, NEW key \in Keys, NEW amount \in Amounts,
         NEW d \in Amounts, PlaceBid(a, key, amount, d)
  PROVE  IInv'
<1> DEFINE offer == Add64(d, amount)
<1>1. offer \in Amounts
  BY Add64Type
<1>2. offer > 0 /\ CanFetch(a, amount) /\ Live /\ a # auction.SellerAccount
  BY DEF PlaceBid
<1>3. CASE FirstBid(a, key, amount, offer)
  BY <1>1, <1>2, <1>3, FirstBidIInv
<1>4. CASE Outbid(a, key, amount, offer)
  BY <1>1, <1>2, <1>4, OutbidIInv
<1> QED
  BY <1>3, <1>4 DEF PlaceBid

\* Closing data the contract accepts carry the price the seller committed to,
\* if they carry its salt.
LEMMA OpenedPrice ==
  ASSUME TypeOK, CommitmentCoherent, terms # NoReserve,
         NEW salt \in Salts, salt = terms.salt, NEW price \in Prices, ReserveOpened(salt, price)
  PROVE  auction.ReservePrice # Empty /\ price = terms.price
  BY HashAssumption DEF TypeOK, Terms, CommitmentCoherent, ReserveOpened

\* A close that pays the seller preserves the invariant.
LEMMA CloseSoldIInv ==
  ASSUME IInv, NEW salt \in Salts, NEW price \in Prices, CloseSold(salt, price)
  PROVE  IInv'
<1> DEFINE seller == auction.SellerAccount
<1>1. /\ auction.HighestBid \in Amounts
      /\ auction.HighestBid > 0
      /\ seller \in Accounts
  BY DEF IInv, TypeOK, AuctionData, CloseSold, ReserveMet, CanStore
<1>2. balance' \in [Accounts -> Amounts]
  BY <1>1, StoreType DEF IInv, TypeOK, CloseSold
<1>3. /\ auction'.State = "WCLOSED"
      /\ auction'.SellerAccount = auction.SellerAccount
      /\ auction'.ReservePrice = auction.ReservePrice
      /\ auction'.HighestBid = auction.HighestBid
      /\ auction'.HighestBidder = auction.HighestBidder
      /\ auction'.WinProof = auction.WinProof
  BY DEF IInv, TypeOK, AuctionData, CloseSold
<1>4. TypeOK'
  <2>1. auction' \in AuctionData
    BY DEF IInv, TypeOK, AuctionData, CloseSold
  <2>2. proceeds' \in Nat
    BY <1>1, AmountAssumption DEF IInv, TypeOK, Amounts, CloseSold
  <2> QED
    BY <1>2, <2>1, <2>2 DEF IInv, TypeOK, CloseSold
<1>5. LifecycleCoherent' /\ RecordCoherent' /\ CommitmentCoherent'
  <2>1. proceeds' > 0
    BY <1>1, AmountAssumption DEF IInv, TypeOK, Amounts, CloseSold
  <2> QED
    BY <1>1, <1>3, <2>1
    DEF IInv, LifecycleCoherent, RecordCoherent, CommitmentCoherent, CloseSold
<1>6. AccountsBalanced'
  <2> SUFFICES ASSUME NEW q \in Accounts
               PROVE  balance'[q] + Claim(q)' = minted'[q] + unbacked'[q] + Earned(q)'
    BY DEF AccountsBalanced
  <2>1. Claim(q)' = Claim(q)
    BY <1>3 DEF Claim, Live, CloseSold
  <2>2. Earned(q)' = IF q = seller THEN Earned(q) + auction.HighestBid
                     ELSE Earned(q)
    BY <1>3 DEF Earned, CloseSold
  <2>3. balance[q] + Claim(q) = minted[q] + unbacked[q] + Earned(q)
    BY DEF IInv, AccountsBalanced
  <2>4. Claim(q) \in Int /\ Earned(q) \in Int
    BY ClaimType DEF IInv
  <2>5. balance'[q] = IF q = seller THEN balance[q] + auction.HighestBid
                      ELSE balance[q]
    BY DEF CloseSold, Store, IInv, TypeOK
  <2> HIDE DEF seller
  <2> QED
    BY <1>1, <2>1, <2>2, <2>3, <2>4, <2>5, AmountAssumption
    DEF IInv, TypeOK, BidderAccounts, CloseSold, Amounts
<1>7. WinnerIsBestAccepted'
  BY <1>3 DEF IInv, WinnerIsBestAccepted, CloseSold
<1>8. ReserveRespected'
  <2> SUFFICES ASSUME terms # NoReserve, terms.salt \in opened'
               PROVE  auction.HighestBid > terms.price
    BY <1>3 DEF ReserveRespected, CloseSold
  <2>1. CASE terms.salt \in opened
    BY <2>1 DEF IInv, ReserveRespected
  <2>2. CASE salt = terms.salt
    BY <2>2, OpenedPrice DEF IInv, CloseSold, ReserveMet
  <2> QED
    BY <2>1, <2>2 DEF CloseSold
<1> QED
  BY <1>4, <1>5, <1>6, <1>7, <1>8 DEF IInv

\* Dropping and force-closing preserve the invariant.
LEMMA VoidIInv ==
  ASSUME IInv, NEW state \in {"DROPPED", "CLOSED"}, Void(state)
  PROVE  IInv'
<1> DEFINE old == auction.HighestBidder
<1>1. /\ auction'.State = state
      /\ auction'.SellerAccount = auction.SellerAccount
      /\ auction'.ReservePrice = auction.ReservePrice
      /\ auction'.HighestBid = auction.HighestBid
      /\ auction'.HighestBidder = auction.HighestBidder
      /\ auction'.WinProof = auction.WinProof
  BY DEF IInv, TypeOK, AuctionData, Void
<1>2. balance' \in [Accounts -> Amounts]
  BY StoreType DEF IInv, TypeOK, AuctionData, Void
<1>3. TypeOK'
  <2>1. auction' \in AuctionData
    BY DEF IInv, TypeOK, AuctionData, Void
  <2> QED
    BY <1>2, <2>1 DEF IInv, TypeOK, Void, history
<1>4. LifecycleCoherent' /\ RecordCoherent' /\ CommitmentCoherent'
  BY <1>1
  DEF IInv, LifecycleCoherent, RecordCoherent, CommitmentCoherent, Void, history
<1>5. AccountsBalanced'
  <2> SUFFICES ASSUME NEW q \in Accounts
               PROVE  balance'[q] + Claim(q)' = minted'[q] + unbacked'[q] + Earned(q)'
    BY DEF AccountsBalanced
  <2>1. Claim(q) = IF q = old THEN auction.HighestBid ELSE 0
    BY DEF Claim, Void
  <2>2. Claim(q)' = 0
    BY <1>1 DEF Claim, Live
  <2>3. Earned(q)' = Earned(q) /\ minted' = minted /\ unbacked' = unbacked
    BY <1>1 DEF Earned, Void, history
  <2>4. balance[q] + Claim(q) = minted[q] + unbacked[q] + Earned(q)
    BY DEF IInv, AccountsBalanced
  <2>5. Earned(q) \in Int
    BY ClaimType DEF IInv
  <2>6. auction.HighestBid \in Amounts
    BY DEF IInv, TypeOK, AuctionData
  <2>7. balance'[q] = IF q = old THEN balance[q] + auction.HighestBid
                      ELSE balance[q]
    <3>1. CASE auction.HighestBid = 0
      BY <3>1, AmountAssumption DEF Void, IInv, TypeOK, Amounts
    <3>2. CASE auction.HighestBid > 0
      BY <3>2 DEF Void, Store, IInv, TypeOK
    <3> QED
      BY <3>1, <3>2, <2>6 DEF Void
  <2> HIDE DEF old
  <2> QED
    BY <2>1, <2>2, <2>3, <2>4, <2>5, <2>6, <2>7, AmountAssumption
    DEF IInv, TypeOK, BidderAccounts, Amounts
<1>6. WinnerIsBestAccepted' /\ ReserveRespected'
  BY <1>1 DEF IInv, WinnerIsBestAccepted, ReserveRespected, Void, history
<1> QED
  BY <1>3, <1>4, <1>5, <1>6 DEF IInv

\* A step that changes nothing preserves it.
LEMMA StutterIInv == IInv /\ UNCHANGED vars => IInv'
  BY DEF vars, history, IInv, TypeOK, LifecycleCoherent, RecordCoherent,
         CommitmentCoherent, AccountsBalanced, Claim, Live, Earned,
         WinnerIsBestAccepted, ReserveRespected

\* Every step preserves the invariant.
LEMMA NextIInv == IInv /\ [Next]_vars => IInv'
<1> SUFFICES ASSUME IInv, [Next]_vars
             PROVE  IInv'
  OBVIOUS
<1>1. CASE \E a \in Accounts, amount \in 1 .. MaxCoin : Mint(a, amount)
  BY <1>1, MintIInv
<1>2. CASE \E seller \in Sellers, t \in Terms \cup {NoReserve} : Spawn(seller, t)
  BY <1>2, SpawnIInv
<1>3. CASE \E a \in BidderAccounts, key \in Keys, amount \in Amounts,
                d \in DeclaredBids : PlaceBid(a, key, amount, d)
  BY <1>3, PlaceBidIInv, AmountAssumption DEF Amounts
<1>4. CASE \E salt \in Salts, price \in Prices : CloseSold(salt, price)
  BY <1>4, CloseSoldIInv
<1>5. CASE Drop
  BY <1>5, VoidIInv DEF Drop
<1>6. CASE ForceClose
  BY <1>6, VoidIInv DEF ForceClose
<1>7. CASE UNCHANGED vars
  BY <1>7, StutterIInv
<1>8. CASE \E salt \in Salts, price \in Prices : CloseUnsold(salt, price)
  BY <1>8, StutterIInv DEF CloseUnsold
<1> QED
  BY <1>1, <1>2, <1>3, <1>4, <1>5, <1>6, <1>7, <1>8 DEF Next

\* The invariant holds in every reachable state.
THEOREM Invariance == Spec => []IInv
<1> QED
  BY InitIInv, NextIInv, PTL DEF Spec

\* Balances and bids stay in uint64 and the record well formed, for every
\* transaction the contract accepts (auction.go:42-330).
THEOREM TypeCorrect == Spec => []TypeOK
<1>1. IInv => TypeOK
  BY DEF IInv
<1> QED
  BY <1>1, Invariance, PTL

\* No account ever has a coin more or less than it was given, earned or is owed
\* as the highest bidder: refunds and payments are exact.
THEOREM CoinsAccountedFor == Spec => []AccountsBalanced
<1>1. IInv => AccountsBalanced
  BY DEF IInv
<1> QED
  BY <1>1, Invariance, PTL

\* The winner on record is the best accepted bid.
THEOREM BestBidWins == Spec => []WinnerIsBestAccepted
<1>1. IInv => WinnerIsBestAccepted
  BY DEF IInv
<1> QED
  BY <1>1, Invariance, PTL

\* A close with the seller's own salt never pays it for a bid that does not
\* exceed its reserve price.
THEOREM ReserveHonoured == Spec => []ReserveRespected
<1>1. IInv => ReserveRespected
  BY DEF IInv
<1> QED
  BY <1>1, Invariance, PTL

\* The refund of the highest bidder never overflows its account, if it exists
\* and was not given more than uint64 can count: what the account has and the
\* claim together are what it was given.
THEOREM RefundsFit == Spec => []RefundAlwaysFits
<1>1. IInv => RefundAlwaysFits
  <2> SUFFICES ASSUME IInv, Live, auction.HighestBidder \in Accounts,
                      minted[auction.HighestBidder]
                        + unbacked[auction.HighestBidder] <= MaxCoin
               PROVE  CanStore(balance, auction.HighestBidder, auction.HighestBid)
    BY DEF RefundAlwaysFits
  <2> DEFINE a == auction.HighestBidder
  <2>1. a \in Accounts /\ a # auction.SellerAccount
    BY AccountAssumption DEF IInv, TypeOK, AuctionData, Amounts, RecordCoherent
  <2>2. Claim(a) = auction.HighestBid /\ Earned(a) = 0
    BY <2>1 DEF Claim, Earned
  <2>3. balance[a] + Claim(a) = minted[a] + unbacked[a] + Earned(a)
    BY <2>1 DEF IInv, AccountsBalanced
  <2>4. minted[a] + unbacked[a] \in Int
    BY <2>1 DEF IInv, TypeOK, BidderAccounts
  <2> QED
    BY <2>1, <2>2, <2>3, <2>4 DEF CanStore
<1> QED
  BY <1>1, Invariance, PTL

\* Nothing happens to a dropped or force-closed auction, and afterwards coins
\* are only minted.
THEOREM VoidFinal == Spec => VoidIsFinal
<1> DEFINE Over == auction.State \in {"CLOSED", "DROPPED"}
           Frozen == /\ auction' = auction
                     /\ \A a \in Accounts :
                          balance'[a] - balance[a] = minted'[a] - minted[a]
<1>1. IInv /\ [Next]_vars => [Over => Frozen]_vars
  <2> SUFFICES ASSUME IInv, [Next]_vars, Over
               PROVE  Frozen
    OBVIOUS
  <2>1. ~Live /\ auction.State # "ABSENT"
    BY DEF Live
  <2>2. CASE \E a \in Accounts, amount \in 1 .. MaxCoin : Mint(a, amount)
    BY <2>2, AmountAssumption DEF Mint, Store, IInv, TypeOK, Amounts
  <2>3. CASE UNCHANGED vars
    BY <2>3, AmountAssumption DEF vars, history, IInv, TypeOK, Amounts
  <2> QED
    BY <2>1, <2>2, <2>3
    DEF Next, Spawn, PlaceBid, CloseSold, CloseUnsold, Drop, ForceClose, Void
<1> QED
  BY <1>1, Invariance, PTL DEF Spec, VoidIsFinal

\* Nothing but a sale happens to an auction whose highest bid is for an account
\* that does not exist: neither is the bid replaced nor the auction voided.
THEOREM StrayBidFinal == Spec => StrayBidStays
<1> DEFINE Stray == Live /\ auction.HighestBidder \in Strays
           Stays == auction' \in {auction, [auction EXCEPT !.State = "WCLOSED"]}
<1>1. IInv /\ [Next]_vars => [Stray => Stays]_vars
  <2> SUFFICES ASSUME IInv, [Next]_vars, Stray
               PROVE  Stays
    OBVIOUS
  <2>1. auction.State # "ABSENT" /\ auction.HighestBidder \notin Accounts
    BY AccountAssumption DEF Live
  <2>2. auction.HighestBid > 0
    BY AccountAssumption, AmountAssumption
    DEF IInv, TypeOK, AuctionData, RecordCoherent, Amounts
  <2>3. CASE \E a \in BidderAccounts, key \in Keys, amount \in Amounts,
                  d \in DeclaredBids : PlaceBid(a, key, amount, d)
    BY <2>1, <2>2, <2>3 DEF PlaceBid, FirstBid, Outbid, CanStore
  <2>4. CASE Drop \/ ForceClose
    BY <2>1, <2>2, <2>4 DEF Drop, ForceClose, Void, CanStore
  <2> QED
    BY <2>1, <2>3, <2>4
    DEF Next, Mint, Spawn, CloseSold, CloseUnsold, vars
<1> QED
  BY <1>1, Invariance, PTL DEF Spec, StrayBidStays
==============================================================================
