------------------------ MODULE OrderlyAuctionProofs ------------------------
(***************************************************************************)
(* The open auction, used as its clients use it, implements the escrow     *)
(* auction for every set of accounts and every width of the coin type.     *)
(***************************************************************************)
EXTENDS OrderlyAuction, OpenAuctionProofs

\* An account's stake, computed from balances, is its claim on the record.
StakesAreClaims == \A a \in Accounts : StakeOf(a) = Claim(a)

\* The inductive invariant says so.
LEMMA StakeIsClaim == IInv => StakesAreClaims
<1> SUFFICES ASSUME IInv, NEW a \in Accounts
             PROVE  StakeOf(a) = Claim(a)
  BY DEF StakesAreClaims
<1>1. balance[a] + Claim(a) = minted[a] + unbacked[a] + Earned(a)
  BY DEF IInv, AccountsBalanced
<1>2. Claim(a) \in Int /\ Earned(a) \in Int
  BY ClaimType DEF IInv
<1>3. balance[a] \in Int /\ minted[a] \in Int /\ unbacked[a] \in Int
  BY AmountAssumption DEF IInv, TypeOK, BidderAccounts, Amounts
<1> QED
  BY <1>1, <1>2, <1>3 DEF StakeOf

\* Initial states of the contract are initial states of the escrow.
LEMMA InitEscrow == Init => Escrow!Init
<1> SUFFICES ASSUME Init PROVE Escrow!Init
  OBVIOUS
<1>1. PhaseOf(auction.State) = "announced" /\ auction.HighestBidder = NoAccount
  BY DEF Init, Absent, PhaseOf
<1>2. ASSUME NEW a \in Accounts PROVE StakeOf(a) = 0
  <2>1. Earned(a) = 0
    BY DEF Init, Earned
  <2>2. minted[a] = 0 /\ unbacked[a] = 0 /\ balance[a] = 0
    BY DEF Init, BidderAccounts
  <2> QED
    BY <2>1, <2>2 DEF StakeOf
<1> QED
  BY <1>1, <1>2 DEF Init, Escrow!Init, Escrow!NoStakes

\* The stake function before and after a step, in terms of the record.
LEMMA StakeSteps ==
  ASSUME StakesAreClaims, StakesAreClaims'
  PROVE  /\ [a \in Accounts |-> StakeOf(a)] = [a \in Accounts |-> Claim(a)]
         /\ [a \in Accounts |-> StakeOf(a)]' = [a \in Accounts |-> Claim(a)']
  BY DEF StakesAreClaims

\* A bid raises the stake of its bidder above every other and frees those.
LEMMA RaiseEscrow ==
  ASSUME IInv, StakesAreClaims, StakesAreClaims', ~Sold,
         NEW a \in Accounts, NEW key \in Keys, NEW amount \in Amounts,
         NEW d \in DeclaredBids, PlaceBid(a, key, amount, d)
  PROVE  Escrow!Next
<1> DEFINE offer == Add64(d, amount)
<1>1. offer \in Amounts
  BY Add64Type, AmountAssumption DEF Amounts
<1>2. auction.HighestBid \in Amounts /\ offer > auction.HighestBid
  BY AmountAssumption
  DEF IInv, TypeOK, AuctionData, PlaceBid, FirstBid, Outbid, Amounts
<1>3. /\ auction.State = "OPEN"
      /\ auction'.State = "OPEN"
      /\ auction'.HighestBid = offer
      /\ auction'.HighestBidder = a
      /\ proceeds' = proceeds
  BY DEF IInv, TypeOK, AuctionData, PlaceBid, FirstBid, Outbid, RecordBid, Live, Sold
<1>4. \A q \in Accounts : Claim(q) < offer
  BY <1>1, <1>2, AmountAssumption DEF Claim, Amounts, PlaceBid
<1>5. [q \in Accounts |-> Claim(q)'] = [Escrow!NoStakes EXCEPT ![a] = offer]
  BY <1>3 DEF Claim, Live, Escrow!NoStakes
<1>6. Escrow!Raise(a, offer)
  <2>1. /\ PhaseOf(auction.State) = "running"
        /\ PhaseOf(auction.State)' = "running"
    BY <1>3 DEF PhaseOf
  <2> HIDE DEF offer
  <2> QED
    BY <1>3, <1>4, <1>5, <2>1, StakeSteps DEF Escrow!Raise
<1> QED
  BY <1>1, <1>6 DEF Escrow!Next

\* Spawning opens the escrow.
LEMMA OpenEscrow ==
  ASSUME IInv, StakesAreClaims, StakesAreClaims', NEW seller \in Sellers,
         NEW t \in Terms \cup {NoReserve}, Spawn(seller, t)
  PROVE  Escrow!Next
<1>1. /\ auction.HighestBid = 0
      /\ auction.HighestBidder = NoAccount
      /\ auction'.HighestBid = 0
      /\ auction'.HighestBidder = NoAccount
      /\ proceeds' = proceeds
  BY DEF IInv, LifecycleCoherent, Absent, Spawn
<1>2. \A a \in Accounts : Claim(a)' = Claim(a)
  BY <1>1 DEF Claim
<1>3. /\ PhaseOf(auction.State) = "announced"
      /\ PhaseOf(auction.State)' = "running"
  BY DEF Spawn, Absent, PhaseOf
<1>4. Escrow!Open
  BY <1>1, <1>2, <1>3, StakeSteps DEF Escrow!Open
<1> QED
  BY <1>4 DEF Escrow!Next

\* A close that pays is the escrow's sale: what the seller receives is what
\* the leader had at stake.
LEMMA SellEscrow ==
  ASSUME IInv, StakesAreClaims, StakesAreClaims', ~Sold,
         auction'.HighestBidder \notin Strays,
         NEW salt \in Salts, NEW price \in Prices, CloseSold(salt, price)
  PROVE  Escrow!Next
<1>1. /\ auction.State = "OPEN"
      /\ auction'.State = "WCLOSED"
      /\ auction'.HighestBid = auction.HighestBid
      /\ auction'.HighestBidder = auction.HighestBidder
      /\ auction.HighestBid > 0
      /\ auction.HighestBidder \in Accounts
  BY DEF IInv, TypeOK, AuctionData, RecordCoherent, BidderAccounts, CloseSold,
         ReserveMet, Live, Sold
<1>2. /\ \A a \in Accounts : Claim(a)' = Claim(a)
      /\ Claim(auction.HighestBidder) = auction.HighestBid
  BY <1>1 DEF Claim, Live
<1>3. proceeds' = auction.HighestBid
  <2>1. proceeds = 0 /\ proceeds' = proceeds + auction.HighestBid
    BY <1>1 DEF IInv, LifecycleCoherent, CloseSold
  <2>2. auction.HighestBid \in Int
    BY AmountAssumption DEF IInv, TypeOK, AuctionData, Amounts
  <2> QED
    BY <2>1, <2>2
<1>4. /\ PhaseOf(auction.State) = "running"
      /\ PhaseOf(auction.State)' = "sold"
  BY <1>1 DEF PhaseOf
<1>5. Escrow!Sell
  BY <1>1, <1>2, <1>3, <1>4, StakeSteps DEF Escrow!Sell
<1> QED
  BY <1>5 DEF Escrow!Next

\* Dropping and force-closing cancel the escrow.
LEMMA CancelEscrow ==
  ASSUME IInv, StakesAreClaims, StakesAreClaims', ~Sold,
         NEW state \in {"DROPPED", "CLOSED"}, Void(state)
  PROVE  Escrow!Next
<1>1. /\ auction.State = "OPEN"
      /\ auction'.State = state
      /\ auction'.HighestBidder = auction.HighestBidder
      /\ proceeds' = proceeds
  BY DEF IInv, TypeOK, AuctionData, Void, Live, Sold, history
<1>2. \A a \in Accounts : Claim(a)' = 0
  BY <1>1 DEF Claim, Live
<1>3. /\ PhaseOf(auction.State) = "running"
      /\ PhaseOf(auction.State)' = "cancelled"
  BY <1>1 DEF PhaseOf
<1>4. Escrow!Cancel
  BY <1>1, <1>2, <1>3, StakeSteps DEF Escrow!Cancel, Escrow!NoStakes
<1> QED
  BY <1>4 DEF Escrow!Next

\* A step that leaves the auction and the proceeds alone is invisible.
LEMMA InvisibleEscrow ==
  ASSUME StakesAreClaims, StakesAreClaims', UNCHANGED <<auction, proceeds>>
  PROVE  UNCHANGED Escrow!vars
<1>1. \A a \in Accounts : Claim(a)' = Claim(a)
  BY DEF Claim, Live
<1>2. PhaseOf(auction.State)' = PhaseOf(auction.State)
  BY DEF PhaseOf
<1> QED
  BY <1>1, <1>2, StakeSteps DEF Escrow!vars

\* Every orderly step is a step of the escrow or invisible to it.
LEMMA NextEscrow ==
  IInv /\ StakesAreClaims /\ StakesAreClaims' /\ [OrderlyNext]_vars
    => [Escrow!Next]_Escrow!vars
<1> SUFFICES ASSUME IInv, StakesAreClaims, StakesAreClaims', [OrderlyNext]_vars
             PROVE  [Escrow!Next]_Escrow!vars
  OBVIOUS
<1>1. CASE UNCHANGED <<auction, proceeds>>
  BY <1>1, InvisibleEscrow
<1>2. CASE ~UNCHANGED <<auction, proceeds>>
  <2>1. Next /\ ~Sold /\ auction'.HighestBidder \notin Strays
    BY <1>2 DEF OrderlyNext, vars, history
  <2>2. CASE \E seller \in Sellers, t \in Terms \cup {NoReserve} : Spawn(seller, t)
    BY <2>2, OpenEscrow
  <2>3. CASE \E a \in BidderAccounts, key \in Keys, amount \in Amounts,
                  d \in DeclaredBids : PlaceBid(a, key, amount, d)
    <3>1. PICK a \in BidderAccounts, key \in Keys, amount \in Amounts,
               d \in DeclaredBids : PlaceBid(a, key, amount, d)
      BY <2>3
    <3>2. auction'.HighestBidder = a
      BY <3>1
      DEF IInv, TypeOK, AuctionData, PlaceBid, FirstBid, Outbid, RecordBid
    <3>3. a \in Accounts
      BY <2>1, <3>2 DEF BidderAccounts
    <3> QED
      BY <2>1, <3>1, <3>3, RaiseEscrow
  <2>4. CASE \E salt \in Salts, price \in Prices : CloseSold(salt, price)
    BY <2>1, <2>4, SellEscrow
  <2>5. CASE Drop \/ ForceClose
    BY <2>1, <2>5, CancelEscrow DEF Drop, ForceClose
  <2>6. ~\E a \in Accounts, amount \in 1 .. MaxCoin : Mint(a, amount)
    BY <1>2 DEF Mint
  <2>7. ~\E salt \in Salts, price \in Prices : CloseUnsold(salt, price)
    BY <1>2 DEF CloseUnsold, vars, history
  <2> QED
    BY <2>1, <2>2, <2>3, <2>4, <2>5, <2>6, <2>7 DEF Next
<1> QED
  BY <1>1, <1>2

\* Used as its clients use it, the contract implements the escrow auction: one
\* leader at a time has coins at stake, a higher bid frees them in the same
\* step, and they end up once, with the seller or with the leader.
THEOREM OrderlyImplementsEscrow == OrderlySpec => ImplementsEscrow
<1>1. Init => IInv
  BY InitIInv
<1>2. IInv /\ [OrderlyNext]_vars => IInv'
  BY NextIInv DEF OrderlyNext
<1> QED
  BY <1>1, <1>2, StakeIsClaim, InitEscrow, NextEscrow, PTL
  DEF OrderlySpec, ImplementsEscrow, Escrow!Spec
==============================================================================
