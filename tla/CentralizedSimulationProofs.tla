---------------------- MODULE CentralizedSimulationProofs ----------------------
(***************************************************************************)
(* The simulation of the centralised auction makes no mistake of its own,  *)
(* however many bids it makes: they rise at every server of the roster,    *)
(* and the last one is the highest where there is one server only.         *)
(***************************************************************************)
EXTENDS CentralizedSimulation, TLAPS

\* The first server is the whole roster.
OneServer == Servers = {First}

\* A bid in progress is the last one made, and is higher than the bids before.
BidInProgress(r) ==
  \E s \in Servers :
    \/ r = BidRequest(s, bid, "read") /\ \A t \in Servers : HighestBid[t] < bid
    \/ r = BidRequest(s, bid, "write")

\* A close in progress reads the last bid, or has read it.
CloseInProgress(r) ==
  \/ r = CloseRequest(First, "read") /\ (OneServer => HighestBid[First] = bid)
  \/ r = CloseRequest(First, "write") /\ (OneServer => report.HighestBid = bid)

\* The inductive invariant: what the phase of Run says of its request.
RunInv ==
  /\ bid \in Nat
  /\ HighestBid \in [Servers -> 0 .. bid]
  /\ \E r : /\ request = [c \in Clients |-> IF c = Run THEN r ELSE Idle]
            /\ \/ phase = "bidding" /\ r = Idle /\ (OneServer => HighestBid[First] = bid)
               \/ phase = "waiting" /\ BidInProgress(r)
               \/ phase = "closing" /\ CloseInProgress(r)
               \/ phase = "done" /\ r = Idle
               \/ phase = "failed" /\ (r = Idle \/ BidInProgress(r) \/ CloseInProgress(r))
               \/ phase = "wrong high bid" /\ r = Idle /\ ~OneServer

------------------------------------------------------------------------------

\* The fields that tell requests apart.
LEMMA RequestKinds ==
  /\ Idle.op = "none"
  /\ \A s, b, at : /\ BidRequest(s, b, at).op = "bid"
                   /\ BidRequest(s, b, at).server = s
                   /\ BidRequest(s, b, at).bid = b /\ BidRequest(s, b, at).at = at
  /\ \A s, at : /\ CloseRequest(s, at).op = "close"
                /\ CloseRequest(s, at).server = s /\ CloseRequest(s, at).at = at
  BY DEF Idle, BidRequest, CloseRequest

\* Run's own request changes and nobody else's.
LEMMA RunRequest ==
  ASSUME NEW r, NEW q, request = [c \in Clients |-> IF c = Run THEN r ELSE Idle]
  PROVE  /\ request[Run] = r
         /\ [request EXCEPT ![Run] = q]
              = [c \in Clients |-> IF c = Run THEN q ELSE Idle]
BY SimulationAssumption

\* The invariant holds when Run starts.
LEMMA SimInitRun == SimInit => RunInv
<1> SUFFICES ASSUME SimInit PROVE RunInv
  OBVIOUS
<1>1. bid = 0 /\ phase = "bidding" /\ HighestBid = [s \in Servers |-> 0]
  BY DEF SimInit, Init
<1>2. request = [c \in Clients |-> IF c = Run THEN Idle ELSE Idle]
  BY DEF SimInit, Init
<1>3. HighestBid \in [Servers -> 0 .. bid] /\ HighestBid[First] = bid
  BY <1>1, SimulationAssumption
<1> QED
  BY <1>1, <1>2, <1>3 DEF RunInv

\* Every step keeps it.
LEMMA SimNextRun == RunInv /\ [SimNext]_simVars => RunInv'
<1> SUFFICES ASSUME RunInv, [SimNext]_simVars PROVE RunInv'
  OBVIOUS
<1>0. PICK r : /\ request = [c \in Clients |-> IF c = Run THEN r ELSE Idle]
               /\ \/ phase = "bidding" /\ r = Idle /\ (OneServer => HighestBid[First] = bid)
                  \/ phase = "waiting" /\ BidInProgress(r)
                  \/ phase = "closing" /\ CloseInProgress(r)
                  \/ phase = "done" /\ r = Idle
                  \/ phase = "failed" /\ (r = Idle \/ BidInProgress(r) \/ CloseInProgress(r))
                  \/ phase = "wrong high bid" /\ r = Idle /\ ~OneServer
  BY DEF RunInv
<1>a. bid \in Nat /\ HighestBid \in [Servers -> 0 .. bid] /\ request[Run] = r
  BY <1>0, RunRequest DEF RunInv
<1>1. CASE NextBid
  <2>1. PICK s \in Servers : Send(Run, BidRequest(s, bid + 1, "read"))
    BY <1>1 DEF NextBid, ClientBid
  <2>0. PICK q : q = BidRequest(s, bid + 1, "read")
    OBVIOUS
  <2>2. /\ bid' = bid + 1 /\ q = BidRequest(s, bid', "read")
        /\ phase' = "waiting" /\ HighestBid' = HighestBid
        /\ request' = [request EXCEPT ![Run] = q]
    BY <1>1, <2>0, <2>1 DEF NextBid, Send
  <2>3. /\ HighestBid' \in [Servers -> 0 .. bid'] /\ bid' \in Nat
        /\ \A t \in Servers : HighestBid'[t] < bid'
    BY <1>a, <2>2
  <2>4. BidInProgress(q)'
    BY <2>2, <2>3 DEF BidInProgress
  <2>5. request' = [c \in Clients |-> IF c = Run THEN q ELSE Idle]
    BY <1>0, <2>2, RunRequest
  <2> QED
    BY <2>2, <2>3, <2>4, <2>5 DEF RunInv
<1>2. CASE BidAnswered
  <2>1. phase = "waiting" /\ phase' = "bidding" /\ bid' = bid
    BY <1>2 DEF BidAnswered
  <2>2. /\ request[Run].at = "write"
        /\ HighestBid' = [HighestBid EXCEPT ![request[Run].server] = request[Run].bid]
        /\ request' = [request EXCEPT ![Run] = Idle]
    BY <1>2 DEF BidAnswered, BidRecorded, Handling
  <2>3. PICK s \in Servers : r = BidRequest(s, bid, "write")
    BY <1>0, <1>a, <2>1, <2>2, RequestKinds DEF BidInProgress
  <2>4. HighestBid' = [HighestBid EXCEPT ![s] = bid]
    <3>1. request[Run] = BidRequest(s, bid, "write")
      BY <1>a, <2>3
    <3>2. request[Run].server = s /\ request[Run].bid = bid
      BY <3>1, RequestKinds
    <3> QED
      BY <2>2, <3>2
  <2>5. HighestBid' \in [Servers -> 0 .. bid'] /\ bid' \in Nat
    BY <1>a, <2>1, <2>4
  <2>6. OneServer => HighestBid'[First] = bid'
    BY <1>a, <2>1, <2>4 DEF OneServer
  <2>7. request' = [c \in Clients |-> IF c = Run THEN Idle ELSE Idle]
    BY <1>0, <2>2, RunRequest
  <2> QED
    BY <2>1, <2>5, <2>6, <2>7 DEF RunInv, OneServer
<1>3. CASE CloseFirst
  <2> DEFINE q == CloseRequest(First, "read")
  <2>1. /\ phase = "bidding" /\ phase' = "closing" /\ bid' = bid
        /\ HighestBid' = HighestBid /\ request' = [request EXCEPT ![Run] = q]
    BY <1>3 DEF CloseFirst, ClientClose, Send
  <2>2. CloseInProgress(q)'
    BY <1>0, <2>1 DEF CloseInProgress, OneServer
  <2> HIDE DEF q
  <2>3. request' = [c \in Clients |-> IF c = Run THEN q ELSE Idle]
    BY <1>0, <2>1, RunRequest
  <2> QED
    BY <1>a, <2>1, <2>2, <2>3 DEF RunInv, q
<1>4. CASE CloseAnswered
  <2>1. /\ phase = "closing" /\ bid' = bid
        /\ phase' = IF report.HighestBid = bid THEN "done" ELSE "wrong high bid"
    BY <1>4 DEF CloseAnswered
  <2>2. /\ request[Run].at = "write"
        /\ HighestBid' = [HighestBid EXCEPT ![request[Run].server] = 0]
        /\ request' = [request EXCEPT ![Run] = Idle]
    BY <1>4 DEF CloseAnswered, CloseResets, Handling
  <2>3. OneServer => report.HighestBid = bid
    <3>1. CloseInProgress(request[Run])
      BY <1>0, <1>a, <2>1
    <3>2. request[Run] # CloseRequest(First, "read")
      BY <2>2, RequestKinds
    <3> QED
      BY <3>1, <3>2 DEF CloseInProgress
  <2>4. HighestBid' \in [Servers -> 0 .. bid'] /\ bid' \in Nat
    <3> DEFINE at == request[Run].server
    <3>1. HighestBid' = [HighestBid EXCEPT ![at] = 0]
      BY <2>2
    <3>2. 0 \in 0 .. bid
      BY <1>a
    <3> HIDE DEF at
    <3> QED
      BY <1>a, <2>1, <3>1, <3>2
  <2>5. request' = [c \in Clients |-> IF c = Run THEN Idle ELSE Idle]
    BY <1>0, <2>2, RunRequest
  <2> QED
    BY <2>1, <2>3, <2>4, <2>5 DEF RunInv, OneServer
<1>5. CASE BidPasses(Run) /\ UNCHANGED <<bid, phase>>
  <2>1. /\ request[Run].op = "bid" /\ HighestBid' = HighestBid
        /\ bid' = bid /\ phase' = phase
        /\ request' = [request EXCEPT ![Run] =
                         BidRequest(request[Run].server, request[Run].bid, "write")]
    BY <1>5 DEF BidPasses, Handling
  <2>2. phase \in {"waiting", "failed"} /\ BidInProgress(r)
    <3>1. r.op = "bid"
      BY <1>a, <2>1
    <3>2. r # Idle /\ ~CloseInProgress(r)
      BY <3>1, RequestKinds DEF CloseInProgress
    <3> QED
      BY <1>0, <3>2
  <2>3. PICK s \in Servers : r.server = s /\ r.bid = bid
    BY <2>2, RequestKinds DEF BidInProgress
  <2> DEFINE q == BidRequest(s, bid, "write")
  <2>4. BidInProgress(q)'
    BY <2>1 DEF BidInProgress
  <2>5. request' = [request EXCEPT ![Run] = q]
    BY <1>a, <2>1, <2>3
  <2> HIDE DEF q
  <2>6. request' = [c \in Clients |-> IF c = Run THEN q ELSE Idle]
    BY <1>0, <2>5, RunRequest
  <2> QED
    BY <1>a, <2>1, <2>2, <2>4, <2>6 DEF RunInv, q
<1>6. CASE CloseReads(Run) /\ UNCHANGED <<bid, phase>>
  <2>1. /\ request[Run].op = "close" /\ request[Run].at = "read"
        /\ HighestBid' = HighestBid /\ bid' = bid /\ phase' = phase
        /\ report'.HighestBid = HighestBid[request[Run].server]
        /\ request' = [request EXCEPT ![Run] =
                         CloseRequest(request[Run].server, "write")]
    BY <1>6 DEF CloseReads, Handling
  <2>2. phase \in {"closing", "failed"} /\ r = CloseRequest(First, "read")
        /\ (OneServer => HighestBid[First] = bid)
    <3>1. r.op = "close" /\ r.at = "read"
      BY <1>a, <2>1
    <3>2. r # Idle /\ ~BidInProgress(r) /\ r # CloseRequest(First, "write")
      BY <3>1, RequestKinds DEF BidInProgress
    <3> QED
      BY <1>0, <3>2 DEF CloseInProgress
  <2>3. r.server = First
    BY <2>2, RequestKinds
  <2> DEFINE q == CloseRequest(First, "write")
  <2>4. CloseInProgress(q)'
    BY <1>a, <2>1, <2>2, <2>3 DEF CloseInProgress, OneServer
  <2>5. request' = [request EXCEPT ![Run] = q]
    BY <1>a, <2>1, <2>3
  <2> HIDE DEF q
  <2>6. request' = [c \in Clients |-> IF c = Run THEN q ELSE Idle]
    BY <1>0, <2>5, RunRequest
  <2> QED
    BY <1>a, <2>1, <2>2, <2>4, <2>6 DEF RunInv, q
<1>7. CASE UNCHANGED simVars
  <2>1. /\ request' = request /\ bid' = bid /\ phase' = phase
        /\ HighestBid' = HighestBid /\ report' = report
    BY <1>7 DEF simVars, vars
  <2>2. /\ BidInProgress(r)' <=> BidInProgress(r)
        /\ CloseInProgress(r)' <=> CloseInProgress(r)
    BY <2>1 DEF BidInProgress, CloseInProgress, OneServer
  <2> QED
    BY <1>0, <1>a, <2>1, <2>2 DEF RunInv, OneServer
<1>8. CASE CallFails
  <2>1. /\ phase \in {"waiting", "closing"} /\ phase' = "failed"
        /\ request' = request /\ bid' = bid
        /\ HighestBid' = HighestBid /\ report' = report
    BY <1>8 DEF CallFails, vars
  <2>2. BidInProgress(r)' \/ CloseInProgress(r)'
    BY <1>0, <2>1 DEF BidInProgress, CloseInProgress, OneServer
  <2> QED
    BY <1>0, <1>a, <2>1, <2>2 DEF RunInv
\* Nobody waits for the reply any more.
<1>9. CASE /\ phase = "failed" /\ UNCHANGED <<bid, phase>>
           /\ BidRecorded(Run) \/ CloseResets(Run)
  <2>1. /\ bid' = bid /\ phase' = "failed"
        /\ request' = [request EXCEPT ![Run] = Idle]
    BY <1>9 DEF BidRecorded, CloseResets
  <2>2. HighestBid' \in [Servers -> 0 .. bid']
    <3>1. CASE CloseResets(Run)
      <4> DEFINE at == request[Run].server
      <4>1. HighestBid' = [HighestBid EXCEPT ![at] = 0] /\ 0 \in 0 .. bid
        BY <1>a, <3>1 DEF CloseResets
      <4> HIDE DEF at
      <4> QED
        BY <1>a, <2>1, <4>1
    <3>2. CASE BidRecorded(Run)
      <4>1. r.op = "bid" /\ HighestBid' = [HighestBid EXCEPT ![r.server] = r.bid]
        BY <1>a, <3>2 DEF BidRecorded, Handling
      <4>2. r # Idle /\ ~CloseInProgress(r)
        BY <4>1, RequestKinds DEF CloseInProgress
      <4>3. BidInProgress(r)
        BY <1>0, <1>9, <4>2
      <4>4. r.bid = bid
        BY <4>3, RequestKinds DEF BidInProgress
      <4> DEFINE at == r.server
      <4>5. HighestBid' = [HighestBid EXCEPT ![at] = bid] /\ bid \in 0 .. bid
        BY <1>a, <4>1, <4>4
      <4> HIDE DEF at
      <4> QED
        BY <1>a, <2>1, <4>5
    <3> QED
      BY <1>9, <3>1, <3>2
  <2>3. request' = [c \in Clients |-> IF c = Run THEN Idle ELSE Idle]
    BY <1>0, <2>1, RunRequest
  <2> QED
    BY <1>a, <2>1, <2>2, <2>3 DEF RunInv
<1> QED
  BY <1>1, <1>2, <1>3, <1>4, <1>5, <1>6, <1>7, <1>8, <1>9 DEF SimNext, Handles

\* What Run knows of its request holds throughout.
THEOREM RunInvariance == SimSpec => []RunInv
<1> QED
  BY SimInitRun, SimNextRun, PTL DEF SimSpec

\* No server of any roster refuses a bid of the simulation, however many it
\* makes: each is higher than all before it (centrilized_auction.go:76-78).
THEOREM BidsRise == SimSpec => []NoBidTooLow
<1>1. RunInv => NoBidTooLow
  <2> SUFFICES ASSUME RunInv, Handling(Run, "bid", "read")
               PROVE  HighestBid[request[Run].server] < request[Run].bid
    BY DEF NoBidTooLow
  <2>1. PICK r : /\ request = [c \in Clients |-> IF c = Run THEN r ELSE Idle]
                 /\ r = Idle \/ BidInProgress(r) \/ CloseInProgress(r)
    BY DEF RunInv
  <2>2. request[Run] = r
    BY <2>1, RunRequest
  <2>3. PICK s \in Servers : /\ r = BidRequest(s, bid, "read")
                             /\ \A t \in Servers : HighestBid[t] < bid
    BY <2>1, <2>2, RequestKinds DEF Handling, BidInProgress, CloseInProgress
  <2> QED
    BY <2>2, <2>3, RequestKinds
<1> QED
  BY <1>1, RunInvariance, PTL

\* With a roster of one the high bid is right, however many bids there were
\* (centrilized_auction.go:84-88).
THEOREM OneServerIsRight == SimSpec => []WrongOnlyAcrossRoster
<1>1. RunInv => WrongOnlyAcrossRoster
  BY SimulationAssumption DEF RunInv, WrongOnlyAcrossRoster, OneServer
<1> QED
  BY <1>1, RunInvariance, PTL
==============================================================================
