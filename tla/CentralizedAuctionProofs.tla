----------------------- MODULE CentralizedAuctionProofs -----------------------
(***************************************************************************)
(* Theorems about the centralised auction, for every roster, every set of  *)
(* clients and every set of bids.                                          *)
(***************************************************************************)
EXTENDS CentralizedAuction, TLAPS

\* The servers on which a Close is between its two steps.
Closing == {s \in Servers : \E c \in Clients : request[c] = CloseRequest(s, "write")}

\* What a request is made of, by its kind.
LEMMA RequestFields ==
  ASSUME TypeOK, NEW c \in Clients
  PROVE  /\ request[c].op = "bid" =>
              /\ request[c] = BidRequest(request[c].server, request[c].bid,
                                         request[c].at)
              /\ request[c].server \in Servers
              /\ request[c].bid \in BidValues
              /\ request[c].at \in {"read", "write"}
              /\ request[c].at = "write" => request[c].bid \in Nat
         /\ request[c].op = "close" =>
              /\ request[c] = CloseRequest(request[c].server, request[c].at)
              /\ request[c].server \in Servers
              /\ request[c].at \in {"read", "write"}
<1>1. request[c] \in Requests
  BY DEF TypeOK
<1>2. CASE request[c] = Idle
  BY <1>2 DEF Idle
<1>3. CASE request[c] \in [op : {"bid"}, server : Servers, bid : BidValues, at : {"read"}]
  BY <1>3 DEF BidRequest
<1>4. CASE request[c] \in [op : {"bid"}, server : Servers, bid : BidValues \cap Nat,
                          at : {"write"}]
  BY <1>4 DEF BidRequest
<1>5. CASE request[c] \in [op : {"close"}, server : Servers, at : {"read", "write"}]
  BY <1>5 DEF CloseRequest
<1> QED
  BY <1>1, <1>2, <1>3, <1>4, <1>5 DEF Requests

\* The requests of the model are Requests.
LEMMA RequestTypes ==
  /\ Idle \in Requests
  /\ \A s \in Servers, b \in BidValues : BidRequest(s, b, "read") \in Requests
  /\ \A s \in Servers, b \in BidValues \cap Nat : BidRequest(s, b, "write") \in Requests
  /\ \A s \in Servers, at \in {"read", "write"} : CloseRequest(s, at) \in Requests
  BY DEF Idle, BidRequest, CloseRequest, Requests

\* Their fields tell them apart.
LEMMA RequestShapes ==
  /\ Idle.op = "none"
  /\ \A s, b, at : LET r == BidRequest(s, b, at)
                  IN  r.op = "bid" /\ r.server = s /\ r.bid = b /\ r.at = at
  /\ \A s, at : LET r == CloseRequest(s, at)
               IN  r.op = "close" /\ r.server = s /\ r.at = at
  BY DEF Idle, BidRequest, CloseRequest

\* Resetting one bid leaves a function from servers to bids.
LEMMA ResetType ==
  ASSUME NEW f \in [Servers -> Nat], NEW i \in Servers
  PROVE  [f EXCEPT ![i] = 0] \in [Servers -> Nat]
  OBVIOUS

\* The initial state is well typed.
LEMMA InitType == Init => TypeOK
  BY RequestTypes DEF Init, TypeOK

\* Every step keeps the types.
LEMMA NextType == TypeOK /\ [Next]_vars => TypeOK'
<1> SUFFICES ASSUME TypeOK, [Next]_vars PROVE TypeOK'
  OBVIOUS
<1> USE DEF TypeOK
<1>1. ASSUME NEW c \in Clients, NEW b \in BidValues, ClientBid(c, b) PROVE TypeOK'
  BY <1>1, RequestTypes, RequestShapes DEF ClientBid, Send
<1>2. ASSUME NEW c \in Clients, NEW s \in Servers, ClientClose(c, s) PROVE TypeOK'
  BY <1>2, RequestTypes, RequestShapes DEF ClientClose, Send
<1>3. ASSUME NEW c \in Clients, BidTooLow(c) PROVE TypeOK'
  BY <1>3, RequestTypes DEF BidTooLow
<1>4. ASSUME NEW c \in Clients, BidPasses(c) PROVE TypeOK'
  <2>1. request[c].server \in Servers /\ request[c].bid \in BidValues
    BY <1>4, RequestFields DEF BidPasses, Handling
  <2>2. request[c].bid \in Nat
    <3>1. HighestBid[request[c].server] \in Nat
      BY <2>1
    <3>2. HighestBid[request[c].server] < request[c].bid
      BY <1>4 DEF BidPasses
    <3>3. request[c].bid \in Int
      BY <2>1, BidAssumption
    <3> QED
      BY <3>1, <3>2, <3>3
  <2>3. BidRequest(request[c].server, request[c].bid, "write") \in Requests
    BY <2>1, <2>2, RequestTypes
  <2> QED
    BY <1>4, <2>3 DEF BidPasses
<1>5. ASSUME NEW c \in Clients, BidRecorded(c) PROVE TypeOK'
  <2>1. request[c].server \in Servers /\ request[c].bid \in BidValues \cap Nat
    BY <1>5, RequestFields DEF BidRecorded, Handling
  <2>2. request' \in [Clients -> Requests]
    BY <1>5, RequestTypes DEF BidRecorded
  <2>3. HighestBid' \in [Servers -> Nat]
    BY <1>5, <2>1 DEF BidRecorded
  <2>4. accepted' \in [Servers -> SUBSET BidValues]
    BY <1>5, <2>1 DEF BidRecorded
  <2> QED
    BY <1>5, <2>2, <2>3, <2>4 DEF BidRecorded
<1>6. ASSUME NEW c \in Clients, CloseReads(c) PROVE TypeOK'
  <2>1. request[c].server \in Servers
    BY <1>6, RequestFields DEF CloseReads, Handling
  <2>2. CloseRequest(request[c].server, "write") \in Requests
    BY <2>1, RequestTypes
  <2>3. request' \in [Clients -> Requests]
    BY <1>6, <2>2 DEF CloseReads
  <2>4. /\ report' \in [HighestBid : Nat, bids : SUBSET BidValues, raced : BOOLEAN]
        /\ raced' \subseteq Servers
    BY <1>6, <2>1 DEF CloseReads
  <2>5. accepted' \in [Servers -> SUBSET BidValues]
    BY <1>6 DEF CloseReads
  <2> QED
    BY <1>6, <2>3, <2>4, <2>5 DEF CloseReads
<1>7. ASSUME NEW c \in Clients, CloseResets(c) PROVE TypeOK'
  <2>1. request' \in [Clients -> Requests]
    BY <1>7, RequestTypes DEF CloseResets
  <2>2. HighestBid' \in [Servers -> Nat]
    BY <1>7, RequestFields, ResetType DEF CloseResets, Handling
  <2> QED
    BY <1>7, <2>1, <2>2 DEF CloseResets
<1>8. CASE UNCHANGED vars
  BY <1>8 DEF vars
<1> QED
  BY <1>1, <1>2, <1>3, <1>4, <1>5, <1>6, <1>7, <1>8 DEF Next, Handle

------------------------------------------------------------------------------

\* Whatever the interleaving, an open server holds 0 or an acknowledged bid.
LEMMA NextPhantom == TypeOK /\ NoPhantomBid /\ [Next]_vars => NoPhantomBid'
<1> SUFFICES ASSUME TypeOK, NoPhantomBid, [Next]_vars, NEW s \in Servers
             PROVE  \/ HighestBid'[s] \in accepted'[s] \cup {0}
                    \/ \E c \in Clients : request'[c] = CloseRequest(s, "write")
  BY DEF NoPhantomBid
<1>1. HighestBid[s] \in accepted[s] \cup {0} \/ s \in Closing
  BY DEF NoPhantomBid, Closing
<1>3. ASSUME NEW c \in Clients, NEW r, Send(c, r)
      PROVE  HighestBid'[s] \in accepted'[s] \cup {0} \/ s \in Closing'
  BY <1>1, <1>3 DEF Send, Closing, CloseRequest, Idle, TypeOK
<1>4. ASSUME NEW c \in Clients, BidTooLow(c) \/ BidPasses(c)
      PROVE  HighestBid'[s] \in accepted'[s] \cup {0} \/ s \in Closing'
  BY <1>1, <1>4 DEF BidTooLow, BidPasses, Handling, Closing, CloseRequest, TypeOK
<1>5. ASSUME NEW c \in Clients, BidRecorded(c)
      PROVE  HighestBid'[s] \in accepted'[s] \cup {0} \/ s \in Closing'
  BY <1>1, <1>5 DEF BidRecorded, Handling, Closing, CloseRequest, TypeOK
<1>6. ASSUME NEW c \in Clients, CloseReads(c)
      PROVE  HighestBid'[s] \in accepted'[s] \cup {0} \/ s \in Closing'
  BY <1>1, <1>6 DEF CloseReads, Handling, Closing, CloseRequest, TypeOK
<1>7. ASSUME NEW c \in Clients, CloseResets(c)
      PROVE  HighestBid'[s] \in accepted'[s] \cup {0} \/ s \in Closing'
  BY <1>1, <1>7 DEF CloseResets, Handling, Closing, CloseRequest, TypeOK
<1>8. CASE UNCHANGED vars
  BY <1>1, <1>8 DEF vars, Closing
<1> QED
  BY <1>3, <1>4, <1>5, <1>6, <1>7, <1>8
  DEF Next, ClientBid, ClientClose, Handle, Closing

------------------------------------------------------------------------------

\* Client c has a request in progress at server s.
At(c, s) == request[c] # Idle /\ request[c].server = s

\* Without a race one request is in progress at a server at most.
OneAt(s) == \A c, d \in Clients : At(c, s) /\ At(d, s) => c = d

\* HighestBid is the best acknowledged bid; between the steps of a Close
\* nothing is acknowledged yet for the next auction.
Coherent(s) ==
  /\ s \in Closing => accepted[s] = {}
  /\ s \notin Closing => IsBest(HighestBid[s], accepted[s])

\* A bid that passed the check is still higher when it is recorded.
PassedIsHigher(s) ==
  \A c \in Clients :
    At(c, s) /\ Handling(c, "bid", "write") => HighestBid[s] < request[c].bid

\* What holds of a server whose auction no two requests have raced for.
ServerInv(s) == s \notin raced => OneAt(s) /\ Coherent(s) /\ PassedIsHigher(s)

\* The inductive invariant of the service.
SInv ==
  /\ TypeOK
  /\ \A s \in Servers : ServerInv(s)
  /\ CloseReportsHighest

\* The initial state satisfies it.
LEMMA InitSInv == Init => SInv
<1> SUFFICES ASSUME Init PROVE SInv
  OBVIOUS
<1>1. TypeOK
  BY InitType
<1>2. IsBest(0, {})
  BY DEF IsBest
<1>3. ASSUME NEW s \in Servers PROVE OneAt(s) /\ Coherent(s) /\ PassedIsHigher(s)
  BY <1>2 DEF Init, OneAt, At, Coherent, Closing, CloseRequest, PassedIsHigher, Idle
<1>4. CloseReportsHighest
  BY <1>2 DEF Init, CloseReportsHighest
<1> QED
  BY <1>1, <1>3, <1>4 DEF SInv, ServerInv

\* A step of a client elsewhere leaves a server's part of the invariant alone.
LEMMA Elsewhere ==
  ASSUME NEW s \in Servers, ServerInv(s), TypeOK, NEW c \in Clients, NEW r,
         request' = [request EXCEPT ![c] = r],
         request[c] = Idle \/ request[c].server # s, r = Idle \/ r.server # s,
         HighestBid'[s] = HighestBid[s], accepted'[s] = accepted[s],
         s \in raced' <=> s \in raced
  PROVE  ServerInv(s)'
<1>1. \A d \in Clients : At(d, s)' <=> At(d, s)
  BY DEF At, TypeOK
<1>2. \A d \in Clients : At(d, s) => request'[d] = request[d]
  BY DEF At, TypeOK
<1>3. s \in Closing' <=> s \in Closing
  <2>1. \A d \in Clients : request[d] = CloseRequest(s, "write") => At(d, s)
    BY RequestShapes DEF At
  <2>2. \A d \in Clients : request'[d] = CloseRequest(s, "write") => At(d, s)'
    BY RequestShapes DEF At
  <2> QED
    BY <1>1, <1>2, <2>1, <2>2 DEF Closing
<1>4. OneAt(s) => OneAt(s)'
  BY <1>1 DEF OneAt
<1>5. Coherent(s) => Coherent(s)'
  BY <1>3 DEF Coherent
<1>6. PassedIsHigher(s) => PassedIsHigher(s)'
  BY <1>1, <1>2 DEF PassedIsHigher, Handling
<1> QED
  BY <1>4, <1>5, <1>6 DEF ServerInv

\* What a step of the only client at a server must establish there.
LEMMA Here ==
  ASSUME NEW t \in Servers, TypeOK, NEW c \in Clients, Alone(c, t), NEW r,
         request' = [request EXCEPT ![c] = r],
         r = CloseRequest(t, "write") => accepted'[t] = {},
         r # CloseRequest(t, "write") => IsBest(HighestBid'[t], accepted'[t]),
         r.op = "bid" /\ r.at = "write" => HighestBid'[t] < r.bid
  PROVE  ServerInv(t)'
<1>1. request'[c] = r
  BY DEF TypeOK
<1>2. \A d \in Clients \ {c} : ~At(d, t)'
  BY DEF TypeOK, At, Alone
<1>3. OneAt(t)'
  BY <1>2 DEF OneAt
<1>4. t \in Closing' <=> r = CloseRequest(t, "write")
  <2>1. \A d \in Clients : request'[d] = CloseRequest(t, "write") => At(d, t)'
    BY RequestShapes DEF At
  <2> QED
    BY <1>1, <1>2, <2>1 DEF Closing
<1>5. Coherent(t)'
  BY <1>4 DEF Coherent
<1>6. PassedIsHigher(t)'
  BY <1>1, <1>2 DEF PassedIsHigher, Handling
<1> QED
  BY <1>3, <1>5, <1>6 DEF ServerInv

\* A client at a server without a race is alone there.
LEMMA AloneThere ==
  ASSUME NEW t \in Servers, t \notin raced, ServerInv(t), NEW c \in Clients, At(c, t)
  PROVE  /\ Alone(c, t)
         /\ t \in Closing <=> request[c] = CloseRequest(t, "write")
<1>1. Alone(c, t)
  BY DEF ServerInv, OneAt, At, Alone
<1>2. \A d \in Clients : request[d] = CloseRequest(t, "write") => At(d, t)
  BY RequestShapes DEF At
<1> QED
  BY <1>1, <1>2 DEF Closing, ServerInv, OneAt

\* Sending a request preserves the invariant.
LEMMA SendSInv ==
  ASSUME SInv, TypeOK', NEW c \in Clients, NEW r, Send(c, r),
         r.server \in Servers, r.at = "read"
  PROVE  SInv'
<1> DEFINE t == r.server
<1>1. request[c] = Idle /\ request' = [request EXCEPT ![c] = r]
  BY DEF Send
<1>2. ASSUME NEW s \in Servers, s # t PROVE ServerInv(s)'
  <2>1. s \in raced' <=> s \in raced
    BY <1>2 DEF Send
  <2>2. HighestBid'[s] = HighestBid[s] /\ accepted'[s] = accepted[s]
    BY DEF Send
  <2> QED
    BY <1>1, <1>2, <2>1, <2>2, Elsewhere DEF SInv
<1>3. ServerInv(t)'
  <2>1. CASE t \in raced'
    BY <2>1 DEF ServerInv
  <2>2. CASE t \notin raced'
    <3>1. Alone(c, t) /\ t \notin raced
      BY <2>2 DEF Send
    <3>2. t \notin Closing
      <4>1. \A d \in Clients : request[d] = CloseRequest(t, "write") => At(d, t)
        BY RequestShapes DEF At
      <4> QED
        BY <1>1, <3>1, <4>1 DEF Closing, Alone, At
    <3>3. IsBest(HighestBid'[t], accepted'[t])
      BY <3>1, <3>2 DEF SInv, ServerInv, Coherent, Send
    <3>4. r # CloseRequest(t, "write")
      BY RequestShapes
    <3> QED
      BY <1>1, <3>1, <3>3, <3>4, Here DEF SInv
  <2> QED
    BY <2>1, <2>2
<1>4. CloseReportsHighest'
  BY DEF SInv, CloseReportsHighest, Send
<1> QED
  BY <1>2, <1>3, <1>4 DEF SInv

\* So does every step of a handler: elsewhere nothing changes, and at its
\* server only an auction without a race is held to anything.
LEMMA HandleSInv ==
  ASSUME SInv, TypeOK', NEW c \in Clients, Handle(c)
  PROVE  SInv'
<1> PICK t : t = request[c].server
  OBVIOUS
<1> PICK b : b = request[c].bid
  OBVIOUS
<1> PICK r : r = request'[c]
  OBVIOUS
<1>1. At(c, t) /\ t \in Servers /\ (request[c].op = "bid" => b \in BidValues)
  BY RequestFields
  DEF At, SInv, Handle, BidTooLow, BidPasses, BidRecorded, CloseReads,
      CloseResets, Handling, Idle
<1>2. /\ request' = [request EXCEPT ![c] = r]
      /\ r = Idle \/ r.server = t
  BY RequestShapes
  DEF SInv, TypeOK, Handle, BidTooLow, BidPasses, BidRecorded, CloseReads, CloseResets
<1>3. ASSUME NEW s \in Servers, s # t PROVE ServerInv(s)'
  <2>1. HighestBid'[s] = HighestBid[s] /\ accepted'[s] = accepted[s]
    BY <1>3
    DEF SInv, TypeOK, Handle, BidTooLow, BidPasses, BidRecorded, CloseReads, CloseResets
  <2>2. s \in raced' <=> s \in raced
    BY <1>3 DEF Handle, BidTooLow, BidPasses, BidRecorded, CloseReads, CloseResets
  <2> QED
    BY <1>1, <1>2, <1>3, <2>1, <2>2, Elsewhere DEF SInv
<1>4. ServerInv(t)
  BY <1>1 DEF SInv
<1>5. t \notin raced => Alone(c, t)
  BY <1>1, <1>4, AloneThere
<1>6. CASE BidTooLow(c)
  <2>1. r = Idle /\ r # CloseRequest(t, "write")
    BY <1>6, RequestShapes DEF BidTooLow, SInv, TypeOK
  <2>2. t \notin raced => IsBest(HighestBid'[t], accepted'[t])
    BY <1>1, <1>4, <1>6, AloneThere, RequestShapes
    DEF BidTooLow, Handling, ServerInv, Coherent
  <2>3. ServerInv(t)'
    <3>1. CASE t \in raced
      BY <1>6, <3>1 DEF BidTooLow, ServerInv
    <3>2. CASE t \notin raced
      <4>1. TypeOK /\ r.op # "bid"
        BY <2>1, RequestShapes DEF SInv
      <4> QED
        BY <1>1, <1>2, <1>5, <2>1, <2>2, <3>2, <4>1, Here
    <3> QED
      BY <3>1, <3>2
  <2>4. CloseReportsHighest'
    BY <1>6 DEF BidTooLow, SInv, CloseReportsHighest
  <2> QED
    BY <1>3, <2>3, <2>4 DEF SInv
<1>7. CASE BidPasses(c)
  <2>1. r = BidRequest(t, b, "write") /\ r # CloseRequest(t, "write")
    BY <1>7, RequestShapes DEF BidPasses, SInv, TypeOK
  <2>2. t \notin raced => IsBest(HighestBid'[t], accepted'[t])
    BY <1>1, <1>4, <1>7, AloneThere, RequestShapes
    DEF BidPasses, Handling, ServerInv, Coherent
  <2>3. HighestBid'[t] < r.bid
    BY <1>7, <2>1, RequestShapes DEF BidPasses
  <2>4. ServerInv(t)'
    <3>1. CASE t \in raced
      BY <1>7, <3>1 DEF BidPasses, ServerInv
    <3>2. CASE t \notin raced
      <4>1. TypeOK
        BY DEF SInv
      <4> QED
        BY <1>1, <1>2, <1>5, <2>1, <2>2, <2>3, <3>2, <4>1, Here
    <3> QED
      BY <3>1, <3>2
  <2>5. CloseReportsHighest'
    BY <1>7 DEF BidPasses, SInv, CloseReportsHighest
  <2> QED
    BY <1>3, <2>4, <2>5 DEF SInv
<1>8. CASE BidRecorded(c)
  <2>1. r = Idle /\ r # CloseRequest(t, "write")
    BY <1>8, RequestShapes DEF BidRecorded, SInv, TypeOK
  <2>2. HighestBid'[t] = b /\ accepted'[t] = accepted[t] \cup {b}
    BY <1>1, <1>8 DEF BidRecorded, SInv, TypeOK
  <2>3. ASSUME t \notin raced PROVE IsBest(HighestBid'[t], accepted'[t])
    <3>1. IsBest(HighestBid[t], accepted[t])
      BY <1>1, <1>4, <1>8, <2>3, AloneThere, RequestShapes
      DEF BidRecorded, Handling, ServerInv, Coherent
    <3>2. HighestBid[t] < b
      BY <1>1, <1>4, <1>8, <2>3 DEF BidRecorded, ServerInv, PassedIsHigher
    <3>3. b \in Int /\ HighestBid[t] \in Nat /\ accepted[t] \subseteq Int
      BY <1>1, <1>8, BidAssumption DEF BidRecorded, Handling, SInv, TypeOK
    <3> QED
      BY <2>2, <3>1, <3>2, <3>3 DEF IsBest
  <2>4. ServerInv(t)'
    <3>1. CASE t \in raced
      BY <1>8, <3>1 DEF BidRecorded, ServerInv
    <3>2. CASE t \notin raced
      <4>1. TypeOK /\ r.op # "bid"
        BY <2>1, RequestShapes DEF SInv
      <4> QED
        BY <1>1, <1>2, <1>5, <2>1, <2>3, <3>2, <4>1, Here
    <3> QED
      BY <3>1, <3>2
  <2>5. CloseReportsHighest'
    BY <1>8 DEF BidRecorded, SInv, CloseReportsHighest
  <2> QED
    BY <1>3, <2>4, <2>5 DEF SInv
<1>9. CASE CloseReads(c)
  <2>1. r = CloseRequest(t, "write") /\ accepted'[t] = {}
    BY <1>1, <1>9 DEF CloseReads, SInv, TypeOK
  <2>2. t \notin raced' => Alone(c, t)
    BY <1>5, <1>9 DEF CloseReads
  <2>3. ServerInv(t)'
    <3>1. CASE t \in raced'
      BY <3>1 DEF ServerInv
    <3>2. CASE t \notin raced'
      <4>1. TypeOK /\ r.op # "bid"
        BY <2>1, RequestShapes DEF SInv
      <4> QED
        BY <1>1, <1>2, <2>1, <2>2, <3>2, <4>1, Here
    <3> QED
      BY <3>1, <3>2
  <2>4. t \notin raced => IsBest(HighestBid[t], accepted[t])
    BY <1>1, <1>4, <1>9, AloneThere, RequestShapes
    DEF CloseReads, Handling, ServerInv, Coherent
  <2>5. CloseReportsHighest'
    BY <1>9, <2>4 DEF CloseReads, CloseReportsHighest
  <2> QED
    BY <1>3, <2>3, <2>5 DEF SInv
<1>10. CASE CloseResets(c)
  <2>1. r = Idle /\ r # CloseRequest(t, "write")
    BY <1>10, RequestShapes DEF CloseResets, SInv, TypeOK
  <2>2. request[c] = CloseRequest(t, "write")
    BY <1>10, RequestFields DEF CloseResets, Handling, SInv
  <2>3. ASSUME t \notin raced PROVE IsBest(HighestBid'[t], accepted'[t])
    <3>1. accepted[t] = {}
      BY <1>1, <1>4, <2>2, <2>3, AloneThere DEF ServerInv, Coherent
    <3>2. HighestBid'[t] = 0 /\ accepted'[t] = {}
      BY <1>1, <1>10, <3>1 DEF CloseResets, SInv, TypeOK
    <3> QED
      BY <3>2 DEF IsBest
  <2>4. ServerInv(t)'
    <3>1. CASE t \in raced
      BY <1>10, <3>1 DEF CloseResets, ServerInv
    <3>2. CASE t \notin raced
      <4>1. TypeOK /\ r.op # "bid"
        BY <2>1, RequestShapes DEF SInv
      <4> QED
        BY <1>1, <1>2, <1>5, <2>1, <2>3, <3>2, <4>1, Here
    <3> QED
      BY <3>1, <3>2
  <2>5. CloseReportsHighest'
    BY <1>10 DEF CloseResets, SInv, CloseReportsHighest
  <2> QED
    BY <1>3, <2>4, <2>5 DEF SInv
<1> QED
  BY <1>6, <1>7, <1>8, <1>9, <1>10 DEF Handle

\* Every step preserves the invariant.
LEMMA NextSInv == SInv /\ [Next]_vars => SInv'
<1> SUFFICES ASSUME SInv, [Next]_vars PROVE SInv'
  OBVIOUS
<1>1. TypeOK'
  BY NextType DEF SInv
<1>2. CASE \E c \in Clients, b \in BidValues : ClientBid(c, b)
  BY <1>1, <1>2, SendSInv, RequestShapes DEF ClientBid
<1>3. CASE \E c \in Clients, s \in Servers : ClientClose(c, s)
  BY <1>1, <1>3, SendSInv, RequestShapes DEF ClientClose
<1>4. CASE \E c \in Clients : Handle(c)
  BY <1>1, <1>4, HandleSInv
<1>5. CASE UNCHANGED vars
  BY <1>5
  DEF vars, SInv, TypeOK, ServerInv, OneAt, At, Coherent, Closing, IsBest,
      PassedIsHigher, Handling, CloseReportsHighest
<1> QED
  BY <1>2, <1>3, <1>4, <1>5 DEF Next

\* The types hold whatever the concurrency.
THEOREM ServiceTypeCorrect == Spec => []TypeOK
<1> QED
  BY InitType, NextType, PTL DEF Spec

\* Whatever the handlers interleave, a server never holds a bid it refused or
\* one of the auction before.
THEOREM PhantomFree == Spec => []NoPhantomBid
<1>1. Init => NoPhantomBid
  BY DEF Init, NoPhantomBid
<1> QED
  BY <1>1, InitType, NextType, NextPhantom, PTL DEF Spec

\* Whatever the other servers do and whatever happened before, Close returns
\* the best acknowledged bid of an auction nobody raced for.
THEOREM UnracedCloseReportsHighest == Spec => []CloseReportsHighest
<1>1. SInv => CloseReportsHighest
  BY DEF SInv
<1> QED
  BY <1>1, InitSInv, NextSInv, PTL DEF Spec

\* Where nobody raced, an acknowledged bid exceeds the ones before it.
THEOREM UnracedAcceptedRise == Spec => AcceptedRise
<1> DEFINE Rise == \A s \in Servers \ raced : \A b \in accepted'[s] \ accepted[s] :
                     \A earlier \in accepted[s] : b > earlier
<1>1. SInv /\ [Next]_vars => [Rise]_vars
  <2> SUFFICES ASSUME SInv, [Next]_vars, NEW s \in Servers, s \notin raced,
                      NEW b \in accepted'[s] \ accepted[s], NEW earlier \in accepted[s]
               PROVE  b > earlier
    OBVIOUS
  <2>1. PICK c \in Clients : BidRecorded(c)
    BY DEF Next, vars, ClientBid, ClientClose, Send, Handle, BidTooLow, BidPasses,
           CloseReads, CloseResets, SInv, TypeOK
  <2>2. request[c].bid \in Int /\ At(c, request[c].server)
    BY <2>1, RequestFields, BidAssumption DEF BidRecorded, Handling, SInv, At, Idle
  <2>3. s = request[c].server /\ b = request[c].bid
    BY <2>1 DEF BidRecorded, SInv, TypeOK
  <2>4. ServerInv(s)
    BY DEF SInv
  <2>5. HighestBid[s] < b
    BY <2>1, <2>2, <2>3, <2>4 DEF BidRecorded, ServerInv, PassedIsHigher
  <2>6. s \notin Closing
    BY <2>4 DEF ServerInv, Coherent
  <2>7. earlier <= HighestBid[s]
    BY <2>4, <2>6 DEF ServerInv, Coherent, IsBest
  <2>8. earlier \in Int /\ HighestBid[s] \in Int
    <3>1. accepted[s] \subseteq Int /\ HighestBid[s] \in Nat
      BY BidAssumption DEF SInv, TypeOK
    <3> QED
      BY <3>1
  <2> QED
    BY <2>2, <2>3, <2>5, <2>7, <2>8
<1> QED
  BY <1>1, InitSInv, NextSInv, PTL DEF Spec, AcceptedRise
==============================================================================
