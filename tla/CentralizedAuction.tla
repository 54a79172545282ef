-------------------------- MODULE CentralizedAuction --------------------------
(***************************************************************************)
(* The centralised auction service of centrilized_auctions: every server   *)
(* of the roster keeps the highest bid in memory, clients bid at a server  *)
(* of their choice and close the auction of one.  onet runs the handlers   *)
(* of different connections in goroutines of their own and the service     *)
(* takes no lock, so a handler is two steps: the read of HighestBid, and   *)
(* the write.                                                              *)
(*                                                                         *)
(* A definition that a comment calls a fault is used by no specification:  *)
(* it is the definition after it with a mistake the properties must catch. *)
(***************************************************************************)
EXTENDS Integers

CONSTANTS
  Servers,     \* the roster
  Clients,     \* connections; each has one request in progress at most
  BidValues    \* the bids clients make

ASSUME BidAssumption == BidValues \subseteq Int

VARIABLES
  HighestBid,  \* Service.HighestBid of every server
  request,     \* the request each client has in progress
  \* The remaining variables record the past; no guard reads them.
  accepted,    \* per server, the bids it accepted since the last Close
  raced,       \* the servers whose auction has seen requests overlap
  report       \* the last CloseReply, with accepted and raced at that moment

vars == <<HighestBid, request, accepted, raced, report>>

Idle == [op |-> "none"]
BidRequest(s, b, at) == [op |-> "bid", server |-> s, bid |-> b, at |-> at]
CloseRequest(s, at) == [op |-> "close", server |-> s, at |-> at]

\* A bid at "write" passed the comparison with HighestBid, which is no less
\* than 0.
Requests ==
  {Idle}
    \cup [op : {"bid"}, server : Servers, bid : BidValues, at : {"read"}]
    \cup [op : {"bid"}, server : Servers, bid : BidValues \cap Nat, at : {"write"}]
    \cup [op : {"close"}, server : Servers, at : {"read", "write"}]

\* No other client has a request in progress at the server.
Alone(c, s) ==
  \A d \in Clients \ {c} : request[d] # Idle => request[d].server # s

\* x is the best of a set of accepted bids, or 0 if there is none.
IsBest(x, bids) == x \in bids \cup {0} /\ \A b \in bids \cup {0} : b <= x

------------------------------------------------------------------------------

Init ==
  /\ HighestBid = [s \in Servers |-> 0]
  /\ request = [c \in Clients |-> Idle]
  /\ accepted = [s \in Servers |-> {}]
  /\ raced = {}
  /\ report = [HighestBid |-> 0, bids |-> {}, raced |-> FALSE]

Send(c, r) ==
  /\ request[c] = Idle
  /\ request' = [request EXCEPT ![c] = r]
  /\ raced' = IF Alone(c, r.server) THEN raced ELSE raced \cup {r.server}
  /\ UNCHANGED <<HighestBid, accepted, report>>

\* Client.Bid: the server is a random one of the roster.
ClientBid(c, b) == \E s \in Servers : Send(c, BidRequest(s, b, "read"))

\* Client.Close: the server is the caller's choice.
ClientClose(c, s) == Send(c, CloseRequest(s, "read"))

Handling(c, op, at) ==
  request[c].op = op /\ request[c].at = at

\* Service.Bid answers "bid too low".
BidTooLow(c) ==
  /\ Handling(c, "bid", "read")
  /\ HighestBid[request[c].server] >= request[c].bid
  /\ request' = [request EXCEPT ![c] = Idle]
  /\ UNCHANGED <<HighestBid, accepted, raced, report>>

\* A fault: every bid passes.
EveryBidPasses(c) ==
  /\ Handling(c, "bid", "read")
  /\ LET r == request[c]
     IN  request' = [request EXCEPT ![c] = BidRequest(r.server, r.bid, "write")]
  /\ UNCHANGED <<HighestBid, accepted, raced, report>>

\* Service.Bid finds the bid high enough ...
BidPasses(c) ==
  /\ Handling(c, "bid", "read")
  /\ LET r == request[c]
     IN  /\ HighestBid[r.server] < r.bid
         /\ request' = [request EXCEPT ![c] = BidRequest(r.server, r.bid, "write")]
  /\ UNCHANGED <<HighestBid, accepted, raced, report>>

\* ... records it and answers BidReply.
BidRecorded(c) ==
  /\ Handling(c, "bid", "write")
  /\ LET r == request[c]
     IN  /\ HighestBid' = [HighestBid EXCEPT ![r.server] = r.bid]
         /\ accepted' = [accepted EXCEPT ![r.server] = @ \cup {r.bid}]
  /\ request' = [request EXCEPT ![c] = Idle]
  /\ UNCHANGED <<raced, report>>

\* A fault: the reply is built after the reset.
CloseReadsLate(c) ==
  /\ Handling(c, "close", "read")
  /\ LET s == request[c].server
     IN  /\ report' = [HighestBid |-> 0, bids |-> accepted[s], raced |-> s \in raced]
         /\ accepted' = [accepted EXCEPT ![s] = {}]
         /\ raced' = IF Alone(c, s) THEN raced \ {s} ELSE raced
         /\ request' = [request EXCEPT ![c] = CloseRequest(s, "write")]
  /\ UNCHANGED HighestBid

\* Service.Close builds the reply: bids accepted from now on belong to the
\* next auction, and a race is over when nobody else is at the server ...
CloseReads(c) ==
  /\ Handling(c, "close", "read")
  /\ LET s == request[c].server
     IN  /\ report' = [HighestBid |-> HighestBid[s], bids |-> accepted[s],
                       raced |-> s \in raced]
         /\ accepted' = [accepted EXCEPT ![s] = {}]
         /\ raced' = IF Alone(c, s) THEN raced \ {s} ELSE raced
         /\ request' = [request EXCEPT ![c] = CloseRequest(s, "write")]
  /\ UNCHANGED HighestBid

\* A fault: the reset is forgotten.
CloseKeepsBid(c) ==
  /\ Handling(c, "close", "write")
  /\ request' = [request EXCEPT ![c] = Idle]
  /\ UNCHANGED <<HighestBid, accepted, raced, report>>

\* ... resets HighestBid and returns it.
CloseResets(c) ==
  /\ Handling(c, "close", "write")
  /\ HighestBid' = [HighestBid EXCEPT ![request[c].server] = 0]
  /\ request' = [request EXCEPT ![c] = Idle]
  /\ UNCHANGED <<accepted, raced, report>>

Handle(c) ==
  BidTooLow(c) \/ BidPasses(c) \/ BidRecorded(c) \/ CloseReads(c) \/ CloseResets(c)

Next ==
  \E c \in Clients :
    \/ \E b \in BidValues : ClientBid(c, b)
    \/ \E s \in Servers : ClientClose(c, s)
    \/ Handle(c)

\* A goroutine that can run is run: a handler neither blocks nor stops.
Spec == Init /\ [][Next]_vars /\ \A c \in Clients : WF_vars(Handle(c))

------------------------------------------------------------------------------

\* Types of the state and of the history.
TypeOK ==
  /\ HighestBid \in [Servers -> Nat]
  /\ request \in [Clients -> Requests]
  /\ accepted \in [Servers -> SUBSET BidValues]
  /\ raced \subseteq Servers
  /\ report \in [HighestBid : Nat, bids : SUBSET BidValues, raced : BOOLEAN]

(***************************************************************************)
(* "Close returns the highest bid" (service_struct.go:31): the reply is    *)
(* the best of the bids the server acknowledged since the close before,    *)
(* whatever happens at the other servers, if no two requests overlapped at *)
(* this one since a Close had it to itself.  So a race spoils one auction  *)
(* and the next Close repairs the server.                                  *)
(***************************************************************************)
CloseReportsHighest ==
  ~report.raced => IsBest(report.HighestBid, report.bids)

(***************************************************************************)
(* The same of the state: when nobody waits for an answer, a Close would   *)
(* return the best acknowledged bid ("Count returns the highest bid",      *)
(* service.go:29).                                                         *)
(***************************************************************************)
HighestBidIsBest ==
  (\A c \in Clients : request[c] = Idle) =>
    \A s \in Servers : IsBest(HighestBid[s], accepted[s])

(***************************************************************************)
(* Where no requests overlapped, an acknowledged bid exceeds every bid     *)
(* acknowledged since the last close (service.go:22).                      *)
(***************************************************************************)
AcceptedRise ==
  [][\A s \in Servers \ raced : \A b \in accepted'[s] \ accepted[s] :
       \A earlier \in accepted[s] : b > earlier]_vars

(***************************************************************************)
(* Whatever the handlers interleave, a server on which no Close is between *)
(* its two steps holds 0 or a bid it acknowledged and has not reported: a  *)
(* bid that Service.Bid refused, or one of the auction before, never       *)
(* becomes the highest bid (service.go:22-33).                             *)
(***************************************************************************)
NoPhantomBid ==
  \A s \in Servers :
    \/ HighestBid[s] \in accepted[s] \cup {0}
    \/ \E c \in Clients : request[c] = CloseRequest(s, "write")
==============================================================================
