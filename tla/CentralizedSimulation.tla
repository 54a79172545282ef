------------------------ MODULE CentralizedSimulation ------------------------
(***************************************************************************)
(* Run of simulation/centrilized_auction.go: one goroutine makes Bids *    *)
(* Bidders * Auctions bids, each one higher than the last, one after the   *)
(* other, then closes the auction of the first server of the roster and    *)
(* compares the reply with its last bid.                                   *)
(*                                                                         *)
(* A definition that a comment calls a fault is used by no specification:  *)
(* it is the definition after it with a mistake the properties must catch. *)
(***************************************************************************)
EXTENDS CentralizedAuction

CONSTANTS
  Run,       \* the simulation's client
  First,     \* config.Roster.List[0]
  TotalBids  \* Bids * Bidders * Auctions

ASSUME SimulationAssumption ==
  Run \in Clients /\ First \in Servers /\ TotalBids \in Nat

VARIABLES
  bid,     \* the loop's bid: how many requests it has sent
  phase    \* "bidding", "waiting" for the reply to a bid, "closing", or how
           \* it ended

simVars == <<vars, bid, phase>>

SimInit == Init /\ bid = 0 /\ phase = "bidding"

\* A fault: the bid is made before it is incremented.
BidThenIncrement ==
  /\ phase = "bidding"
  /\ bid < TotalBids
  /\ bid' = bid + 1
  /\ ClientBid(Run, bid)
  /\ phase' = "waiting"

\* bid++; c.Bid(config.Roster, bid).
NextBid ==
  /\ phase = "bidding"
  /\ bid < TotalBids
  /\ bid' = bid + 1
  /\ ClientBid(Run, bid + 1)
  /\ phase' = "waiting"

\* The server records the bid and answers.  A refusal would end the simulation
\* (log.ErrFatal): it has no step here, and SimulationSucceeds fails with it.
BidAnswered ==
  /\ phase = "waiting"
  /\ BidRecorded(Run)
  /\ phase' = "bidding"
  /\ UNCHANGED bid

\* c.Close(config.Roster.List[0]) when the loops are through.
CloseFirst ==
  /\ phase = "bidding"
  /\ bid = TotalBids
  /\ ClientClose(Run, First)
  /\ phase' = "closing"
  /\ UNCHANGED bid

CloseAnswered ==
  /\ phase = "closing"
  /\ CloseResets(Run)
  /\ phase' = IF report.HighestBid = bid THEN "done" ELSE "wrong high bid"
  /\ UNCHANGED bid

\* The connection fails, and log.ErrFatal ends the simulation.  The handler may
\* be at work or have replied; one the request never gets to takes no steps.
CallFails ==
  /\ phase \in {"waiting", "closing"}
  /\ phase' = "failed"
  /\ UNCHANGED <<vars, bid>>

\* The handler's steps before its reply, and its reply when nobody waits for it.
Handles ==
  /\ \/ BidPasses(Run) \/ CloseReads(Run)
     \/ phase = "failed" /\ (BidRecorded(Run) \/ CloseResets(Run))
  /\ UNCHANGED <<bid, phase>>

SimNext ==
  NextBid \/ BidAnswered \/ CloseFirst \/ CloseAnswered \/ CallFails \/ Handles

\* The simulation's goroutine and the handlers it waits for keep running.
SimSpec == SimInit /\ [][SimNext]_simVars /\ WF_simVars(SimNext)

------------------------------------------------------------------------------

(***************************************************************************)
(* Wherever in the roster the bids go, no server refuses one: the loop's   *)
(* bid is higher than all it made before (log.ErrFatal after c.Bid,        *)
(* centrilized_auction.go:78).                                             *)
(***************************************************************************)
NoBidTooLow ==
  Handling(Run, "bid", "read") =>
    HighestBid[request[Run].server] < request[Run].bid

(***************************************************************************)
(* The reply to the close makes Run log "wrong high bid" only where bids   *)
(* may have gone to a server that is not asked in the end                  *)
(* (centrilized_auction.go:85-88).                                         *)
(***************************************************************************)
WrongOnlyAcrossRoster ==
  phase = "wrong high bid" => \E s \in Servers : s # First

(***************************************************************************)
(* The simulation ends, and unless a call fails it ends without an error:  *)
(* no bid is refused, and the high bid is the last one ("wrong high bid",  *)
(* centrilized_auction.go:86-88).                                          *)
(***************************************************************************)
SimulationSucceeds == <>(phase \in {"done", "failed"})
==============================================================================
