---------------------------- MODULE EscrowAuction ----------------------------
(***************************************************************************)
(* What an open auction in escrow promises its participants, without       *)
(* saying how coins are stored: at any time at most one participant, the   *)
(* leader, has coins tied up; a higher bid frees them in the same step;    *)
(* the auction ends once, either with the leader's stake becoming the      *)
(* seller's revenue or with every stake freed; afterwards nothing moves.   *)
(***************************************************************************)
EXTENDS Integers

CONSTANTS
  Participants,
  Nobody,        \* the leader before the first bid
  Stakes         \* the amounts a bid can have

VARIABLES
  phase,    \* "announced", "running", "sold" or "cancelled"
  leader,   \* the participant with the highest bid
  stake,    \* the coins every participant has tied up in the auction
  revenue   \* what the seller received

vars == <<phase, leader, stake, revenue>>

NoStakes == [p \in Participants |-> 0]

Init ==
  /\ phase = "announced"
  /\ leader = Nobody
  /\ stake = NoStakes
  /\ revenue = 0

Open ==
  /\ phase = "announced"
  /\ phase' = "running"
  /\ UNCHANGED <<leader, stake, revenue>>

Raise(p, amount) ==
  /\ phase = "running"
  /\ \A q \in Participants : stake[q] < amount
  /\ leader' = p
  /\ stake' = [NoStakes EXCEPT ![p] = amount]
  /\ UNCHANGED <<phase, revenue>>

Sell ==
  /\ phase = "running"
  /\ leader \in Participants
  /\ phase' = "sold"
  /\ revenue' = stake[leader]
  /\ UNCHANGED <<leader, stake>>

Cancel ==
  /\ phase = "running"
  /\ phase' = "cancelled"
  /\ stake' = NoStakes
  /\ UNCHANGED <<leader, revenue>>

Next ==
  \/ Open
  \/ \E p \in Participants, amount \in Stakes : Raise(p, amount)
  \/ Sell
  \/ Cancel

Spec == Init /\ [][Next]_vars
==============================================================================
