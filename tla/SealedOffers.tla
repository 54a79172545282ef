----------------------------- MODULE SealedOffers -----------------------------
(***************************************************************************)
(* What a sealed-bid auction promises: every bidder has one offer, which   *)
(* only goes up and only while bids are taken; an award takes the best     *)
(* offer left, if it exceeds the reserve price, and no offer gets lost.    *)
(***************************************************************************)
EXTENDS Integers

CONSTANTS
  Bidders,
  Nobody,      \* the winner before the first award
  Offers       \* the amounts an offer can have

NoOffer == -1

VARIABLES
  phase,    \* "announced", "open" or "closed"
  reserve,  \* an award is higher than this
  offer,    \* every bidder's offer, or NoOffer
  winner,   \* who got the last award
  price     \* and for which offer

vars == <<phase, reserve, offer, winner, price>>

Init ==
  /\ phase = "announced"
  /\ reserve = 0
  /\ offer = [b \in Bidders |-> NoOffer]
  /\ winner = Nobody
  /\ price = NoOffer

Open(r) ==
  /\ phase = "announced"
  /\ phase' = "open"
  /\ reserve' = r
  /\ UNCHANGED <<offer, winner, price>>

Submit(b, amount) ==
  /\ phase = "open"
  /\ offer[b] <= amount
  /\ offer' = [offer EXCEPT ![b] = amount]
  /\ UNCHANGED <<phase, reserve, winner, price>>

Close ==
  /\ phase = "open"
  /\ phase' = "closed"
  /\ UNCHANGED <<reserve, offer, winner, price>>

Award(b) ==
  /\ phase # "announced"
  /\ \A other \in Bidders : offer[other] <= offer[b]
  /\ offer[b] > reserve
  /\ winner' = b
  /\ price' = offer[b]
  /\ offer' = [offer EXCEPT ![b] = NoOffer]
  /\ UNCHANGED <<phase, reserve>>

Next ==
  \/ \E r \in Offers : Open(r)
  \/ \E b \in Bidders, amount \in Offers : Submit(b, amount)
  \/ Close
  \/ \E b \in Bidders : Award(b)

Spec == Init /\ [][Next]_vars
==============================================================================
