--------------------------- MODULE MCAuctionLedger ---------------------------
(***************************************************************************)
(* A small instance of AuctionLedger for TLC: a seller and a bidder with   *)
(* gold accounts, a bidder with a silver one, and an ID without an account *)
(* whose coins, were there any, would have the name of the silver ones.    *)
(***************************************************************************)
EXTENDS AuctionLedger, Sequences, TLC

CONSTANTS s1, b1, b2, x1

MCAccounts == {s1, b1, b2}
MCStrays == {x1}
MCSellers == {s1}
MCNameOf == [a \in MCAccounts \cup MCStrays |->
              IF a \in {b2, x1} THEN "silver" ELSE "gold"]

\* salt + strconv.Itoa(price)
MCHash(salt, price) == salt \o ToString(price)
==============================================================================
