--------------------------- MODULE MCOpenAuction ---------------------------
(***************************************************************************)
(* A small instance of OpenAuction for TLC: a seller account, two bidders  *)
(* and an ID without an account, uint64 of two bits, and the string that   *)
(* is hashed for its hash: "salt" with 11 and "salt1" with 1 are the same. *)
(***************************************************************************)
EXTENDS OpenAuction, Sequences, TLC

CONSTANTS s1, b1, b2, x1

MCAccounts == {s1, b1, b2}
MCStrays == {x1}
MCSellers == {s1, NoAccount}

\* salt + strconv.Itoa(price)
MCHash(salt, price) == salt \o ToString(price)
============================================================================
