--------------------------- MODULE MCOrderlyAuction ---------------------------
(***************************************************************************)
(* The instance of MCOpenAuction for the specifications of OrderlyAuction. *)
(***************************************************************************)
EXTENDS OrderlyAuction, Sequences, TLC

CONSTANTS s1, b1, b2

MCAccounts == {s1, b1, b2}
MCSellers == {s1, NoAccount}

\* salt + strconv.Itoa(price)
MCHash(salt, price) == salt \o ToString(price)
==============================================================================
