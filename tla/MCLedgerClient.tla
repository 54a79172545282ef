--------------------------- MODULE MCLedgerClient ---------------------------
(***************************************************************************)
(* The instance of LedgerClient for TLC: short runs of both clients.       *)
(***************************************************************************)
EXTENDS LedgerClient
==============================================================================
