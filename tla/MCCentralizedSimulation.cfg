CONSTANTS
  Servers = {v1}
  Clients = {run}
  Run = run
  First = v1
  TotalBids = 80
  BidValues <- MCBidValues
SPECIFICATION SimSpec
INVARIANTS
  NoBidTooLow
  WrongOnlyAcrossRoster
 
CHECK_DEADLOCK FALSE
