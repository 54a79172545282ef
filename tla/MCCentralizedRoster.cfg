CONSTANTS
  Servers = {v1, v2}
  Clients = {run}
  Run = run
  First = v1
  TotalBids = 3
  BidValues <- MCBidValues
SPECIFICATION SimSpec
PROPERTY SimulationSucceeds
CHECK_DEADLOCK FALSE
