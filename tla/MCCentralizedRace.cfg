CONSTANTS
  Servers = {v1}
  Clients = {c1, c2, c3}
  BidValues <- MCBidValues
SPECIFICATION Spec
INVARIANT HighestBidIsBest
