CONSTANTS
  Servers = {v1, v2}
  Clients = {c1, c2}
  BidValues <- MCFewBidValues
SPECIFICATION Spec
INVARIANTS
  TypeOK
  CloseReportsHighest
  NoPhantomBid
PROPERTY AcceptedRise
