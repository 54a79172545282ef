CONSTANTS
  Accounts = {b1, b2, b3}
  NoAccount = NoAccount
  MaxBid = 3
SPECIFICATION Spec
INVARIANTS
  TypeOK
  OneEntryPerAccount
  FinalAwardIsBest
PROPERTY ImplementsSealedOffers
