CONSTANTS
  s1 = s1
  b1 = b1
  b2 = b2
  b3 = b3
  Accounts <- MCAccounts
  Strays = {}
  NoAccount = NoAccount
  NoReserve = NoReserve
  Sellers <- MCSellers
  Keys = {"", "pk"}
  Salts = {"simulationsalt"}
  Prices = {0}
  Hash <- MCHash
  DeclaredBids = {0}
  MaxCoin = 20
  Seller = s1
  Bidders <- MCBidders
  PubKey <- MCPubKey
  Salt = "simulationsalt"
  Auctions = 4
  Rounds = 3
  Coins = 12
SPECIFICATION SimSpec
INVARIANTS
  SellerAllOrNothing
  FailsOnlyAfterLoss
PROPERTIES
  NothingRefused
  SimulationEnds
CHECK_DEADLOCK FALSE
