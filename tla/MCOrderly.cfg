CONSTANTS
  s1 = s1
  b1 = b1
  b2 = b2
  Accounts <- MCAccounts
  Strays = {}
  NoAccount = NoAccount
  NoReserve = NoReserve
  Sellers <- MCSellers
  Keys = {"", "pk"}
  Salts = {"salt"}
  Prices = {0, 1}
  Hash <- MCHash
  DeclaredBids = {0}
  MaxCoin = 4
SPECIFICATION OrderlySpec
PROPERTY ImplementsEscrow
CHECK_DEADLOCK FALSE
