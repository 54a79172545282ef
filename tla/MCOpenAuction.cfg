CONSTANTS
  s1 = s1
  b1 = b1
  b2 = b2
  x1 = x1
  Accounts <- MCAccounts
  Strays <- MCStrays
  NoAccount = NoAccount
  NoReserve = NoReserve
  Sellers <- MCSellers
  Keys = {"", "pk"}
  Salts = {"salt", "salt1"}
  Prices = {1, 11}
  Hash <- MCHash
  DeclaredBids = {0, 2}
  MaxCoin = 3
SPECIFICATION Spec
INVARIANTS
  TypeOK
  AccountsBalanced
  WinnerIsBestAccepted
  ReserveRespected
  RefundAlwaysFits
PROPERTIES
  VoidIsFinal
  StrayBidStays
CHECK_DEADLOCK FALSE
