CONSTANTS
  s1 = s1
  b1 = b1
  b2 = b2
  x1 = x1
  Accounts <- MCAccounts
  Strays <- MCStrays
  NoAccount = NoAccount
  NoReserve = NoReserve
  Sellers <- MCSellers
  Keys = {""}
  Salts = {"salt"}
  Prices = {0}
  Hash <- MCHash
  DeclaredBids = {0}
  MaxCoin = 2
  CoinNames = {"gold", "silver"}
  NameOf <- MCNameOf
  MaxInstructions = 3
  MaxMinted = 2
  MaxProceeds = 2
SPECIFICATION LedgerSpec
INVARIANTS
  LedgerTypeOK
  AccountsBalanced
  BidsArePaid
PROPERTY ClientTransactionsAreSteps
