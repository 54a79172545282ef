CONSTANTS
  MaxTransactions = 4
  Accounts = {b1}
  NoAccount = NoAccount
  MaxBid = 1
SPECIFICATION SealedSpec
INVARIANT CloseReported
CHECK_DEADLOCK FALSE
