SPECIFICATION FairSpec
CONSTANTS
    Users          <- MCUsers
    WalletIds      <- MCWalletIds
    Wallets        <- MCWallets
    Currencies     <- MCCurrencies
    Owner          <- MCOwner
    Currency       <- MCCurrency
    InitialBalance <- MCBalance
    TxIds          <- MCTxIds
    Requests       <- Conflicting
    Calls   = {c1, c2}
    Copies  = {d1}
    Readers = {}
    Faults  = {}
    NoRequest = NoRequest
    NoView    = NoView
INVARIANTS
    SomeConflictWins
PROPERTIES
    QueuedIsDecided
    SettledIsNotified
