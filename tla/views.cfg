SPECIFICATION FairSpec
CONSTANTS
    Users          <- MCUsers
    WalletIds      <- MCWalletIds
    Wallets        <- MCWallets
    Currencies     <- MCCurrencies
    Owner          <- MCOwner
    Currency       <- MCCurrency
    InitialBalance <- MCBalance
    TxIds          <- MCTxIds
    Requests       <- Mixed
    Calls   = {c1}
    Copies  = {d1}
    Readers = {r1, r2}
    Faults  = {"redis", "db", "crash"}
    NoRequest = NoRequest
    NoView    = NoView
PROPERTIES
    ViewsSettle
