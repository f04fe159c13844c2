SPECIFICATION Spec
CONSTANTS
    Users          <- MCUsers
    WalletIds      <- MCWalletIds
    Wallets        <- MCWallets
    Currencies     <- MCCurrencies
    Owner          <- MCOwner
    Currency       <- MCCurrency
    InitialBalance <- MCBalance
    TxIds          <- MCTxIds
    Requests       <- Opposite
    Calls   = {c1, c2}
    Copies  = {d1}
    Readers = {}
    Faults  = {}
    NoRequest = NoRequest
    NoView    = NoView
INVARIANTS
    NoCircularWait
