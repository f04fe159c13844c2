SPECIFICATION Spec
CONSTANTS
    Users          <- MCUsers
    WalletIds      <- MCWalletIds
    Wallets        <- MCWallets
    Currencies     <- MCCurrencies
    Owner          <- MCOwner
    Currency       <- MCCurrency
    InitialBalance <- MCBalance
    TxIds          <- MCTxIds
    Requests       <- Odd
    Calls   = {c1, c2}
    Copies  = {d1, d2}
    Readers = {}
    Faults  = {"redis", "db"}
    NoRequest = NoRequest
    NoView    = NoView
SYMMETRY Symmetry
INVARIANTS
    SuccessMeansMoved
    NotifiedOnce
    NoCircularWait
PROPERTIES
    DebitsArePaid
    ImplementsLedger
