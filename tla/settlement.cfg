SPECIFICATION Spec
CONSTANTS
    Users          <- MCUsers
    WalletIds      <- MCWalletIds
    Wallets        <- MCWallets
    Currencies     <- MCCurrencies
    Owner          <- MCOwner
    Currency       <- MCCurrency
    InitialBalance <- MCBalance
    TxIds          <- MCTxIds
    Requests       <- Overdrawing
    Calls   = {c1, c2, c3}
    Copies  = {d1}
    Readers = {}
    Faults  = {"crash", "broker"}
    NoRequest = NoRequest
    NoView    = NoView
SYMMETRY Symmetry
INVARIANTS
    TypeOK
    Reconciled
    VersionCountsRows
    FailedMeansUnmoved
    SuccessMeansMoved
    CacheTruthful
    NotifiedOnce
    SettledWhole
PROPERTIES
    DebitsArePaid
    ImplementsLedger
    StatusFinal
    OrphansStay
