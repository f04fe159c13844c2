SPECIFICATION MCSpec
CONSTANTS
    Users      <- MCUsers
    Currencies <- MCCurrencies
    TxIds      <- MCTxIds
    Calls   = {c1, c2}
    First   = c1
    Readers = {r1}
    Faults  = {"redis", "db", "crash"}
    NoList  = NoList
INVARIANTS
    TypeOK
    RefusedForCause
    ListsHonest
PROPERTIES
    ImplementsRegistry
    ListsSettle
