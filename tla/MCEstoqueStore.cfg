SPECIFICATION FairSpec
CONSTANTS
    Sagas <- MCSagas
    Itens <- MCItens
    InitialStock <- MCStock
    Consumers = {c1, c2}
    Requests = {r1}
    Restocks <- MCRestocks
    MaxCalls = 4
    MaxFaults = 1
CHECK_DEADLOCK FALSE
INVARIANTS
    TypeOK
    StockNeverNegative
PROPERTIES
    ImplementsLedger
    TransactionsEnd
