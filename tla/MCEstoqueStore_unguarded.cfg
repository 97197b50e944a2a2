SPECIFICATION Spec
CONSTANTS
    Sagas <- MCSagas
    Itens <- MCItens
    InitialStock <- MCStock
    Consumers = {c1}
    Requests = {r1}
    Restocks <- NoRestocks
    MaxCalls = 3
    MaxFaults = 0
CHECK_DEADLOCK FALSE
INVARIANTS
    NoStockFromNothing
