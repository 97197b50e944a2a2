SPECIFICATION Spec
CONSTANTS
    DefaultLimit = 1
    MaxLimit = 2
    Orders <- MCOrders
    Cliente <- MCCliente
    Keys = {k1}
    Cancellable <- MCCancellable
    Tasks = {t1}
    MaxCalls = 2
    MaxFaults = 0
CHECK_DEADLOCK FALSE
INVARIANTS
    CursorIfMore
