SPECIFICATION FairSpec
CONSTANTS
    DefaultLimit = 1
    MaxLimit = 2
    Orders <- MCOrders
    Cliente <- MCCliente
    Keys = {k1}
    Cancellable <- MCCancellable
    Tasks = {t1, t2}
    MaxCalls = 4
    MaxFaults = 1
CHECK_DEADLOCK FALSE
INVARIANTS
    TypeOK
    AnsweredIsStored
    RefusalsAreFounded
    ListingIsSound
PROPERTIES
    ErasureCompletes
