SPECIFICATION Spec
CONSTANTS
    Sagas = {s1}
    Hubs = {h1}
    Shards = {g1}
    ClientPayloads <- MCPayloads
    FailingCommands <- StockOnly
    Faults <- OnlySave
    MaxFaults = 1
CHECK_DEADLOCK FALSE
INVARIANTS
    CompensatedStaysFailed
