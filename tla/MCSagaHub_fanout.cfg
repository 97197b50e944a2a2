SPECIFICATION Spec
CONSTANTS
    Sagas = {s1}
    Hubs = {h1}
    Shards = {g1, g2}
    ClientPayloads <- MCPayloads
    FailingCommands <- StockOnly
    Faults <- NoFaults
    MaxFaults = 0
CHECK_DEADLOCK FALSE
SYMMETRY ShardSymmetry
INVARIANTS
    OrderInOneShard
