SPECIFICATION Spec
CONSTANTS
    Sagas = {s1}
    Hubs = {h1, h2}
    Shards = {g1}
    ClientPayloads <- MCPayloads
    FailingCommands <- OrdersAndStock
    Faults <- FaultKinds
    MaxFaults = 2
CHECK_DEADLOCK FALSE
SYMMETRY Replicas
INVARIANTS
    FailureIsFounded
    ConfirmationIsFounded
    CommandsAreFounded
    AtLeastOnce
    NoSagaIsDropped
PROPERTIES
    ImplementsProtocol
