SPECIFICATION FairSpec
CONSTANTS
    Sagas = {s1, s2}
    Hubs = {h1}
    Shards = {g1}
    ClientPayloads <- MCPayloads
    FailingCommands <- OrdersAndStock
    Faults <- FaultKinds
    MaxFaults = 1
CHECK_DEADLOCK FALSE
INVARIANTS
    TypeOK
    AtLeastOnce
    NoSagaIsDropped
    OneStory
    AnnouncementMatchesRow
PROPERTIES
    SagaSettles
    CompensationReleases
    TerminalIsFinal
