SPECIFICATION FairSpec
CONSTANTS
    c1 = c1
    c2 = c2
    Cells <- MCCells
    Clients <- MCClients
    Route <- MCRoute
    Slots = 2
    MaxFaults = 2
INVARIANTS
    TypeOK
    BulkheadHolds
    HalfOpenDecides
PROPERTIES
    HealthConverges
