SPECIFICATION FairSpec
CONSTANTS
    Rows = {r1, r2}
    MaxChanges = 3
    MaxFaults = 3
CHECK_DEADLOCK FALSE
INVARIANTS
    TypeOK
    LossesAreFounded
    ReadyWhenCaughtUp
PROPERTIES
    PassiveConverges
