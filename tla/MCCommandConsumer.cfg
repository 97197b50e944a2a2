SPECIFICATION FairSpec
CONSTANTS
    PBCs <- MCPBCs
    Replicas = {r1, r2}
    MaxCommands = 2
    MaxFaults = 2
CHECK_DEADLOCK FALSE
INVARIANTS
    TypeOK
    CommitsCoverAnswers
    DeadLetterAtThree
PROPERTIES
    CommittedNeverMovesBack
    CommandsEnd
