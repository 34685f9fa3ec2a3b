SPECIFICATION Spec
CONSTANTS
    Configs <- MCConfigs
    Words <- MCWords
    CountRange = 10
    MaxDraws = 70
INVARIANTS TypeOK OverrunOnlyWhileArmed RareFaultsHitLowBits ProbesIgnoreRarity
PROPERTY ImplementsContract
CHECK_DEADLOCK TRUE
