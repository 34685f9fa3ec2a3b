SPECIFICATION BoardFairSpec
CONSTANTS
    Builds = {{}, {"analog"}, {"digital"}, {"analog", "digital"}}
    TickLen = 20
    CntRange = 4
    Inputs <- MCInputs
INVARIANTS TypeOK TasksOnlyIfHealthy OnlyWholeMapInForce MapBeforeUse ReportsInputsSeen
PROPERTIES AdcServed DigitalServed
CHECK_DEADLOCK FALSE
