SPECIFICATION FairSpec
CONSTANTS
    Builds = {{"analog", "fault"}}
PROPERTY AdcServed
CHECK_DEADLOCK FALSE
