SPECIFICATION FairSpec
CONSTANTS
    Process = {p1}
    Nobody = Nobody
    Every = 1
    Timeout = 3
    Delay = 1
INVARIANT LiveIsRecent
PROPERTIES AlarmIsReal Repaired
CHECK_DEADLOCK FALSE
