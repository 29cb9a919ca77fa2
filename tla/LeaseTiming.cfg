SPECIFICATION TimedSpec
CONSTANTS
    Process = {p1, p2, p3}
    Nobody = Nobody
    TTL = 6
    Every = 2
    Lag = 0
    MaxForgets = 2
INVARIANTS ReplacedInTime DoubleReadIsShort
CHECK_DEADLOCK FALSE
