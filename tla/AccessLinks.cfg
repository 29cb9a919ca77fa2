SPECIFICATION Spec
CONSTANTS
    Worker = {w1, w2}
    Caller = {c1, c2}
    Token = {t1, t2, t3}
    MaxAttempts = 2
    MaxFaults = 1
    None = None
INVARIANTS KindFollowsAccount DisabledHasNoLink
PROPERTIES SupersededNeverServes Delivered LocksAreLeft
CHECK_DEADLOCK FALSE
