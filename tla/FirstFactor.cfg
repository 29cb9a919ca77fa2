SPECIFICATION Spec
CONSTANTS
    Request = {r1, r2, r3}
    Email = {known}
    Known = {known}
    Source = {home}
    Window = 3
    Threshold = 2
    Patience = 1
    Life = 1
SYMMETRY Symmetric
INVARIANTS AttemptsBounded SourceOvershootBounded AnnouncedLockIsReal
PROPERTY LockDeadlineHolds
CHECK_DEADLOCK FALSE
