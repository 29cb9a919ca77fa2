SPECIFICATION Spec
CONSTANTS
    Operator = {a, b}
    Default = {admin}
    Custom = {r1}
    Tx = {t1, t2}
    None = None
SYMMETRY Symmetric
INVARIANTS RolesAreAsAsked DeletionIsQueued
PROPERTY CheckedGestureKeepsKeys
CHECK_DEADLOCK FALSE
