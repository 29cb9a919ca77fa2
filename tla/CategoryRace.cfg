SPECIFICATION Spec
CONSTANTS
    Request = {r1, r2}
    Any = r1
    Category = {otp, marketing}
    Served <- Edits
PROPERTY BeforeIsLeft
CHECK_DEADLOCK FALSE
