SPECIFICATION FairSpec
CONSTANTS
    Request = {r1, r2}
    Any = r1
    Category = {otp, marketing}
    Served <- AnyBesideEdits
INVARIANTS NothingWithoutIntent WrittenOnce VerdictsHold
PROPERTY OutcomeFollows
CHECK_DEADLOCK FALSE
