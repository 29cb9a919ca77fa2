SPECIFICATION Spec
CONSTANTS
    Request = {r1, r2}
    Session = {s1}
    Key = {k1, k2}
    MaxCount = 1
    MaxCeremonies = 3
    None = None
SYMMETRY Symmetric
INVARIANTS CeremonyServesOnce CloneRefused
PROPERTY LastFactorStays
CHECK_DEADLOCK FALSE
