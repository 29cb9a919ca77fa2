SPECIFICATION Spec
CONSTANTS
    Request = {r1, r2}
    Session = {s1}
    Challenge = {c1}
    Secret = {k1, k2, k3}
    MaxStep = 2
    Threshold = 2
    MaxCalls = 2
    Keys = 1
    None = None
SYMMETRY Symmetric
PROPERTY ReplacementPresented
CHECK_DEADLOCK FALSE
