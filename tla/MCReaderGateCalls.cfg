SPECIFICATION Spec
CONSTANTS
    Calls = {c1, c2, c3}
    Capture = {c1, c2}
    Interruptible = FALSE
SYMMETRY CallSymmetry
INVARIANTS
    OneReader
    GateTracksReader
    ResultAfterReader
\* Every call returns.
CHECK_DEADLOCK FALSE
