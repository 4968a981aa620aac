SPECIFICATION Spec
CONSTANTS
    Calls = {c1, c2}
    Capture = {c1, c2}
    Interruptible = TRUE
PROPERTIES
    Returns
\* Every call returns.
CHECK_DEADLOCK FALSE
