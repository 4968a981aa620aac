SPECIFICATION Spec
CONSTANTS
    None = None
    Request <- MCRequest
    Leases <- MCLeases
INVARIANTS
    NoFalseSuccess
    DefiniteNoIsFinal
    OnlyCleanRunsCount
PROPERTIES
    Answered
    LateNeverBelieved
    ImplementsDelivery
\* The delivery ends: the controller has its verdict and the target has exited.
CHECK_DEADLOCK FALSE
