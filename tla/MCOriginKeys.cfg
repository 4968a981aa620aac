SPECIFICATION Spec
CONSTANTS
    Transfers = {t1, t2}
    N = 2
    Old = Old
INVARIANTS
    WholeBatchFirst
    DefiniteNoIsFinal
    OvertakenReceiverStops
    MixedIsAmbiguous
PROPERTIES
    Ends
    ImplementsDelivery
\* Every transfer ends.
CHECK_DEADLOCK FALSE
