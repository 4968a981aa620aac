SPECIFICATION Spec
CONSTANTS
    Runs = {r1, r2}
    Services = {web, side}
    StaticService = web
    Other = Other
INVARIANTS
    MountsLive
    CleanupReported
    RecoveryHandle
    ResultServes
PROPERTIES
    ImplementsExecutor
\* Every run ends, and Docker with it.
CHECK_DEADLOCK FALSE
