SPECIFICATION Spec
CONSTANTS
    Runs = {r1, r2}
    Services = {web, side}
    Sidecars = {side}
    MigrateService = web
    None = None
    Other = Other
INVARIANTS
    OneMigration
    ResultServes
PROPERTIES
    ImplementsExecutor
\* Every run ends, and Docker with it.
CHECK_DEADLOCK FALSE
