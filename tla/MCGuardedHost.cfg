SPECIFICATION Spec
CONSTANTS
    first = first  second = second  weekly = weekly
    Deploys = {first, second}
    Maintenances = {weekly}
    Project <- MCProject
    SkipMigrate = {second}
    MaxBoots = 2
INVARIANTS
    CommandsExclusive
    DeploysItsOwn
    GreenMeansRebooted
PROPERTY RequestsAlone
\* All runs are over.
CHECK_DEADLOCK FALSE
