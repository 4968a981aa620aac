SPECIFICATION SRSpec
CONSTANTS
    Assets = {page, script}
    page = page  script = script
    MaxEdits = 2
    MaxDamage = 2
    MaxSignals = 2
INVARIANTS
    SRTypeOK
    BundleIsSnapshot
    AcceptedIsSealed
    NothingLeft
\* The action ends.
CHECK_DEADLOCK FALSE
