SPECIFICATION Spec
CONSTANTS
    a = a  b = b  c = c  gone = gone
    mail = mail  relay = relay
    Absent = Absent
    Names = {a, b, c, gone}
    Channels = {mail, relay}
    Projects <- MCProjects
    Default <- MCDefault
    Named <- MCNamed
    Before <- MCBefore
    Prune = TRUE
    Attempts = 2
    Serials = {1, 2}
INVARIANTS
    ReportIsTrue
    AbortIsPrompt
PROPERTIES
    PruneSafe
    ChannelsKept
    Ends
\* Every synchronisation ends.
CHECK_DEADLOCK FALSE
