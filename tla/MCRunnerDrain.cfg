SPECIFICATION FirstFair
CONSTANT N = 2
INVARIANTS
    NoJobOnceQuiet
    JobsSurvive
PROPERTY FirstRecovers
