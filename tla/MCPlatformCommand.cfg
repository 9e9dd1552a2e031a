SPECIFICATION FairSpec
CONSTANTS
    Commands = {r1}
    Direct = {r1}
    MaxConnect = 2
    MaxClient = 4
    MaxRestart = 1
INVARIANTS
    TypeOK
    FailedWasRefused
PROPERTIES
    CommandDecided
    LinkComesBack
CHECK_DEADLOCK FALSE
