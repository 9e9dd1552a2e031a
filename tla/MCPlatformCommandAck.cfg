SPECIFICATION Spec
CONSTANTS
    Commands = {r1}
    Direct = {}
    MaxConnect = 1
    MaxClient = 3
    MaxRestart = 0
INVARIANT AcknowledgedWasAnswered
CHECK_DEADLOCK FALSE
