SPECIFICATION FairSpec
CONSTANTS
    s1 = s1
    s2 = s2
    d1 = d1
    x1 = x1
    warm = warm
    m1 = m1
    Scenes <- TwoScenes
    Bodies <- ChangingBody
    Devices = {d1}
    Sensors = {x1}
    Tests = {warm}
    Targets = {m1}
    Threads = {t1}
    MaxRules = 1
    MaxAge = 1
    MaxTimers = 2
INVARIANTS TypeOK RulesOnDisk
PROPERTIES StartsOnce TimersEnd
