SPECIFICATION FairSpec
CONSTANTS
    t1 = t1  t2 = t2  t3 = t3
    Threads = {t1, t2}
    NoThread = NoThread
    Translation = TRUE
    TaskErrors = FALSE
    Stalls = FALSE
    Switches = TRUE
    MaxRounds = 0
PROPERTIES
    SwitchEnds NoZombieForever
