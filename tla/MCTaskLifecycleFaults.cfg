SPECIFICATION FairSpec
CONSTANTS
    t1 = t1  t2 = t2  t3 = t3
    Threads = {t1}
    NoThread = NoThread
    Translation = TRUE
    TaskErrors = TRUE
    Stalls = TRUE
    Switches = FALSE
    MaxRounds = 1
INVARIANTS
    CompletedMeansDone
PROPERTIES
    StopEnds
