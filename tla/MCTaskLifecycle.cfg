SPECIFICATION Spec
CONSTANTS
    t1 = t1  t2 = t2  t3 = t3
    Threads = {t1, t2, t3}
    NoThread = NoThread
    Translation = FALSE
    TaskErrors = FALSE
    Stalls = FALSE
    Switches = FALSE
    MaxRounds = 0
SYMMETRY Symmetry
INVARIANTS
    CallsHaveAButton RecordIsTrue
