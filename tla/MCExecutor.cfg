SPECIFICATION Spec
CONSTANTS
    w1 = w1
    w2 = w2
    s1 = s1
    s2 = s2
    s3 = s3
    NoSubtask = NoSubtask
    Workers = {w1, w2}
    Subtasks = {s1, s2, s3}
    Routed = FALSE
    DrainOnStop = TRUE
    IOFaults = TRUE
    MaxRuns = 2
SYMMETRY Symmetry
INVARIANTS
    CallsAreAccounted PausedIsQuiet RunsAreSettled
PROPERTIES
    CompletedIsKept ImplementsLedger
