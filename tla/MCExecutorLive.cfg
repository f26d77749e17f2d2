SPECIFICATION LoopSpec
CONSTANTS
    w1 = w1
    w2 = w2
    s1 = s1
    s2 = s2
    s3 = s3
    NoSubtask = NoSubtask
    Workers = {w1, w2}
    Subtasks = {s1, s2, s3}
    Routed = TRUE
    DrainOnStop = TRUE
    IOFaults = FALSE
    MaxRuns = 1
PROPERTIES
    StopReturns
    RunReturns
    NoLaunchAfterStop
