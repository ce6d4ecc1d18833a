\* A workflow of two steps with one document, and no fault at all.
SPECIFICATION Spec
CONSTANTS
    w1 = w1
    w2 = w2
    t1 = t1
    Home = Home
    NoTask = NoTask
    Worker = {w1}
    Task = {t1}
    Brief <- WithDocs
    Partition = FALSE
    Faults = {}
    MaxFaults = 0
    MaxAttempts = 2
INVARIANT EveryOrderReported
CHECK_DEADLOCK FALSE
