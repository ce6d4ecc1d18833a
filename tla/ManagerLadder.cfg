SPECIFICATION Spec
CONSTANTS
    t1 = t1
    t2 = t2
    w1 = w1
    w2 = w2
    Task = {t1}
    Worker = {w1}
    Evergreen = {t1}
    DocTasks = {}
    Rank <- OrderedOne
    Submits <- Ladder
    LandReplies <- OnlyLanded
    MaxAttempts = 4
    MaxResolves = 1
    PushMode = FALSE
    Events = {"play", "retry", "skip"}
    MaxEvents = 1
    QuarantineAfter = 2
    AutoResolve = FALSE
    PrMode = FALSE
CHECK_DEADLOCK FALSE
INVARIANT StuckTaskHeld
