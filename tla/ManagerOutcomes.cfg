SPECIFICATION Spec
CONSTANTS
    t1 = t1
    t2 = t2
    w1 = w1
    w2 = w2
    Task = {t1}
    Worker = {w1}
    Evergreen = {}
    DocTasks = {t1}
    Rank <- OrderedOne
    Submits <- AllOutcomes
    LandReplies <- AllLands
    MaxAttempts = 2
    MaxResolves = 1
    PushMode = TRUE
    Events = {"play", "retry", "skip", "agent_lands", "resolve", "release", "lost_report", "spawn_fails", "delete", "pause", "unquarantine"}
    MaxEvents = 2
    QuarantineAfter = 1
    AutoResolve = TRUE
    PrMode = FALSE
CHECK_DEADLOCK FALSE
INVARIANT RowLifecycle
INVARIANT LandedLeavesQueue
