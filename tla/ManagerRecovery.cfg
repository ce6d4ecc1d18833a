SPECIFICATION FairSpec
CONSTANTS
    t1 = t1
    t2 = t2
    w1 = w1
    w2 = w2
    Task = {t1}
    Worker = {w1}
    Evergreen = {}
    DocTasks = {}
    Rank <- OrderedOne
    Submits <- Lands
    LandReplies <- LandsOrConflicts
    MaxAttempts = 2
    MaxResolves = 1
    PushMode = TRUE
    Events = {"worker_dies", "deadline", "crash"}
    MaxEvents = 2
    QuarantineAfter = 3
    AutoResolve = FALSE
    PrMode = FALSE
CHECK_DEADLOCK FALSE
INVARIANT LandedIsOnMain
PROPERTY LandingSettles
PROPERTY OrphanReclaimed
