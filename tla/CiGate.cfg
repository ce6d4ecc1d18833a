\* One queue on the repository; one act of the operator, one restart.
SPECIFICATION FairSpec
CONSTANTS
    w1 = w1
    Queue = {1}
    Plain = {1}
    Workflow = {w1}
    Conclusion = {"success", "failure"}
    Tolerance = 2
    MaxCommits = 2
    MaxEvents = 1
PROPERTIES
    NoBlip
    SpawnsAlone
    GreenRetires
    HoldsOpen
CHECK_DEADLOCK FALSE
