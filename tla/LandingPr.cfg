\* Pull-request mode: agents that commit to main, an operator who edits, commits and
\* switches branches, an outsider, one failed fetch or push, no crash.
SPECIFICATION FairSpec
CONSTANTS
    a1 = a1
    a2 = a2
    f1 = f1
    f2 = f2
    o1 = o1
    o2 = o2
    x1 = x1
    Attempt = {a1}
    Remote = {}
    Foreign = {f1}
    Local = {o1, o2}
    Stray = x1
    Clash <- MeetsOperator
    Resolvable = {}
    Mode = "pr"
    Rendezvous = TRUE
    AgentsLand = TRUE
    SwitchAnyTime = FALSE
    MaxRetries = 1
    MaxFaults = 1
    MaxCrashes = 0
INVARIANTS
    WorkKept
    DropsReported
    
PROPERTIES
    LandSettles
CHECK_DEADLOCK FALSE
