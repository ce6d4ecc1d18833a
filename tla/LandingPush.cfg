\* Push mode with a rendezvous remote: an outsider, an operator, a resolve, one
\* failed fetch or push, one crash.
SPECIFICATION Spec
CONSTANTS
    a1 = a1
    a2 = a2
    f1 = f1
    f2 = f2
    o1 = o1
    o2 = o2
    x1 = x1
    Attempt = {a1, a2}
    Remote = {a1}
    Foreign = {f1}
    Local = {o1}
    Stray = x1
    Clash <- MeetsForeign
    Resolvable = {a2}
    Mode = "push"
    Rendezvous = TRUE
    AgentsLand = FALSE
    SwitchAnyTime = FALSE
    MaxRetries = 3
    MaxFaults = 1
    MaxCrashes = 1
INVARIANTS
    VerifiedOnly
    TrailerOnce
PROPERTIES
    ImplementsLog
CHECK_DEADLOCK FALSE
