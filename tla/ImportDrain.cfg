\* Imports, publishers and leases one after the other; one removal fails, one
\* restart.
SPECIFICATION FairSpec
CONSTANTS
    s1 = s1
    s2 = s2
    Source = {s1, s2}
    Published <- InOrder
    NameOf <- Names
    Host = {s1}
    Quarantinable = {s1}
    Overlap = FALSE
    Versions <- TwoAndOne
    MaxNumber = 3
    MaxFaults = 1
    MaxCrashes = 1

    
    
PROPERTIES
    RefusalFounded
    InboxDrains
CHECK_DEADLOCK FALSE
