\* One task, with and without a document; two workers; one fault.
SPECIFICATION FairSpec
CONSTANTS
    w1 = w1
    w2 = w2
    t1 = t1
    Home = Home
    NoTask = NoTask
    Worker = {w1, w2}
    Task = {t1}
    Brief <- TwoBriefs
    Partition = FALSE
    Faults = {"crash", "transport", "raise", "restart"}
    MaxFaults = 1
    MaxAttempts = 3
INVARIANTS
    
    
    LeftoversAreWork
    HintsAreLive
PROPERTY TaskServed
CHECK_DEADLOCK FALSE
