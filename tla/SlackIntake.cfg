\* Two handler threads, two captures for one new queue, double clicks, a stranger,
\* one failed write or git command, one restart.
SPECIFICATION FairSpec
CONSTANTS
    m1 = m1
    m2 = m2
    m3 = m3
    h1 = h1
    h2 = h2
    ann = ann
    eve = eve
    main = main
    side = side
    Message = {m1, m2, m3}
    Thread = {h1, h2}
    Queue = {main, side}
    User = {ann, eve}
    Playlist = {main}
    Allowed = {ann}
    AuthorOf <- Authors
    TitleOf <- Titles
    QueueOf <- Queues
    NowTag = {m2}
    Unparsable = {m1}
    Config <- BothModes
    MaxDeliveries = 1
    MaxClicks = 3
    MaxFaults = 1
    MaxCrashes = 1
INVARIANTS
    
    OneBriefPerClick
    
PROPERTIES
    HandlersFinish
CHECK_DEADLOCK FALSE
