SPECIFICATION Spec
CONSTANTS
    w1 = w1
    w2 = w2
    Worker = {w1, w2}
    Step = {"plan", "implement", "split"}
    First = "plan"
    Kind <- LoopKind
    Signals <- LoopSignals
    NextStep <- LoopNext
    MaxVisits <- LoopVisits
    Inputs <- LoopInputs
    Output <- LoopOutput
    Evergreen = FALSE
    Submits <- AllSubmits
    LandReplies <- LandsOrConflicts
    MaxAttempts = 3
    Events = {"deadline", "crash", "ci", "edit", "patch", "release", "delete"}
    MaxEvents = 2
    QuarantineAfter = 2
    AutoResolve = FALSE
    PrMode = FALSE
SYMMETRY TwoWorkers
CHECK_DEADLOCK FALSE
INVARIANT TypeOK
INVARIANT WithinBudget
INVARIANT ArtifactBeforeCursor
INVARIANT OrderComplete
INVARIANT CursorCounted
