CONSTANTS
    Root = r
    Pids = {r, a}
    EventCap = 2
    TimeoutSet = TRUE
    TermEndsTracer = FALSE
    KillRuns = TRUE
    MaxEvents = 4
SPECIFICATION FairSpec
INVARIANTS
    CompleteIsWholeTree
    TimeoutEndsGroup
PROPERTY
    Terminates
