CONSTANTS
    Pids = {r}
    Root = r
    Cpus = {c1, c2}
    Lost = Lost
    MaxTracked = 2
    RingSize = 1
    EventCap = 2
    TimeoutSet = TRUE
    MaxEvents = 2
SPECIFICATION FairSpec
PROPERTY
    Terminates
