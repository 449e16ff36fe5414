CONSTANTS
    Pids = {r, a}
    Root = r
    Cpus = {c1, c2}
    Lost = Lost
    MaxTracked = 2
    RingSize = 2
    EventCap = 3
    TimeoutSet = TRUE
    MaxEvents = 4
SYMMETRY Symmetry
SPECIFICATION Spec
INVARIANTS
    CompleteAccountsForAll
    ReportedLossIsPartial
