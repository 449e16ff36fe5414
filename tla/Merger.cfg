CONSTANTS
    Descriptors = {d1, d2}
    Paths = {p1, p2}
    NoFile = NoFile
    NoPath = NoPath
    NoDesc = NoDesc
    Window = 1
    MaxPending = 2
    MaxTime = 2
    MaxRecords = 4
    MaxLost = 1
SYMMETRY Symmetry
SPECIFICATION Spec
INVARIANTS
    TypeOK
    StatsBalance
    CountedOnce
    RecordsOrdered
    WindowSuffices
    NothingLost
    FinishReportsAll
    AttributionMatchesSorted
