CONSTANTS
    full1 = full1
    full2 = full2
    partial = partial
    endless = endless
    Users = {u1, u2}
    Streams = {full1, full2, partial, endless}
    Ends <- MCEnds
    Labels = {l1, l2}
    Damaged = Damaged
    Absent = Absent
    MaxPushes = 3
    MaxTrouble = 3
SYMMETRY Symmetry
SPECIFICATION Spec
INVARIANTS
    TypeOK
    BlobsAreWhole
    IndexedIsStored
    VerifiedThenIndexed
    HandleFollowsDisk
    AckedIsDurable
    UncutIndexLoads
CHECK_DEADLOCK FALSE
