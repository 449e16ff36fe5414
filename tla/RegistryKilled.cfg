CONSTANTS
    full1 = full1
    full2 = full2
    partial = partial
    endless = endless
    Users = {u1, u2}
    Streams = {full1, full2, partial, endless}
    Ends <- MCEnds
    Labels = {l1}
    Damaged = Damaged
    Absent = Absent
    MaxPushes = 2
    MaxTrouble = 1
SYMMETRY Symmetry
SPECIFICATION Spec
INVARIANTS
    SurvivesKill
CHECK_DEADLOCK FALSE
