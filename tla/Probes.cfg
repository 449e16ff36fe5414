SPECIFICATION Spec
CONSTANTS
    Tasks = {1, 2, 3}
    Group <- MCGroup
    Tracked = {"npm"}
    Mixes <- MCMixes
    MaxInflight = 1
INVARIANTS
    OpensPaired
    WritesTold
    AbsoluteIsTrue
CHECK_DEADLOCK FALSE
