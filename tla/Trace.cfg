SPECIFICATION Spec
CONSTANTS
    EventCap = 3
    OfInterest <- MCOfInterest
    Pids = {1, 2}
    Roots = {1, 2}
    Cwd <- MCCwd
    Places <- MCPlaces
    Mixes <- MCMixes
    Annotates = {TRUE, FALSE}
INVARIANTS
    VolumeIsExact
    PathsAreTrue
    QuietMeansWhole
CHECK_DEADLOCK FALSE
