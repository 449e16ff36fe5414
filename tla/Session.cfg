CONSTANTS
    HeartbeatInterval = 2
    MaxEvents = 4
    MaxHeartbeats = 4
    MaxFaults = 4
SPECIFICATION Spec
INVARIANTS
    CompleteIsWhole
    EndCountIsTrue
    AcknowledgedSurvives
    RefusedUntilDeclared
PROPERTY
    KeepsPromise
