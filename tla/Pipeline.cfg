SPECIFICATION Spec
CONSTANTS
    Catalog <- MCCatalog
    Deeds <- MCDeeds
    Settings <- MCSettings
    MaxDeeds = 2
    MaxLost = 1
INVARIANTS
    NothingDeservedIsSilent
    FindingsAreEarned
    DiffIsOfThePackage
    PartialReachesEveryReader
    
CHECK_DEADLOCK FALSE
