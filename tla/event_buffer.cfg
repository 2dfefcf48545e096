SPECIFICATION Spec
CONSTANTS
    Size = 2
    MaxOffset = 3
    MaxCrashes = 0
INVARIANTS
    TypeOK
    NothingLost
    DrainedOnce
