SPECIFICATION Spec
CONSTANTS
    Size = 2
    MaxOffset = 2
    MaxCrashes = 0
PROPERTIES
    FlushComes
