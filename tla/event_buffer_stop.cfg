SPECIFICATION Spec
CONSTANTS
    Size = 2
    MaxOffset = 1
    MaxCrashes = 0
PROPERTIES
    GracefulShutdown
