SPECIFICATION Spec
CONSTANTS
    a = a
    b = b
    c = c
    Problems <- MCProblems
    MaxSignals = 3
    NoProblem = NoProblem
    MaxIds = 5
    MaxMessages = 6
SYMMETRY Symmetry
INVARIANTS
    ClosesAnnounced
