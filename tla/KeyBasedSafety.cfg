CONSTANTS
    Users = {1, 2}
    Len = 2
    Foreign <- ForeignEvents
    Noise <- IgnoredForeign
    Limit = 2
    MaxFailures = 2
    Misbehaving = TRUE
    MaxFaults = 1
    MaxMoves = 1
\* A homeserver that hosts nobody is not run: the system may rest.
CHECK_DEADLOCK FALSE
SPECIFICATION Spec
INVARIANTS
    ForeignNeverTaken
PROPERTIES
    IntakeSpec
