CONSTANTS
    Users <- OneUser
    UserOf <- AllOfOneUser
    Len = 2
    Noise = {2}
    Limit = 2
    Misbehaving = TRUE
    MidRunRestore = FALSE
    MaxFaults = 2
    MaxChanges = 2
SPECIFICATION Spec
INVARIANTS
    NoReplayLoop
PROPERTIES
    IntakeSpec
