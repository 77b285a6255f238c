CONSTANTS
    Users <- OneUser
    UserOf <- AllOfOneUser
    Len = 2
    Noise = {}
    Limit = 1
    Misbehaving = FALSE
    MidRunRestore = TRUE
    MaxFaults = 1
    MaxChanges = 0
SPECIFICATION Spec
INVARIANTS
    RestartCatchesUp
