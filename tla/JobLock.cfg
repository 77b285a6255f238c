CONSTANTS
    Procs = {p1, p2}
    MaxRun = 2
    Margin = 2
    IoTimeout = 1
    MaxSleep = 1
    MaxFires = 3
    MaxUpsets = 1
SPECIFICATION FairSpec
INVARIANTS
    OneRunAtATime
PROPERTIES
    SlotChangesHands
    HungRunIsAbandoned
