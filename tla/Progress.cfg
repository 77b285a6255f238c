SPECIFICATION FairSpec
CONSTANTS
    NoEntry = NoEntry
\* A homeserver that hosts nobody is not run: the system may rest.
CHECK_DEADLOCK FALSE
PROPERTIES
    LogIsConsumed
    UserIsServed
    DueIsAttempted
