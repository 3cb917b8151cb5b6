\* Two messages, two retries, one fault of any kind.
SPECIFICATION FairSpec
CONSTANTS
    MaxMessages = 2
    MaxRetries = 2
    MaxFaults = 1
INVARIANTS
    NoStrandedMessage
    CursorNeverSkips
PROPERTIES
    EveryMessageIsServed
CHECK_DEADLOCK FALSE
