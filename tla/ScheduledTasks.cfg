\* A period of two, a clock of five, two edits, one fault.
SPECIFICATION FairSpec
CONSTANTS
    Period = 2
    MaxTime = 5
    MaxEdits = 2
    MaxFaults = 1
INVARIANTS
    QueuedOnce
    StaleRunsAreFew
    NoDrift
PROPERTIES
    NoRevival
    DueTaskMovesOn
CHECK_DEADLOCK FALSE
