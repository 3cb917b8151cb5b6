\* Two runs, one failed statement or crash.
SPECIFICATION FairSpec
CONSTANTS
    MaxRuns = 2
    MaxResults = 1
    MaxFaults = 1
INVARIANTS
    TypeOK
    FrameMirrorsRow
PROPERTIES
    EndedRunsAreFinal
    CancelEndsRun
CHECK_DEADLOCK FALSE
