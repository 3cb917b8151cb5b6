\* Decisions, cancels, expiry, redelivery, failures and a restart.
SPECIFICATION FairSpec
CONSTANTS
    Requests = {r1}
    Ids = {1, 2}
    Failures = TRUE
    MaxRedeliveries = 1
    MaxCrashes = 1
    NoRequest = NoRequest
INVARIANTS
    TypeOK
    ToolRunsOnlyIfApproved
    ToldTheVerdictOnce
    SuspensionIsWatched
    NoStrayTimer
PROPERTIES
    RefinesContract
    SuspensionEnds
CHECK_DEADLOCK FALSE
