\* Two requests, a failure of the database, a crash and a restart.
SPECIFICATION Spec
CONSTANTS
    Requests = {r1, r2}
    Modes = {"sticky", "isolated"}
    MaxIsolated = 1
    MaxFaults = 1
    None = None
SYMMETRY Symmetry
INVARIANTS
    TypeOK
    ReplyAgreesWithAudit
    OneStickyChild
    OutlivingContainerWasAsked
    WaitingHandlerIsWoken
    RunningRowIsOwned
CHECK_DEADLOCK FALSE
