\* Three groups compete for one turn and one container.
SPECIFICATION Spec
CONSTANTS
    a = a
    b = b
    c = c
    acme = acme
    zeta = zeta
    desk = desk
    lab = lab
    NoJob = NoJob
    NoTask = NoTask
    TenantOf <- MCTenantOf
    CoworkerOf <- MCCoworkerOf
    Tenants = {acme, zeta}
    Coworkers = {desk, lab}
    TenantLimit <- TwoPerTenant
    CoworkerLimit <- TwoPerCoworker
    Groups = {a, b, c}
    Tasks = {}
    Requests = {}
    Jobs = {1, 2}
    GlobalLimit = 1
    Orphans = {}
    MaxFinals = 1
    MaxRetries = 0
    MaxRetryTimers = 1
    MaxReaps = 0
    MaxLost = 0
INVARIANTS
    CountersMatchFlags
    LiveWithinLimit
    NoStrandedWork
PROPERTIES
    RefinesTurnAdmission
