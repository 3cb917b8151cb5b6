\* A tenant limit of one below a global limit of two.
SPECIFICATION Spec
CONSTANTS
    a = a
    b = b
    c = c
    acme = acme
    zeta = zeta
    desk = desk
    lab = lab
    NoJob = NoJob
    NoTask = NoTask
    TenantOf <- MCTenantOf
    CoworkerOf <- MCCoworkerOf
    Tenants = {acme, zeta}
    Coworkers = {desk, lab}
    TenantLimit <- OnePerTenant
    CoworkerLimit <- TwoPerCoworker
    Groups = {a, b, c}
    Tasks = {}
    Requests = {}
    Jobs = {1, 2}
    GlobalLimit = 2
    Orphans = {}
    MaxFinals = 1
    MaxRetries = 0
    MaxRetryTimers = 1
    MaxReaps = 0
    MaxLost = 0
INVARIANTS
    TurnsWithinLimits
    RestingContainerIsReapable
