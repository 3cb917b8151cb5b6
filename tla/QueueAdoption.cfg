\* Adoption of a container that survived a restart.
SPECIFICATION Spec
CONSTANTS
    a = a
    b = b
    c = c
    acme = acme
    zeta = zeta
    desk = desk
    lab = lab
    NoJob = NoJob
    NoTask = NoTask
    TenantOf <- MCTenantOf
    CoworkerOf <- MCCoworkerOf
    Tenants = {acme, zeta}
    Coworkers = {desk, lab}
    TenantLimit <- TwoPerTenant
    CoworkerLimit <- TwoPerCoworker
    Groups = {a}
    Tasks = {}
    Requests = {1}
    Jobs = {1, 2, 3}
    GlobalLimit = 1
    Orphans = {a}
    MaxFinals = 1
    MaxRetries = 0
    MaxRetryTimers = 1
    MaxReaps = 0
    MaxLost = 0
INVARIANTS
    NoStrandedWork
