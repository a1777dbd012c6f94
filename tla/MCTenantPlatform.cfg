SPECIFICATION Spec
CONSTANTS
    root = root
    ann = ann
    bob = bob
    eve = eve
    T1 = T1
    T2 = T2
    m1 = m1
    m2 = m2
    NoTenant = NoTenant
    Emails <- MCEmails
    Tenants <- MCTenants
    Modules <- MCModules
    Free <- MCFree
    Items <- MCItems
    StartUsers <- MCStartUsers
    StartModules <- MCStartModules
    ModuleSets <- MCModuleSets
    r1 = r1
    r2 = r2
    Requests = {r1, r2}
    MaxRequests = 2
    MaxFaults = 1
SYMMETRY Symmetry
INVARIANTS
    AccountsComplete
    
    
PROPERTIES
    TrialOnce
CHECK_DEADLOCK FALSE
