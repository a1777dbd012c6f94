SPECIFICATION Spec
CONSTANTS
    PlanIds = {1, 2}
    PlanNames = {"a", "b"}
    Bodies = {1}
    StepSets <- MCStepSets
    Packs = {"pack"}
    PackPlans <- MCPackPlans
    PackTenants = {"t1"}
    PlanTenants = {"t1"}
    MapIntents = {"x"}
    Channels = {"c1", "c2"}
    Locales = {"multi", "en"}
    Ranks = {1, 2}
    Jobs = {"save"}
    MaxVersion = 3
    MaxMappings = 2
    NoPlan = NoPlan
    IntentTenants = {"t1", "t2"}
    Codes = {"x", "y"}
    Languages = {"multi", "en"}
    Rules <- MCRules
    Confidences = {55, 90}
    RawChecks <- MCRawChecks
    IntentRequests = {"r"}
    MaxIntents = 2
    MaxPolicies = 2
    NoRule = NoRule
    DsIds = {d1}
    CfgIds = {1, 2}
    RuleIds = {u1}
    InboxIds = {x1, x2}
    DsNames = {a, b}
    Mails = {m1, m2}
    SaveJobs = {"s"}
    DeleteJobs = {"d"}
    NoRow = NoRow
    GoneRow = GoneRow
    NoPath = NoPath
    Sources = {n1}
    Steps = {s1}
    NoSource = NoSource
    ModIds = {1, 2}
    ModNames = {"a", "b"}
    Admins = {1, 2}
    Seeded = 1
    AssignJobs = {"t"}
    NoMod = NoMod
INVARIANTS
    
    ResolvedIsBest
    SafeIsVerified
    
    RuleKeepsDatasource
    
    
PROPERTIES
    RoutedOnEvidence
CHECK_DEADLOCK FALSE
