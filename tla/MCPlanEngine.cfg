SPECIFICATION EngineSpec
CONSTANTS
    Steps <- MCSteps
    Enabled <- MCEnabled
    DependsOn <- MCDependsOn
    Kind <- MCKind
    Cond <- MCCond
    MaxConcurrency = 2
    TaskOutputs = {"ok"}
    TraceFaults = TRUE
    Policies = {"fail_fast", "dependent_fail", "best_effort"}
    Calls = {c1}
    Seeds <- MCSeeds
CHECK_DEADLOCK FALSE
INVARIANTS
    DependencyOrder
    ReturnAccountsForSteps
    
    TraceAgreesWithReturn
PROPERTIES
    SubmitsOnceAndStops
    CallsReturn
    ImplementsContract
