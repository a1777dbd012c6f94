SPECIFICATION EngineSpec
CONSTANTS
    Steps <- MCSteps
    Enabled <- MCEnabled
    DependsOn <- MCDependsOn
    Kind <- MCKind
    Cond <- MCCond
    MaxConcurrency = 2
    TaskOutputs = {"ok"}
    TraceFaults = FALSE
    Policies = {"dependent_fail"}
    Calls = {c1}
    Seeds <- MCSeeds
CHECK_DEADLOCK FALSE
INVARIANT DownstreamSkipped
