SPECIFICATION Spec
CONSTANTS
    Steps <- ChainSteps
    Enabled <- ChainSteps
    DependsOn <- ChainDependsOn
    Kind <- ChainKind
    Cond <- ChainCond
    MaxConcurrency = 2
    TaskOutputs = {"ok"}
    TraceFaults = FALSE
    Policies = {"best_effort"}
    Calls = {run, d1, d2}
    Seeds <- NoSeeds
    RunCall = run
    Serial = TRUE
    DeskSteps = {"review1"}
    MaxFaults = 0
CHECK_DEADLOCK FALSE
INVARIANT NothingReruns
