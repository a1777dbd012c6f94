SPECIFICATION Spec
CONSTANTS
    Steps <- ParallelSteps
    Enabled <- ParallelSteps
    DependsOn <- ParallelDependsOn
    Kind <- ParallelKind
    Cond <- ParallelCond
    MaxConcurrency = 2
    TaskOutputs = {"ok"}
    TraceFaults = FALSE
    Policies = {"best_effort", "fail_fast"}
    Calls = {run, d1, d2}
    Seeds <- NoSeeds
    RunCall = run
    Serial = TRUE
    DeskSteps = {"review1"}
    MaxFaults = 0
CHECK_DEADLOCK FALSE
INVARIANT ReviewGate
