SPECIFICATION AgentSpec
CONSTANTS
    Runs <- MCRuns
    Tools <- MCTools
    Registered = {"prompt_run", "datasource_lookup", "document_generate", "webhook", "adapter_analyze"}
    AllowedTools = {"prompt_run", "datasource_lookup", "document_generate", "webhook", "ghost"}
    ReadOnlyTools = {"prompt_run", "datasource_lookup", "adapter_analyze"}
    MutatingTools = {"webhook"}
    ApprovalMode = "auto_for_read_only"
    RequireApprovalFor = {"document_generate"}
    ToolCost <- MCToolCost
    MaxIterations <- MCMaxIterations
    MaxModelCalls <- MCMaxModelCalls
    MaxToolCalls <- MCMaxToolCalls
    MaxCost <- MCMaxCost
    OnBudgetExceeded = "fail"
    OnOutputInvalid = "human_review"
    DecideAfterStore = TRUE
CHECK_DEADLOCK FALSE
INVARIANTS
    WithinBudget
    
PROPERTIES
    
    RunsEnd
