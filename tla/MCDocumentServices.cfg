SPECIFICATION Spec
CONSTANTS
    TplIds = {1, 2}
    RegIds = {1, 2}
    BlockIds = {1, 2}
    TestIds = {1}
    ItemIds = {1, 2}
    Names = {"x", "y"}
    Layouts <- MCLayouts
    Forms <- MCForms
    BlockBodies = {b1}
    Ratings = {45}
    MaxTplVersions = 2
    MaxDownloads = 2
    TplJobs = {j1, j2}
    NoTplRow = NoTplRow
    GoneTplRow = GoneTplRow
    DocJobs = {1, 2}
    DocLocales = {"en"}
    Workers = {w1, w2}
    NoJob = NoJob
    NoDoc = NoDoc
    Documents <- MCDocuments
    MaxRows = 2
    MergeLimit = 2
    Prompts = {1, 2}
    PNames = {"x"}
    InputDefs <- MCInputDefs
    BindDefs <- MCBindDefs
    Guards <- MCGuards
    Answers <- MCAnswers
    Runs = {1}
    Cases = {c1}
    MaxPromptVersions = 1
    NoPrompt = NoPrompt
    NoRun = NoRun
    NoCase = NoCase
    GoneCase = GoneCase
    DocTypes = {"t1"}
    ScientificTypes = {}
    DocIds = {1, 2}
    PRules = {1}
    ParseIds = {1}
    Texts = {"a", "b"}
    Files <- MCFiles
    Similarity <- MCSimilarity
    SensitiveFields = {"email"}
    BuiltInFields <- MCBuiltInFields
    RuleBodies <- MCRuleBodies
    MappingRows <- MCMappingRows
    Thresholds = {0}
    MaxRuleVersions = 2
    MaxFieldMappings = 1
    Processes = {p1, p2}
    Emails = {e1, e2, e3}
    Tokens = {k1, k2}
    NoDocRow = NoDocRow
INVARIANTS
    
    SuccessHasDocument
    
    
    
    EvaluationTraceable
    RuleServesActiveVersion
    
    RegistrationCloses
CHECK_DEADLOCK FALSE
