SPECIFICATION Spec
CONSTANTS
    Sessions = {"publisher", "editor"}
    Ops <- OnePublisher
    Schemas = {"x"}
    EmptySchema = "x"
    MaxVersions = 3
CHECK_DEADLOCK FALSE
INVARIANT PublishedHasSnapshot
