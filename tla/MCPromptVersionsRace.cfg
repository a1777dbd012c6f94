SPECIFICATION Spec
CONSTANTS
    Sessions = {"publisher", "editor"}
    Ops <- TwoPublishers
    Schemas = {"x"}
    EmptySchema = "x"
    MaxVersions = 3
CHECK_DEADLOCK FALSE
INVARIANT AtMostOnePublished
