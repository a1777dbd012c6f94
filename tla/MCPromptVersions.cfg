SPECIFICATION Spec
CONSTANTS
    Sessions = {"publisher", "editor"}
    Ops <- OnePublisher
    Schemas = {"x", "y"}
    EmptySchema = "x"
    MaxVersions = 3
CHECK_DEADLOCK FALSE
INVARIANTS
    AtMostOnePublished
    NoDeadlock
PROPERTIES
    StaysPublished
    RequestsEnd
