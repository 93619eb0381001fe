CONSTANTS
    Specs <- SomeSpecs
    Crons = {"daily", "weekly", "hourly"}
    None = None
    Empty = ""
    DefaultImage = "latest"
    MaxEdits = 4
    MaxCrashes = 1
    MaxErrors = 1
SPECIFICATION Spec
INVARIANTS
    TypeOK
    NoStaleJob
    NoMissingJob
CHECK_DEADLOCK FALSE
