CONSTANTS
    Specs <- SomeSpecs
    Crons = {"daily", "weekly", "hourly"}
    None = None
    Empty = ""
    DefaultImage = "latest"
    MaxEdits = 4
    MaxCrashes = 0
    MaxErrors = 0
SPECIFICATION Spec
INVARIANTS
    NeverPanics
CHECK_DEADLOCK FALSE
