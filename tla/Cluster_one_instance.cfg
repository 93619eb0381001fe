CONSTANTS
    Specs <- UpdateSpecs
    RackNames = {"a", "b"}
    Configs = {v1, v2}
    None = None
    NoImage = ""
    DefaultImage = "latest"
    MaxEdits = 3
    MaxCrashes = 0
    MaxErrors = 0
    Patient = {}
    SupportedOnly = TRUE
SPECIFICATION Spec
INVARIANTS
    OneInstanceAtATime
CHECK_DEADLOCK FALSE
