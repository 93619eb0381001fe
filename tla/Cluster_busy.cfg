CONSTANTS
    Specs <- CoreSpecs
    RackNames = {"a", "b"}
    Configs = {v1, v2}
    None = None
    NoImage = ""
    DefaultImage = "latest"
    MaxEdits = 3
    MaxCrashes = 0
    MaxErrors = 0
    Patient = {"create"}
    SupportedOnly = FALSE
SPECIFICATION Spec
INVARIANTS
    RolloutsAwaited
    DeletedLeavesNothing
CHECK_DEADLOCK FALSE
