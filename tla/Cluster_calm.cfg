CONSTANTS
    Specs <- SupportedSpecs
    RackNames = {"a", "b"}
    Configs = {v1, v2}
    None = None
    NoImage = ""
    DefaultImage = "latest"
    MaxEdits = 4
    MaxCrashes = 1
    MaxErrors = 1
    Patient = {"create", "update", "delete", "config"}
    SupportedOnly = TRUE
SPECIFICATION FairSpec
INVARIANTS
    TypeOK
    SpecDeployed
    ConfigMounted
PROPERTIES
    StableWhenDeployed
    WorkersSettle
CHECK_DEADLOCK FALSE
