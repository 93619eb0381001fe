CONSTANTS
    Pods = {"a-0", "b-0"}
    Nodes = {"n1", "n2", "n3"}
    RackOf <- TwoRacks
    FirstNode <- FirstNodes
    Unknown = "unknown"
    None = None
    Capacity = 2
    MaxEdits = 2
    MaxChanges = 1
    MaxErrors = 1
SPECIFICATION Spec
INVARIANTS
    TypeOK
    OneStatus
    TopologyReported
    DeletedIsForgotten
PROPERTIES
    ReportsCatchUp
CHECK_DEADLOCK FALSE
