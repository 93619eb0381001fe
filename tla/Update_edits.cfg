CONSTANTS
    Specs <- SomeSpecs
    RackNames = {"a", "b"}
    MaxReplicas = 2
    None = None
    NoImage = ""
SPECIFICATION Spec
INVARIANTS
    ChangesOrdered
    EachRackOnce
    UpdateReachesSpec
