SPECIFICATION Spec
CONSTANTS
    RackNames = {a, b}
    Replicas = {1, 2, 4}
    MaxReplicas = 4
    MaxEdits = 2
    MaxTroubles = 1
    a = a
    b = b
    None = None
INVARIANTS TypeOK SeedIsMember 
 
CHECK_DEADLOCK FALSE
