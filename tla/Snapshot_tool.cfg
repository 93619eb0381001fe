CONSTANTS
    PodList <- TwoPods
    AllKeyspaces = {"k1", "k2"}
    Keyspaces = {}
    RetentionPeriod = 1
    MaxTime = 3
    MaxCreations = 2
    MaxCleanups = 1
    MaxErrors = 1
SPECIFICATION Spec
INVARIANTS
    TypeOK
    BackupKept
    CleanupCleans
PROPERTIES
    OnlyOldRemoved
    CleanupEnds
CHECK_DEADLOCK FALSE
