SPECIFICATION Spec
CONSTANTS
    Image <- ImageFiles
    Defaults <- DefaultFiles
    ConfigMaps <- AnyConfigMap
    PodSizes <- AnyPodSize
    Setting <- Settings
    MaxEdits = 2
    MaxKills = 2
INVARIANTS TypeOK OnlyRequiredChanged OperatorSettings YoungFitsHeap
PROPERTIES BootstrapEnds
CHECK_DEADLOCK FALSE
