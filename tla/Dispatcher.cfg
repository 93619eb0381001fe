CONSTANTS
    Callers = {c1, c2}
    Keys = {k1, k2}
    Chans = {d1, d2}
    None = None
    BufferSize = 1
    MaxCalls = 2
    Hanging = {k2}
SPECIFICATION FairSpec
INVARIANTS
    TypeOK
    OneHandlerPerKey
    AcceptedInOrder
    CallerOrderKept
PROPERTIES
    ImplementsKeyedQueues
    EveryEventHandled
    WorkersReturn
CHECK_DEADLOCK FALSE
