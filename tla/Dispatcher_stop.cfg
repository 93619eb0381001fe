CONSTANTS
    Callers = {c1, c2}
    Keys = {k1, k2}
    Chans = {d1, d2}
    None = None
    BufferSize = 1
    MaxCalls = 1
    Hanging = {}
SPECIFICATION Spec
PROPERTIES
    NoneHandledAfterStop
CHECK_DEADLOCK FALSE
