SPECIFICATION ConnFairSpec
CONSTANTS
    c1 = c1
    c2 = c2
    k1 = k1
    d1 = d1
    Callers = {c1, c2}
    Cancellable = {c1}
    NoCaller = NoCaller
    MaxPort = 1
    ScanLimit = 1
    MaxCalls = 2
    Configs <- MCConfigs
    Documents = {d1}
    Conns = {k1}
INVARIANT ConnTypeOK
PROPERTIES
    CallsReturn
    NoneAcceptedAfterGoodbye
    ListenersLeave
CHECK_DEADLOCK FALSE
