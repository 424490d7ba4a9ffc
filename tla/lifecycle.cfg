SPECIFICATION Spec
CONSTANTS
    c1 = c1
    c2 = c2
    Callers = {c1, c2}
    Cancellable = {c1, c2}
    NoCaller = NoCaller
    MaxPort = 2
    ScanLimit = 3
    MaxCalls = 4
    Configs <- MCConfigs
    Documents = {}
INVARIANTS
    TypeOK
    OneListener
    RunningIsListening
    NoLeak
    StoppedIsGone
    RestartFreesItsPort
PROPERTY ImplementsLifecycle
SYMMETRY Symmetry
CHECK_DEADLOCK FALSE
