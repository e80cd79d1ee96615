SPECIFICATION Spec
CONSTANTS
    c1 = c1
    c2 = c2
    Callers = {c1, c2}
    Ports <- MCPorts
    Other = Other
    NoResult = NoResult
    EmptyInlay = EmptyInlay
    ProxyPort = 4711
    IdBase = 10
    MaxZed = 1
    MaxSrv = 1
    MaxTraffic = 3
    PipeCap = 1
CHECK_DEADLOCK FALSE
SYMMETRY CallerSymmetry
INVARIANTS
    TypeOK
    Correlation
    PendingIsExact
    StrayOnlyAfterTimeout
    PortBeforeAnswer
    SettledOnce
PROPERTY
    ContractHolds
