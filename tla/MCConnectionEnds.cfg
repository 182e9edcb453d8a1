CONSTANTS
    node = node
    list = list
    any = any
    stats = stats
    drain = drain
    internal = internal
    ka = ka
    a = a
    b = b
    PlanA = {"watch", "stream", "once"}
    PlanB = {"unwatch"}
    Keys = {any, stats, drain, internal}
    Calls = {ka, a, b}
    NoChan = NoChan
    Modes <- MCModes
    KeepAlive = ka
    KeepAliveKey = internal
    SendCap = 1
    Batch = 1
    Collecting = {stats}
    Mutable = {drain}
    Backend <- MCBackend
    NomadReadOnly = TRUE
    ConsulReadOnly = FALSE
SPECIFICATION PlannedSpec
PROPERTIES
    ClosedTaskEnds
    ShutdownUnlessBlocked
CHECK_DEADLOCK FALSE
