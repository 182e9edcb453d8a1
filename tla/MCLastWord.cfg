CONSTANTS
    node = node
    list = list
    any = any
    stats = stats
    drain = drain
    internal = internal
    ka = ka
    a = a
    b = b
    PlanA = {}
    PlanB = {}
    Keys = {list, internal}
    Calls = {ka, a, b}
    NoChan = NoChan
    Modes <- MCModes
    KeepAlive = ka
    KeepAliveKey = internal
    SendCap = 1
    Batch = 1
    Collecting = {}
    Mutable = {}
    Backend <- MCBackend
    NomadReadOnly = TRUE
    ConsulReadOnly = FALSE
SPECIFICATION ConnectionSpec
INVARIANT UnwatchedIsGone
CHECK_DEADLOCK FALSE
