CONSTANTS
    node = node
    list = list
    any = any
    stats = stats
    drain = drain
    internal = internal
    ka = ka
    a = a
    b = b
    PlanA = {}
    PlanB = {}
    Keys = {node, drain, internal}
    Calls = {ka, a, b}
    NoChan = NoChan
    Modes <- MCModes
    KeepAlive = ka
    KeepAliveKey = internal
    SendCap = 1
    Batch = 1
    Collecting = {}
    Mutable = {drain}
    Backend <- MCBackend
    NomadReadOnly = TRUE
    ConsulReadOnly = FALSE
SPECIFICATION ConnectionSpec
PROPERTIES
    KeepsPromise
CHECK_DEADLOCK FALSE
