CONSTANTS
    any = any
    internal = internal
    ka = ka
    Keys <- MCKeys
    Calls = {ka, c1, c2, c3}
    NoChan = NoChan
    Modes <- MCModes
    KeepAlive = ka
    KeepAliveKey = internal
    SendCap = 1
    Batch = 0
    Collecting = {any}
SYMMETRY Symmetry
SPECIFICATION SubscriberSpec
INVARIANTS
    CloseOnce
    SubscriberTypeOK
    NoOrphan
    RegisteredHasOwner
    WaitGroupAccounting
    ReleaseIsOwed
PROPERTIES
    KeepsPromise
CHECK_DEADLOCK FALSE
