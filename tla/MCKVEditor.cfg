CONSTANTS
    u1 = u1
    root = root
    app = app
    app2 = app2
    a = a
    Users = {u1}
    Folders = {root, app}
    Root = root
    Names = {a}
    NoName = NoName
    Keys <- MCKeys
    Begins <- MCBegins
    MaxIndex = 2
    MaxRequests = 2
SPECIFICATION KVSpec
INVARIANTS
    KVTypeOK
    LoadedBeforeReplaced
    EditorFollowsPair
CHECK_DEADLOCK FALSE
