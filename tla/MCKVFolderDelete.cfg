CONSTANTS
    u1 = u1
    root = root
    app = app
    app2 = app2
    a = a
    Users = {u1}
    Folders = {root, app, app2}
    Root = root
    Names = {a}
    NoName = NoName
    Keys <- MCSiblings
    Begins <- MCBegins
    MaxIndex = 2
    MaxRequests = 1
SPECIFICATION KVSpec
PROPERTY DeletesOnlyFolder
CHECK_DEADLOCK FALSE
