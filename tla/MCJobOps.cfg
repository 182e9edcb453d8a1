CONSTANTS
    b1 = b1
    Users = {b1}
    None = None
    MaxCount = 1
    MaxOps = 2
    MaxIndex = 2
    Size = 1
    Hasty = {"submit", "evaluate"}
SPECIFICATION JobOpsSpec
INVARIANTS
    JobOpsTypeOK
    DoneOrTold
    WarnsWhenStale
    NeverStuck
CHECK_DEADLOCK FALSE
