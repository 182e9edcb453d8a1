CONSTANTS
    jobs = jobs
    allocs = allocs
    s1 = s1
    s2 = s2
    Tables = {jobs, allocs}
    JobTable = jobs
    AllocTable = allocs
    Servers = {s1, s2}
    Kinds = {"list", "nodes", "health"}
    MaxIndex = 4
    MaxEra = 1
SPECIFICATION FairWatcherSpec
INVARIANTS
    WatcherTypeOK
    WaitsBeyondShown
PROPERTIES
    NeverGoesBack
    CatchesUp
CHECK_DEADLOCK FALSE
