CONSTANTS
    Nodes = {n1, n2}
    NoNode = NoNode
SPECIFICATION FairStatsSpec
INVARIANTS
    StatsTypeOK
    NoSendOnClosed
    SendsNeverBlock
    PoolAccounting
    ReportIsWhole
PROPERTIES
    CollectionCompletes
    StreamEnds
CHECK_DEADLOCK FALSE
