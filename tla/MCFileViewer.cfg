CONSTANTS
    top = top
    sub = sub
    log = log
    out = out
    None = None
    Paths = {top, sub}
    Top = top
    Files = {log, out}
    ParentDir <- MCParentDir
    FilesIn <- MCFilesIn
    Known <- MCKnown
    MaxQueries = 2
    MaxTasks = 2
    MaxStreams = 2
    MaxPieces <- MCMaxPieces
    MaxWire = 1
    MaxOutput = 2
SPECIFICATION FileSpec
INVARIANTS
    FileTypeOK
    TailsTheAddress
    TailsNothingElse
    ShowsInOrder
    ListsTheAddress
CHECK_DEADLOCK FALSE
