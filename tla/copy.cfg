\* Every copy and sync, from and to trees made in up to three edits by others.
CONSTANTS
    Name = {"a", "b"}
    Data = {"x", "xx", "e", "ex", "l"}
    MaxDepth = 3
    Mode <- MCMode
    Content <- MCContent
    EmptyFile = "e"
    Ops = {"copy_in", "sync_in", "copy_out", "sync_out"}
    At <- MCAt
    Filters <- MCFilters
    RepoEdits <- MCRepoEdits
    DiskEdits <- MCDiskEdits
    MaxOps = 4
SPECIFICATION Spec
INVARIANTS TypeOK InCallsTakeEffect ReportTellsChanges OutCallsDeliver
