\* sync_in without filters, into the root and into a directory, no links.
CONSTANTS
    Name = {"a", "b"}
    Data = {"x", "xx", "e", "ex", "l"}
    MaxDepth = 3
    Mode <- MCMode
    Content <- MCContent
    EmptyFile = "e"
    Ops = {"sync_in"}
    At <- MCAt
    Filters <- OnlyNoFilter
    RepoEdits <- MCRepoEdits
    DiskEdits <- MCDiskEdits
    MaxOps = 4
SPECIFICATION Spec
INVARIANTS SyncMakesIdentical
