\* Batches of up to three calls, some of them on a stale snapshot.
CONSTANTS
    Name = {"a", "b"}
    Data = {"x", "y"}
    MaxDepth = 2
    Ops = {"write", "batch", "writer"}
    Arg <- FewArg
    Sources <- NoLists
    SourceTree <- OtherTree
    Copies <- NoLists
    Spelling <- DotB
    Patterns <- SomePatterns
    SizeOf <- Sizes
    SizeMax = 7
    MaxOps = 5
SPECIFICATION Spec
INVARIANTS BatchActsInTurn
PROPERTIES LateChangesSpareOthers
