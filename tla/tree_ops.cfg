\* Every write operation, on trees three levels deep.
CONSTANTS
    Name = {"a", "b"}
    Data = {"x", "y"}
    MaxDepth = 3
    Ops = {"write", "apply", "remove", "move", "rename", "copy", "dry_run"}
    Arg <- DeepArg
    Sources <- ShortLists
    SourceTree <- OtherTree
    Copies <- CopyLists
    Spelling <- DotB
    Patterns <- SomePatterns
    SizeOf <- Sizes
    SizeMax = 7
    MaxOps = 3
SPECIFICATION Spec
INVARIANTS TypeOK RemoveRemovesFiles RenameMovesFiles MoveMovesFiles MoveSparesOthers CopyMakesIdentical
           GlobFindsMatches ListingsAgree RangesAreExact
