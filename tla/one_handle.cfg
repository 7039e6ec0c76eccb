\* Two threads of one process that also set and delete branches and tags.
CONSTANTS
    t1 = t1
    t2 = t2
    t3 = t3
    Thread = {t1, t2}
    Handle = {"h"}
    HandleOf <- OneHandle
    Branch = {"main", "dev"}
    Tag = {"v1"}
    InitBranch = "main"
    Path = {"p"}
    Data = {"x"}
    Changes <- AnyPath
    Message = {"user"}
    Ops = {"commit", "undo", "set", "del", "empty", "squash", "merge"}
    MaxCalls = 3
    MaxBack = 1
SPECIFICATION Spec
INVARIANTS ReflogExtends ReflogChain LogExplainsPath LogPagesAddUp
PROPERTIES SwapFromSnapshot TagsNeverMove
