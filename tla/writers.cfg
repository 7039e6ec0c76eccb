\* Two processes that commit, undo and redo, fail and crash at any step.
CONSTANTS
    t1 = t1
    t2 = t2
    t3 = t3
    Thread = {t1, t2}
    Handle = {t1, t2}
    HandleOf <- SeparateHandles
    Branch = {"main"}
    Tag = {}
    InitBranch = "main"
    Path = {t1, t2}
    Data = {"x"}
    Changes <- OwnPath
    Message = {"user"}
    Ops = {"commit", "undo", "redo", "back", "hash", "fail", "crash"}
    MaxCalls = 4
    MaxBack = 2
SYMMETRY Interchangeable
SPECIFICATION Spec
INVARIANTS TypeOK LockOwnership CheckStillValid RedoRetracesUndo
PROPERTIES AtomicSwaps
