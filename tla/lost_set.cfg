\* One process commits while another assigns the branch.
CONSTANTS
    t1 = t1
    t2 = t2
    t3 = t3
    Thread = {t1, t2}
    Handle = {t1, t2}
    HandleOf <- SeparateHandles
    Branch = {"main"}
    Tag = {}
    InitBranch = "main"
    Path = {"p"}
    Data = {"x"}
    Changes <- AnyPath
    Message = {"user"}
    Ops = {"commit", "set", "hash"}
    MaxCalls = 3
    MaxBack = 1
SPECIFICATION Spec
PROPERTIES SwapFromSnapshot
