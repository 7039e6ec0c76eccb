\* One thread undoes and redoes.
CONSTANTS
    t1 = t1
    t2 = t2
    t3 = t3
    Thread = {t1}
    Handle = {"h"}
    HandleOf <- OneHandle
    Branch = {"main"}
    Tag = {}
    InitBranch = "main"
    Path = {"p"}
    Data = {"x"}
    Changes <- AnyPath
    Message = {"user"}
    Ops = {"commit", "undo", "redo"}
    MaxCalls = 4
    MaxBack = 1
SPECIFICATION Spec
PROPERTIES RedoAdvances
