\* Two processes that annotate different commits.
CONSTANTS
    t1 = t1
    t2 = t2
    Thread = {t1, t2}
    Handle = {t1, t2}
    HandleOf <- SeparateHandles
    Hash = {"c1", "c2"}
    Branch = {"main"}
    Text = {"x"}
    FirstTree <- NoTree
    Ops = {"set"}
    MaxCalls = 2
SPECIFICATION Spec
INVARIANTS OtherNotesKept
