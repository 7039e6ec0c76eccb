\* Two processes that annotate, fail and crash.
CONSTANTS
    t1 = t1
    t2 = t2
    Thread = {t1, t2}
    Handle = {t1, t2}
    HandleOf <- SeparateHandles
    Hash = {"c1", "c2"}
    Branch = {"main"}
    Text = {"x"}
    FirstTree <- Fanout
    Ops = {"set", "del", "batch", "name", "fail", "crash"}
    MaxCalls = 4
SPECIFICATION Spec
INVARIANTS TypeOK OneEntryPerNote ChangeTakesEffect
PROPERTIES NotesHistoryGrows OthersKeptUndisturbed
