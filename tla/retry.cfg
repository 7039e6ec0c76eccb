\* Two threads that count with retry_write, a third that moves other references.
CONSTANTS
    t1 = t1
    t2 = t2
    t3 = t3
    Thread = {t1, t2, t3}
    Handle = {"h", "i"}
    HandleOf <- OneApart
    Branch = {"main", "dev"}
    Tag = {}
    InitBranch = "main"
    Path = {"n"}
    Data = {"1", "2", "3", "4", "5"}
    Changes <- Increments
    Message = {"user"}
    Ops = {"commit", "undo", "set", "del", "hash", "fail", "crash"}
    MaxCalls = 5
    MaxBack = 1
    Retrier = {t1, t2}
    Counter = "n"
    Text <- Digits
    max_retries = 1
    MaxWrites = 2
SPECIFICATION RetrySpec
INVARIANTS NoLostIncrement
PROPERTIES GivesUpOnProgress RetryEnds CallsReturn
