\* Transfers between two repositories and a bundle, packing, other writers.
CONSTANTS
    Object = {1, 2, 3}
    Packer = {"own"}
    InsertsFail = FALSE
    Ref <- TwoKinds
    Requests <- AllNamesMaps
    Kinds = {"repo", "bundle"}
    Ops = {"backup", "restore", "export", "import", "pack"}
    Own = "own"
    MaxOps = 4
SPECIFICATION Spec
INVARIANTS TypeOK RefsComplete OnlyAskedMoves DiffIsWhatHappens
PROPERTIES ObjectsKept
