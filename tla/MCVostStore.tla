---------------------------- MODULE MCVostStore -----------------------------
(* Instances of VostStore for TLC.                                         *)
EXTENDS VostRefinement, VostLog, TLC

(* Every thread works through a handle of its own: separate processes.     *)
SeparateHandles == [t \in Thread |-> t]

(* All the threads share one GitStore.                                     *)
OneHandle == [t \in Thread |-> CHOOSE h \in Handle : TRUE]

(* Every thread writes, or removes, only the path named after it.          *)
OwnPath == [t \in Thread |-> [{t} -> Data \cup {NoData}]]

(* With separate handles and own paths no thread differs from another.     *)
Interchangeable == Permutations(Thread)

(* Every thread writes any one path.                                       *)
AnyPath == [t \in Thread |-> UNION {[{p} -> Data] : p \in Path}]

-----------------------------------------------------------------------------
(* Redo "re-advances" the branch: it moves to a descendant of the commit   *)
(* it leaves.                                                              *)
RedoAdvances ==
    [][\A t \in Thread :
          pc[t] = "update" /\ call[t].op = "redo" /\ res'[t] = "ok" /\ refs' # refs
              => refs[call[t].ref] \in Promise!Ancestors(target[t])]_vars
=============================================================================
