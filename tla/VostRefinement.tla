--------------------------- MODULE VostRefinement ---------------------------
(* VostStore implements SnapshotStore.  A branch's tip is its reference,   *)
(* its past the commits its reflog has recorded; a snapshot of a tag, and  *)
(* a detached one, is a snapshot of no branch.                             *)
EXTENDS VostStore

PastOf(b) == {reflog[b][i].new : i \in 1 .. Len(reflog[b])}

SnapOf(t) == [ref |-> IF fs[t].ref \in Branch THEN fs[t].ref ELSE NoRef,
              commit |-> fs[t].commit]

Promise == INSTANCE SnapshotStore WITH
    tip <- [b \in Branch |-> refs[b]],
    past <- [b \in Branch |-> PastOf(b)],
    snap <- [t \in Thread |-> SnapOf(t)]

(* The step-by-step protocol of commit_changes, undo and redo under        *)
(* vost.lock behaves like single atomic swaps of the branch.               *)
AtomicSwaps == Promise!Spec
=============================================================================
