---------------------------- MODULE SnapshotStore ----------------------------
(***************************************************************************)
(* What vost promises to the users of branches, with no locks and no       *)
(* intermediate steps: commit, undo and redo each take effect at one       *)
(* instant, and only if the branch is still where the caller's snapshot    *)
(* was taken.  In that instant the branch moves from the snapshot's commit *)
(*   - to a new child of it, whose tree is the snapshot's tree with the    *)
(*     caller's change applied (commit),                                   *)
(*   - to an ancestor of it (undo), or                                     *)
(*   - to a commit the branch has been at before (redo).                   *)
(* Nothing else moves a branch.                                            *)
(***************************************************************************)
EXTENDS Naturals, Sequences

CONSTANTS Thread, Branch, InitBranch, NoRef, Path, NoData, Changes

VARIABLES
    commits,   \* the stored commits
    tip,       \* per branch, its commit, or 0
    past,      \* per branch, the commits it has been at
    snap       \* per thread, the snapshot it holds

vars == <<commits, tip, past, snap>>

CommitId == 1 .. Len(commits)

FirstParent(c) == IF commits[c].parents = <<>> THEN 0 ELSE Head(commits[c].parents)

TreeOf(c) == IF c = 0 THEN [p \in Path |-> NoData] ELSE commits[c].tree

Applied(base, change) ==
    [p \in Path |-> IF p \in DOMAIN change THEN change[p] ELSE base[p]]

(* The proper ancestors of a commit along first parents.                   *)
Ancestors(c) ==
    LET anc[d \in 0 .. Len(commits)] ==
          IF d = 0 \/ FirstParent(d) = 0 THEN {}
          ELSE {FirstParent(d)} \cup anc[FirstParent(d)]
    IN anc[c]

Init ==
    /\ commits = <<[parents |-> <<>>, tree |-> [p \in Path |-> NoData], msg |-> "user"]>>
    /\ tip = [b \in Branch |-> IF b = InitBranch THEN 1 ELSE 0]
    /\ past = [b \in Branch |-> IF b = InitBranch THEN {1} ELSE {}]
    /\ snap = [t \in Thread |-> [ref |-> NoRef, commit |-> 0]]

(* Taking snapshots, losing them, and storing objects move no branch, and  *)
(* stored commits never change.                                            *)
Private ==
    /\ Len(commits) <= Len(commits')
    /\ SubSeq(commits', 1, Len(commits)) = commits
    /\ snap' \in [Thread -> [ref : Branch \cup {NoRef}, commit : 0 .. Len(commits')]]
    /\ UNCHANGED <<tip, past>>

(* The branch of t's snapshot moves to c, from where the snapshot was      *)
(* taken, or from nowhere if the branch is missing.                        *)
Swap(t, c) ==
    LET b == snap[t].ref
    IN /\ b \in Branch
       /\ tip[b] \in {0, snap[t].commit}
       /\ tip' = [tip EXCEPT ![b] = c]
       /\ past' = [past EXCEPT ![b] = @ \cup {c}]
       /\ snap' = [snap EXCEPT ![t].commit = c]
       /\ UNCHANGED commits

Extend(t) ==
    \E c \in CommitId :
        /\ snap[t].commit # 0 => FirstParent(c) = snap[t].commit
        /\ \E change \in Changes[t] :
              commits[c].tree = Applied(TreeOf(snap[t].commit), change)
        /\ Swap(t, c)

Rewind(t) == \E c \in Ancestors(snap[t].commit) : Swap(t, c)

Return(t) == snap[t].ref \in Branch /\ \E c \in past[snap[t].ref] : Swap(t, c)

Next == Private \/ \E t \in Thread : Extend(t) \/ Rewind(t) \/ Return(t)

Spec == Init /\ [][Next]_vars
=============================================================================
