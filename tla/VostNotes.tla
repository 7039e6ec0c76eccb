------------------------------ MODULE VostNotes ------------------------------
(***************************************************************************)
(* Git notes (notes.cpp): one namespace, that is one reference             *)
(* refs/notes/<ns> whose commits hold a tree from commit hashes to texts.  *)
(* A note is found under its full hash ("flat"), where vost writes it, or  *)
(* in a directory named by the hash's first two digits ("fan"), where git  *)
(* may have put it.                                                        *)
(*                                                                         *)
(* Set, del and the commit of a NotesBatch read the tree under the mutex,  *)
(* build a new one under the mutex, and only then take vost.lock to commit *)
(* it.  Threads may share a handle (a process), whose mutex they share.    *)
(***************************************************************************)
EXTENDS Naturals, Sequences, FiniteSets

CONSTANTS
    Thread, Handle, HandleOf,
    Hash,       \* hashes of annotated commits
    Branch,     \* names that resolve_target accepts instead of a hash
    Text,
    FirstTree,  \* the notes git left in the repository, NoTree if none
    Ops,        \* the operations used
    MaxCalls    \* bound: number of calls, crashes and branch movements

NoThread == "no thread"
NoText == "no text"
NoTree == [flat |-> <<>>, fan |-> <<>>]
None == 0

Delete == "delete"
Layout == [Hash -> Text \cup {NoText}]
NoteTree == [flat : Layout, fan : Layout]
EmptyTree == [flat |-> [h \in Hash |-> NoText], fan |-> [h \in Hash |-> NoText]]

(* What a call changes: for some hashes, a new text or the deletion.       *)
Change == UNION {[H -> Text \cup {Delete}] : H \in SUBSET Hash}
NoChange == <<>>

ASSUME NotesAssumption ==
    /\ HandleOf \in [Thread -> Handle]
    /\ NoThread \notin Thread
    /\ Text \cap {NoText, Delete} = {}
    /\ FirstTree \in NoteTree \cup {NoTree}
    /\ Ops \subseteq {"set", "del", "batch", "name", "fail", "crash"}
    /\ MaxCalls \in Nat

VARIABLES
    commits,    \* the notes commits: [parent, tree, change], by index
    tip,        \* what the notes reference points to, None if it is missing
    branches,   \* the commit hash each branch points to
    repo_lock,  \* the thread holding vost.lock
    mutex,      \* per handle, the thread holding GitStoreInner::mutex
    pc,         \* per thread, where it is in its call
    staged,     \* per thread, writes_ and deletes_ of its NotesBatch
    closed,     \* per thread, committed_ of its NotesBatch; TRUE if it has none
    change,     \* per thread, what its call is to change
    base,       \* per thread, base_tree
    new,        \* per thread, new_tree
    made,       \* per thread, the commit made of it
    res,        \* per thread, the outcome of its last call
    ncalls

vars == <<commits, tip, branches, repo_lock, mutex, pc, staged, closed,
          change, base, new, made, res, ncalls>>

disk == <<commits, tip, branches>>
object == <<staged, closed>>       \* the NotesBatch
local == <<change, base, new, made>>

CommitId == 1 .. Len(commits)

Init ==
    /\ commits = IF FirstTree = NoTree THEN <<>>
                 ELSE <<[parent |-> None, tree |-> FirstTree, change |-> NoChange]>>
    /\ tip = Len(commits)
    /\ branches \in [Branch -> Hash]
    /\ repo_lock = NoThread
    /\ mutex = [h \in Handle |-> NoThread]
    /\ pc = [t \in Thread |-> "idle"]
    /\ staged = [t \in Thread |-> NoChange]
    /\ closed = [t \in Thread |-> TRUE]
    /\ change = [t \in Thread |-> NoChange]
    /\ base = [t \in Thread |-> NoTree]
    /\ new = [t \in Thread |-> NoTree]
    /\ made = [t \in Thread |-> None]
    /\ res = [t \in Thread |-> "none"]
    /\ ncalls = 0

-----------------------------------------------------------------------------
(* find_note: the flat entry, else the one in the fanout directory.        *)
FindNote(tree, h) == IF tree.flat[h] # NoText THEN tree.flat[h] ELSE tree.fan[h]

(* iter_notes lists an entry in either place.                              *)
CountNotes(tree) ==
    Cardinality({h \in Hash : tree.flat[h] # NoText})
        + Cardinality({h \in Hash : tree.fan[h] # NoText})

Deletes(c) == {h \in DOMAIN c : c[h] = Delete}

(* Mistaken: a write leaves the fanout entry in place.                     *)
BuildKeepsFanout(tree, c) ==
    [flat |-> [h \in Hash |->
                 IF h \notin DOMAIN c THEN tree.flat[h]
                 ELSE IF c[h] = Delete THEN NoText
                 ELSE c[h]],
     fan |-> [h \in Hash |->
                IF h \in DOMAIN c /\ c[h] = Delete /\ tree.flat[h] = NoText
                THEN NoText ELSE tree.fan[h]]]

(* Mistaken: only flat entries are deleted.                                *)
BuildDeletesFlat(tree, c) ==
    [flat |-> [h \in Hash |->
                 IF h \notin DOMAIN c THEN tree.flat[h]
                 ELSE IF c[h] = Delete THEN NoText
                 ELSE c[h]],
     fan |-> [h \in Hash |->
                IF h \notin DOMAIN c \/ c[h] = Delete THEN tree.fan[h] ELSE NoText]]

(* Mistaken: the tree is built from nothing instead of the base tree.      *)
BuildFromNothing(tree, c) ==
    [flat |-> [h \in Hash |->
                 IF h \in DOMAIN c /\ c[h] # Delete THEN c[h] ELSE NoText],
     fan |-> [h \in Hash |-> NoText]]

(* build_note_tree.  A delete takes the flat entry, else the fanout entry, *)
(* else it throws; a write drops a fanout entry and adds a flat one.       *)
CanBuild(tree, c) == \A h \in Deletes(c) : FindNote(tree, h) # NoText

BuildNoteTree(tree, c) ==
    [flat |-> [h \in Hash |->
                 IF h \notin DOMAIN c THEN tree.flat[h]
                 ELSE IF c[h] = Delete THEN NoText
                 ELSE c[h]],
     fan |-> [h \in Hash |->
                IF h \notin DOMAIN c THEN tree.fan[h]
                ELSE IF c[h] = Delete /\ tree.flat[h] # NoText THEN tree.fan[h]
                ELSE NoText]]

TreeAt(c) == IF c = None THEN NoTree ELSE commits[c].tree

OrEmpty(tree) == IF tree = NoTree THEN EmptyTree ELSE tree

-----------------------------------------------------------------------------
MutexFree(t) == mutex[HandleOf[t]] = NoThread

Start(t) ==
    /\ pc[t] = "idle"
    /\ ncalls < MaxCalls
    /\ ncalls' = ncalls + 1

Goto(t, l) == pc' = [pc EXCEPT ![t] = l]

Return(t, r) ==
    /\ pc' = [pc EXCEPT ![t] = "idle"]
    /\ change' = [change EXCEPT ![t] = NoChange]
    /\ base' = [base EXCEPT ![t] = NoTree]
    /\ new' = [new EXCEPT ![t] = NoTree]
    /\ made' = [made EXCEPT ![t] = None]
    /\ res' = [res EXCEPT ![t] = r]

(* Set and del of a hash.                                                  *)
SetOrDel(t, h, text) ==
    /\ IF text = Delete THEN "del" \in Ops ELSE "set" \in Ops
    /\ Start(t)
    /\ Goto(t, "read")
    /\ change' = [change EXCEPT ![t] = [g \in {h} |-> text]]
    /\ UNCHANGED <<disk, repo_lock, mutex, object, base, new, made, res>>

(* The same by the name of a branch, or for the current one.  The branch   *)
(* is read in a critical section of its own.                               *)
ResolveTarget(t, b, text) ==
    /\ "name" \in Ops
    /\ MutexFree(t)
    /\ SetOrDel(t, branches[b], text)

-----------------------------------------------------------------------------
(* NotesBatch.                                                             *)

NewBatch(t) ==
    /\ "batch" \in Ops
    /\ Start(t) /\ closed[t]
    /\ closed' = [closed EXCEPT ![t] = FALSE]
    /\ staged' = [staged EXCEPT ![t] = NoChange]
    /\ UNCHANGED <<disk, repo_lock, mutex, pc, local, res>>

(* The last of several changes of one hash counts.                         *)
BatchStage(t, h, text) ==
    /\ Start(t) /\ ~closed[t]
    /\ staged' = [staged EXCEPT ![t] =
                    [g \in DOMAIN @ \cup {h} |-> IF g = h THEN text ELSE @[g]]]
    /\ UNCHANGED <<disk, repo_lock, mutex, pc, closed, local, res>>

(* committed_ is set before anything else is done.                         *)
BatchCommit(t) ==
    /\ Start(t) /\ ~closed[t]
    /\ closed' = [closed EXCEPT ![t] = TRUE]
    /\ IF staged[t] = NoChange
       THEN res' = [res EXCEPT ![t] = "ok"] /\ UNCHANGED <<pc, change>>
       ELSE /\ Goto(t, "read")
            /\ change' = [change EXCEPT ![t] = staged[t]]
            /\ UNCHANGED res
    /\ UNCHANGED <<disk, repo_lock, mutex, staged, base, new, made>>

-----------------------------------------------------------------------------
(* The base tree is read in one critical section.  Deleting a note of a    *)
(* reference that is missing fails here, or like any other delete of what  *)
(* is not there when the tree is built.                                    *)
ReadBase(t) ==
    /\ pc[t] = "read" /\ MutexFree(t)
    /\ base' = [base EXCEPT ![t] = TreeAt(tip)]
    /\ Goto(t, "build")
    /\ UNCHANGED <<disk, repo_lock, mutex, object, change, new, made, res, ncalls>>

(* The new tree is built in another.                                       *)
BuildTree(t) ==
    /\ pc[t] = "build" /\ MutexFree(t)
    /\ IF CanBuild(OrEmpty(base[t]), change[t])
       THEN /\ new' = [new EXCEPT ![t] = BuildNoteTree(OrEmpty(base[t]), change[t])]
            /\ Goto(t, "flock")
            /\ UNCHANGED <<change, base, made, res>>
       ELSE Return(t, "KeyNotFound")
    /\ UNCHANGED <<disk, repo_lock, mutex, object, ncalls>>

(* Mistaken: vost.lock is not waited for.                                  *)
IgnoreRepoLock(t) ==
    /\ pc[t] = "flock"
    /\ repo_lock' = t
    /\ Goto(t, "commit")
    /\ UNCHANGED <<disk, mutex, object, local, res, ncalls>>

(* commit_note_tree: vost.lock first, then the mutex.                      *)
AcquireRepoLock(t) ==
    /\ pc[t] = "flock" /\ repo_lock = NoThread
    /\ repo_lock' = t
    /\ Goto(t, "commit")
    /\ UNCHANGED <<disk, mutex, object, local, res, ncalls>>

TimeOutRepoLock(t) ==
    /\ pc[t] = "flock" /\ repo_lock # NoThread
    /\ Return(t, "timeout")
    /\ UNCHANGED <<disk, repo_lock, mutex, object, ncalls>>

(* Mistaken: the commit object is not stored.                              *)
NoteCommitNotStored(t) ==
    /\ pc[t] = "commit" /\ MutexFree(t)
    /\ mutex' = [mutex EXCEPT ![HandleOf[t]] = t]
    /\ made' = [made EXCEPT ![t] = Len(commits) + 1]
    /\ Goto(t, "update")
    /\ UNCHANGED <<disk, repo_lock, object, change, base, new, res, ncalls>>

(* The parent of the new commit is the tip as it is now.                   *)
WriteNoteCommit(t) ==
    /\ pc[t] = "commit" /\ MutexFree(t)
    /\ mutex' = [mutex EXCEPT ![HandleOf[t]] = t]
    /\ commits' = Append(commits,
                         [parent |-> tip, tree |-> new[t], change |-> change[t]])
    /\ made' = [made EXCEPT ![t] = Len(commits) + 1]
    /\ Goto(t, "update")
    /\ UNCHANGED <<tip, branches, repo_lock, object, change, base, new, res, ncalls>>

Leave(t, r) ==
    /\ mutex' = [mutex EXCEPT ![HandleOf[t]] = NoThread]
    /\ repo_lock' = NoThread
    /\ Return(t, r)
    /\ UNCHANGED <<commits, branches, object, ncalls>>

(* The reference is looked up again and set, or created if there is none.  *)
UpdateNotesRef(t) == pc[t] = "update" /\ tip' = made[t] /\ Leave(t, "ok")

GitFailure(t) ==
    /\ "fail" \in Ops
    /\ pc[t] = "update"
    /\ tip' = tip
    /\ Leave(t, "GitError")

Crash(h) ==
    LET dead(t) == HandleOf[t] = h
    IN /\ "crash" \in Ops
       /\ ncalls < MaxCalls
       /\ ncalls' = ncalls + 1
       /\ \E t \in Thread : dead(t) /\ pc[t] # "idle"
       /\ mutex' = [mutex EXCEPT ![h] = NoThread]
       /\ repo_lock' = IF repo_lock \in Thread /\ dead(repo_lock)
                       THEN NoThread ELSE repo_lock
       /\ pc' = [t \in Thread |-> IF dead(t) THEN "idle" ELSE pc[t]]
       /\ staged' = [t \in Thread |-> IF dead(t) THEN NoChange ELSE staged[t]]
       /\ closed' = [t \in Thread |-> dead(t) \/ closed[t]]
       /\ change' = [t \in Thread |-> IF dead(t) THEN NoChange ELSE change[t]]
       /\ base' = [t \in Thread |-> IF dead(t) THEN NoTree ELSE base[t]]
       /\ new' = [t \in Thread |-> IF dead(t) THEN NoTree ELSE new[t]]
       /\ made' = [t \in Thread |-> IF dead(t) THEN None ELSE made[t]]
       /\ res' = [t \in Thread |-> IF dead(t) THEN "none" ELSE res[t]]
       /\ UNCHANGED disk

(* A branch moves: somebody commits to it.                                 *)
MoveBranch(b, h) ==
    /\ "name" \in Ops
    /\ ncalls < MaxCalls /\ ncalls' = ncalls + 1
    /\ branches[b] # h
    /\ branches' = [branches EXCEPT ![b] = h]
    /\ UNCHANGED <<commits, tip, repo_lock, mutex, pc, object, local, res>>

Finished ==
    /\ ncalls = MaxCalls
    /\ \A t \in Thread : pc[t] = "idle"
    /\ UNCHANGED vars

Calls(t) ==
    \/ \E h \in Hash, text \in Text \cup {Delete} :
          SetOrDel(t, h, text) \/ BatchStage(t, h, text)
    \/ \E b \in Branch, text \in Text \cup {Delete} : ResolveTarget(t, b, text)
    \/ NewBatch(t)
    \/ BatchCommit(t)

Proceed(t) ==
    \/ ReadBase(t)
    \/ BuildTree(t)
    \/ AcquireRepoLock(t)
    \/ TimeOutRepoLock(t)
    \/ WriteNoteCommit(t)
    \/ UpdateNotesRef(t)

Next ==
    \/ \E t \in Thread : Calls(t) \/ Proceed(t) \/ GitFailure(t)
    \/ \E h \in Handle : Crash(h)
    \/ \E b \in Branch, h \in Hash : MoveBranch(b, h)
    \/ Finished

Spec == Init /\ [][Next]_vars

-----------------------------------------------------------------------------
(* Type invariant.  The reference, and what a call is about to move it to, *)
(* name commits that are stored, so no crash leaves it dangling, and a     *)
(* parent is always older than its child.                                  *)
TypeOK ==
    /\ \A i \in CommitId :
          /\ commits[i].parent \in 0 .. i - 1
          /\ commits[i].tree \in NoteTree
          /\ commits[i].change \in Change
    /\ tip \in 0 .. Len(commits)
    /\ branches \in [Branch -> Hash]
    /\ repo_lock \in Thread \cup {NoThread}
    /\ mutex \in [Handle -> Thread \cup {NoThread}]
    /\ pc \in [Thread -> {"idle", "read", "build", "flock", "commit", "update"}]
    /\ staged \in [Thread -> Change] /\ closed \in [Thread -> BOOLEAN]
    /\ change \in [Thread -> Change]
    /\ base \in [Thread -> NoteTree \cup {NoTree}]
    /\ new \in [Thread -> NoteTree \cup {NoTree}]
    /\ made \in [Thread -> 0 .. Len(commits)]

(* The notes reference only ever moves to a child of the commit it points  *)
(* to, from two processes at once or across a crash: no notes commit drops *)
(* out of its history.                                                     *)
NotesHistoryGrows == [][tip' # tip => commits'[tip'].parent = tip]_vars

(* A note is stored in one place only, though two are searched: moving it  *)
(* from git's fanout directory to the flat entry leaves nothing behind, so *)
(* size() counts it once.                                                  *)
OneEntryPerNote ==
    \A i \in CommitId :
        CountNotes(commits[i].tree)
           = Cardinality({h \in Hash : FindNote(commits[i].tree, h) # NoText})

(* Every commit contains the whole change it was made for, all of a        *)
(* batch's writes and deletes, wherever git kept the notes.                *)
ChangeTakesEffect ==
    \A i \in CommitId : \A h \in DOMAIN commits[i].change :
        FindNote(commits[i].tree, h)
           = IF commits[i].change[h] = Delete THEN NoText ELSE commits[i].change[h]

(* A call whose base tree is still the current one when it commits changes *)
(* no other note than those of its change, in either layout.               *)
OthersKeptUndisturbed ==
    [][\A t \in Thread :
          pc[t] = "update" /\ tip' = made[t] /\ base[t] = TreeAt(tip) =>
             \A h \in Hash \ DOMAIN change[t] :
                FindNote(TreeAt(tip)', h) = FindNote(OrEmpty(base[t]), h)]_vars

(* A commit changes no other note than those of its change: what the       *)
(* commit before it set or deleted stays so.                               *)
OtherNotesKept ==
    \A i \in CommitId :
        \/ i = 1 /\ FirstTree # NoTree
        \/ \A h \in Hash \ DOMAIN commits[i].change :
              FindNote(commits[i].tree, h)
                 = FindNote(OrEmpty(TreeAt(commits[i].parent)), h)
=============================================================================
