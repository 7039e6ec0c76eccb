------------------------------ MODULE VostStore ------------------------------
(***************************************************************************)
(* The reference-update core of vost: immutable snapshots (Fs) of branches *)
(* and tags, and every operation that moves a reference.                   *)
(*                                                                         *)
(* A thread works on one snapshot at a time, through one GitStoreInner     *)
(* (a "handle": one libgit2 repository object and one std::mutex).  Two    *)
(* handles stand for two processes, or two GitStore::open of the same      *)
(* repository in one process.  They share the object database, the         *)
(* references with their reflogs, and the advisory lock file vost.lock.    *)
(*                                                                         *)
(* Every git_reference_* call is one atomic step, because libgit2 does it  *)
(* under its own per-reference lock file; what happens between two such    *)
(* calls is up to the scheduler, except for what the locks exclude.        *)
(***************************************************************************)
EXTENDS Naturals, Sequences, FiniteSets

CONSTANTS
    Thread,      \* threads of all the processes using the repository
    Handle,      \* GitStoreInner objects
    HandleOf,    \* the handle each thread works through
    Branch, Tag, \* names under refs/heads/ and under refs/tags/
    InitBranch,  \* the branch GitStore::open creates
    Path, Data,  \* what trees map, and to what
    Changes,     \* for each thread, the changes it may ask to commit
    Message,     \* classes of user commit messages, see UserMessage
    Ops,         \* the operations the threads use
    MaxCalls,    \* bound: number of calls and crashes
    MaxBack      \* bound: argument n of back, undo and redo

None == 0                       \* no commit: an empty oid, a missing reference
NoThread == "no thread"
NoRef == "no ref"
NoData == "no data"
Ref == Branch \cup Tag

(* The three message prefixes that Fs::redo tells apart.                   *)
UserMessage == {"user", "undo:", "redo:"}
LogMessage == UserMessage \cup {"refdict: set"}

Tree == [Path -> Data \cup {NoData}]
EmptyTree == [p \in Path |-> NoData]
Commit == [parents : Seq(Nat), tree : Tree, msg : UserMessage]

(* An Fs.  Its writable_ flag is TRUE exactly when ref is a branch: the    *)
(* RefDict of the branches is the only source of writable snapshots, and   *)
(* what is derived from a snapshot inherits both.                          *)
Snapshot == [ref : Ref \cup {NoRef}, commit : Nat]
NoFs == [ref |-> NoRef, commit |-> None]
Change == UNION {[P -> Data \cup {NoData}] : P \in SUBSET Path}

LockingOp == {"commit", "undo", "redo"}     \* these take vost.lock
RefDictOp == {"set", "del"}                 \* these take only the mutex
OtherOp == {"empty", "back", "hash", "squash", "merge", "fail", "crash"}

ASSUME HandleAssumption == HandleOf \in [Thread -> Handle]
ASSUME NameAssumption ==
    /\ NoThread \notin Thread
    /\ Branch \cap Tag = {}
    /\ NoRef \notin Ref
    /\ InitBranch \in Branch
ASSUME ChangesAssumption ==
    /\ Changes \in [Thread -> SUBSET Change]
    /\ Message \subseteq UserMessage
ASSUME OpsAssumption == Ops \subseteq LockingOp \cup RefDictOp \cup OtherOp
ASSUME BoundAssumption == MaxCalls \in Nat /\ MaxBack \in Nat

VARIABLES
    commits,    \* the commit objects; a commit's id is its index
    refs,       \* the commit each reference points to, None if it is missing
    reflog,     \* per reference, its reflog, oldest entry first
    repo_lock,  \* the thread holding the flock on vost.lock
    mutex,      \* per handle, the thread holding GitStoreInner::mutex
    fs,         \* per thread, the snapshot it works on
    pc,         \* per thread, where it is in the call it is making
    call,       \* per thread, what that call is to do
    target,     \* per thread, the commit the branch is to move to
    existing,   \* per thread, what the last lookup of the reference found
    res,        \* per thread, the outcome of its last call
    ncalls      \* calls and crashes so far

vars == <<commits, refs, reflog, repo_lock, mutex, fs, pc,
          call, target, existing, res, ncalls>>

CommitId == 1 .. Len(commits)

Call == [op : {"none"} \cup LockingOp \cup RefDictOp, ref : Ref \cup {NoRef},
         change : Change, msg : UserMessage, extra : Seq(Nat)]

MakeCall(op, ref, change, msg, extra) ==
    [op |-> op, ref |-> ref, change |-> change, msg |-> msg, extra |-> extra]

NoCall == MakeCall("none", NoRef, EmptyTree, "user", <<>>)

LogEntry == [old : Nat, new : Nat, msg : LogMessage]

LockPc == {"check", "build", "lookup", "update", "unlock"}
CheckedPc == {"build", "lookup", "update"}
MutexPc == CheckedPc \cup {"set", "del"}

Result == {"none", "ok", "stale", "timeout", "GitError", "NotFound",
           "KeyNotFound", "KeyExists", "Permission"}

(***************************************************************************)
(* GitStore::open on a new path: the branch exists, on a commit without    *)
(* parents whose tree is empty.                                            *)
(***************************************************************************)
Init ==
    /\ commits = <<[parents |-> <<>>, tree |-> EmptyTree, msg |-> "user"]>>
    /\ refs = [r \in Ref |-> IF r = InitBranch THEN 1 ELSE None]
    /\ reflog = [r \in Ref |-> IF r = InitBranch
                               THEN <<[old |-> None, new |-> 1, msg |-> "user"]>>
                               ELSE <<>>]
    /\ repo_lock = NoThread
    /\ mutex = [h \in Handle |-> NoThread]
    /\ fs = [t \in Thread |-> NoFs]
    /\ pc = [t \in Thread |-> "idle"]
    /\ call = [t \in Thread |-> NoCall]
    /\ target = [t \in Thread |-> None]
    /\ existing = [t \in Thread |-> None]
    /\ res = [t \in Thread |-> "none"]
    /\ ncalls = 0

-----------------------------------------------------------------------------
(* Reading the object database.                                            *)

FirstParent(c) == IF commits[c].parents = <<>> THEN None ELSE Head(commits[c].parents)

TreeOf(c) == IF c = None THEN EmptyTree ELSE commits[c].tree

(* The commit n first-parent links behind c, None when history is shorter. *)
NthParent(c, n) ==
    LET walk[i \in 0 .. n] ==
          IF i = 0 THEN c
          ELSE IF walk[i-1] = None THEN None ELSE FirstParent(walk[i-1])
    IN walk[n]

(* Mistaken: the oldest entry first.                                       *)
RedoScanOldestFirst(log, c, n) ==
    LET scan[i \in 0 .. Len(log)] ==
          IF i = 0 THEN [cur |-> c, found |-> 0]
          ELSE LET seen == scan[i-1]
                   e == log[i]
               IN IF /\ seen.found < n
                     /\ e.msg \in {"undo:", "redo:"}
                     /\ e.new = seen.cur
                     /\ e.old # None
                  THEN [cur |-> e.old, found |-> seen.found + 1]
                  ELSE seen
    IN scan[Len(log)]

(* Fs::redo's pass over the reflog, newest entry first: follow the entries *)
(* left by undo and redo from the snapshot's commit to the commit each of  *)
(* them came from, at most n of them.                                      *)
RedoScan(log, c, n) ==
    LET scan[i \in 0 .. Len(log)] ==
          IF i = 0 THEN [cur |-> c, found |-> 0]
          ELSE LET seen == scan[i-1]
                   e == log[Len(log) + 1 - i]
               IN IF /\ seen.found < n
                     /\ e.msg \in {"undo:", "redo:"}
                     /\ e.new = seen.cur
                     /\ e.old # None
                  THEN [cur |-> e.old, found |-> seen.found + 1]
                  ELSE seen
    IN scan[Len(log)]

(* The tree a change produces from a snapshot's tree.                      *)
RebuildTree(base, change) ==
    [p \in Path |-> IF p \in DOMAIN change THEN change[p] ELSE base[p]]

(***************************************************************************)
(* Object ids are content hashes: writing a commit equal to an existing    *)
(* one within the same second gives the same id, otherwise a new one.      *)
(***************************************************************************)
WriteCommit(c) ==
    {id \in CommitId : commits[id] = c} \cup {Len(commits) + 1}

Stored(id, c) == IF id \in CommitId THEN commits ELSE Append(commits, c)

-----------------------------------------------------------------------------
(* Pieces that several operations share.                                   *)

MutexFree(t) == mutex[HandleOf[t]] = NoThread

LockMutex(t) == mutex' = [mutex EXCEPT ![HandleOf[t]] = t]

UnlockMutex(t) == mutex' = [mutex EXCEPT ![HandleOf[t]] = NoThread]

HasFs(t) == fs[t].commit # None \/ fs[t].ref # NoRef

Writable(t) == fs[t].ref \in Branch

Start(t) ==
    /\ pc[t] = "idle"
    /\ ncalls < MaxCalls
    /\ ncalls' = ncalls + 1

Goto(t, l) == pc' = [pc EXCEPT ![t] = l]

(* The call ends here with outcome r, holding nothing.                     *)
Return(t, r) ==
    /\ pc' = [pc EXCEPT ![t] = "idle"]
    /\ call' = [call EXCEPT ![t] = NoCall]
    /\ target' = [target EXCEPT ![t] = None]
    /\ existing' = [existing EXCEPT ![t] = None]
    /\ res' = [res EXCEPT ![t] = r]

(* The critical section of with_repo_lock is left, normally or by an       *)
(* exception: lock_guard has released the mutex, FlockGuard is to release  *)
(* vost.lock.                                                              *)
Leave(t, r) ==
    /\ pc' = [pc EXCEPT ![t] = "unlock"]
    /\ call' = [call EXCEPT ![t] = NoCall]
    /\ target' = [target EXCEPT ![t] = None]
    /\ existing' = [existing EXCEPT ![t] = None]
    /\ res' = [res EXCEPT ![t] = r]

(* libgit2 moves reference r to commit c and logs it.  Writing the value   *)
(* that is already there changes nothing and logs nothing.                 *)
WriteRef(r, c, m) ==
    /\ refs' = [refs EXCEPT ![r] = c]
    /\ reflog' = IF refs[r] = c THEN reflog
                 ELSE [reflog EXCEPT ![r] =
                         Append(@, [old |-> refs[r], new |-> c, msg |-> m])]

-----------------------------------------------------------------------------
(* Obtaining a snapshot.  Each is one section under the mutex.             *)

RefDictGet(t, r) ==
    /\ pc[t] = "idle" /\ MutexFree(t)
    /\ IF refs[r] = None
       THEN fs' = fs /\ Return(t, "KeyNotFound")
       ELSE /\ fs' = [fs EXCEPT ![t] =
                        [ref |-> r, commit |-> refs[r]]]
            /\ Return(t, "ok")
    /\ UNCHANGED <<commits, refs, reflog, repo_lock, mutex, ncalls>>

(* GitStore::fs of a commit hash: a detached, read-only snapshot.          *)
FsOfHash(t, c) ==
    /\ "hash" \in Ops
    /\ pc[t] = "idle" /\ MutexFree(t)
    /\ fs' = [fs EXCEPT ![t] = [ref |-> NoRef, commit |-> c]]
    /\ Return(t, "ok")
    /\ UNCHANGED <<commits, refs, reflog, repo_lock, mutex, ncalls>>

FsEmpty(t, b) ==
    /\ "empty" \in Ops
    /\ pc[t] = "idle"
    /\ fs' = [fs EXCEPT ![t] = [ref |-> b, commit |-> None]]
    /\ Return(t, "ok")
    /\ UNCHANGED <<commits, refs, reflog, repo_lock, mutex, ncalls>>

(* Fs::back, and Fs::parent for n = 1: same branch, still writable.        *)
FsBack(t, n) ==
    /\ "back" \in Ops
    /\ pc[t] = "idle" /\ MutexFree(t) /\ HasFs(t)
    /\ LET c == NthParent(fs[t].commit, n)
       IN IF c \in CommitId
          THEN fs' = [fs EXCEPT ![t] = [ref |-> fs[t].ref, commit |-> c]] /\ Return(t, "ok")
          ELSE fs' = fs /\ Return(t, "NotFound")
    /\ UNCHANGED <<commits, refs, reflog, repo_lock, mutex, ncalls>>

(* Fs::squash: a commit of the snapshot's tree on a given parent, or on    *)
(* none, that no reference points to.                                      *)
FsSquash(t, parents) ==
    /\ "squash" \in Ops
    /\ Start(t) /\ MutexFree(t) /\ fs[t].commit # None
    /\ LET c == [parents |-> parents, tree |-> TreeOf(fs[t].commit), msg |-> "user"]
       IN \E id \in WriteCommit(c) :
            /\ commits' = Stored(id, c)
            /\ fs' = [fs EXCEPT ![t] = [ref |-> NoRef, commit |-> id]]
    /\ Return(t, "ok")
    /\ UNCHANGED <<refs, reflog, repo_lock, mutex>>

-----------------------------------------------------------------------------
(* Calls that move the snapshot's branch.  Undo and redo find their target *)
(* under the mutex before they ask for vost.lock.                          *)

(* require_writable: the snapshot is of a tag, or detached.                *)
RequireWritable(t) ==
    /\ LockingOp \cap Ops # {}
    /\ Start(t) /\ HasFs(t) /\ ~Writable(t)
    /\ Return(t, "Permission")
    /\ UNCHANGED <<commits, refs, reflog, repo_lock, mutex, fs>>

(* The entry of Fs::commit_changes: every write, remove, move, rename,     *)
(* copy, sync and batch of a snapshot ends in it.                          *)
CommitChanges(t, change, m, extra) ==
    /\ "commit" \in Ops
    /\ Start(t) /\ Writable(t)
    /\ Goto(t, "flock")
    /\ call' = [call EXCEPT ![t] =
                  MakeCall("commit", fs[t].ref, change, m, extra)]
    /\ UNCHANGED <<commits, refs, reflog, repo_lock, mutex, fs, target, existing, res>>

Undo(t, n) ==
    /\ "undo" \in Ops
    /\ Start(t) /\ Writable(t) /\ MutexFree(t)
    /\ LET c == NthParent(fs[t].commit, n)
       IN IF c \in CommitId
          THEN /\ Goto(t, "flock")
               /\ call' = [call EXCEPT ![t] =
                             MakeCall("undo", fs[t].ref, EmptyTree, "undo:", <<>>)]
               /\ target' = [target EXCEPT ![t] = c]
               /\ UNCHANGED <<existing, res>>
          ELSE Return(t, "NotFound")
    /\ UNCHANGED <<commits, refs, reflog, repo_lock, mutex, fs>>

Redo(t, n) ==
    /\ "redo" \in Ops
    /\ Start(t) /\ Writable(t) /\ MutexFree(t)
    /\ LET scan == RedoScan(reflog[fs[t].ref], fs[t].commit, n)
       IN IF scan.found = n /\ scan.cur \in CommitId
          THEN /\ Goto(t, "flock")
               /\ call' = [call EXCEPT ![t] =
                             MakeCall("redo", fs[t].ref, EmptyTree, "redo:", <<>>)]
               /\ target' = [target EXCEPT ![t] = scan.cur]
               /\ UNCHANGED <<existing, res>>
          ELSE Return(t, "NotFound")
    /\ UNCHANGED <<commits, refs, reflog, repo_lock, mutex, fs>>

-----------------------------------------------------------------------------
(* The locked part of commit_changes, undo and redo has one shape: the     *)
(* stale check, for a commit the making of it, a second lookup of the      *)
(* branch, and the update.  The actions below stand for all three.         *)

(* with_repo_lock: poll flock(LOCK_NB) until it is free or 30 seconds have *)
(* passed.  The deadline is checked only after a failed attempt.           *)

AcquireRepoLock(t) ==
    /\ pc[t] = "flock"
    /\ repo_lock = NoThread
    /\ repo_lock' = t
    /\ Goto(t, "check")
    /\ UNCHANGED <<commits, refs, reflog, mutex, fs, call, target, existing, res, ncalls>>

TimeOutRepoLock(t) ==
    /\ pc[t] = "flock"
    /\ repo_lock # NoThread
    /\ Return(t, "timeout")
    /\ UNCHANGED <<commits, refs, reflog, repo_lock, mutex, fs, ncalls>>

(* Mistaken: the branch is not compared with the snapshot's commit.        *)
NoStaleCheck(t) ==
    /\ pc[t] = "check" /\ MutexFree(t)
    /\ LockMutex(t)
    /\ Goto(t, IF call[t].op = "commit" THEN "build" ELSE "lookup")
    /\ UNCHANGED <<commits, refs, reflog, repo_lock, fs, call, target, existing, res, ncalls>>

(* Take the mutex and compare the branch with the snapshot's commit.  A    *)
(* branch that is missing passes.                                          *)
StaleCheck(t) ==
    /\ pc[t] = "check" /\ MutexFree(t)
    /\ IF refs[call[t].ref] \in {None, fs[t].commit}
       THEN /\ LockMutex(t)
            /\ Goto(t, IF call[t].op = "commit" THEN "build" ELSE "lookup")
            /\ UNCHANGED <<call, target, existing, res>>
       ELSE mutex' = mutex /\ Leave(t, "stale")
    /\ UNCHANGED <<commits, refs, reflog, repo_lock, fs, ncalls>>

(* Mistaken: the id of a commit that has not been stored.                  *)
BuildWithoutStoring(t) ==
    /\ pc[t] = "build"
    /\ target' = [target EXCEPT ![t] = Len(commits) + 1]
    /\ Goto(t, "lookup")
    /\ UNCHANGED <<commits, refs, reflog, repo_lock, mutex, fs, call, existing, res, ncalls>>

(* Mistaken: the caller's extra parents come first.                        *)
BuildExtraFirst(t) ==
    /\ pc[t] = "build"
    /\ LET c == [parents |-> call[t].extra \o
                             (IF fs[t].commit = None THEN <<>> ELSE <<fs[t].commit>>),
                 tree |-> RebuildTree(TreeOf(fs[t].commit), call[t].change),
                 msg |-> call[t].msg]
       IN \E id \in WriteCommit(c) :
            /\ commits' = Stored(id, c)
            /\ target' = [target EXCEPT ![t] = id]
    /\ Goto(t, "lookup")
    /\ UNCHANGED <<refs, reflog, repo_lock, mutex, fs, call, existing, res, ncalls>>

(* rebuild_tree on the snapshot's tree, then write_commit on the           *)
(* snapshot's commit and the caller's extra parents.                       *)
BuildCommit(t) ==
    /\ pc[t] = "build"
    /\ LET c == [parents |-> (IF fs[t].commit = None THEN <<>> ELSE <<fs[t].commit>>)
                             \o call[t].extra,
                 tree |-> RebuildTree(TreeOf(fs[t].commit), call[t].change),
                 msg |-> call[t].msg]
       IN \E id \in WriteCommit(c) :
            /\ commits' = Stored(id, c)
            /\ target' = [target EXCEPT ![t] = id]
    /\ Goto(t, "lookup")
    /\ UNCHANGED <<refs, reflog, repo_lock, mutex, fs, call, existing, res, ncalls>>

(* The second lookup of the branch.  A commit of an empty snapshot skips   *)
(* it and creates the branch; undo and redo of a missing branch fail.      *)
LookupRef(t) ==
    /\ pc[t] = "lookup"
    /\ LET found == IF call[t].op = "commit" /\ fs[t].commit = None
                    THEN None ELSE refs[call[t].ref]
       IN IF found = None /\ call[t].op # "commit"
          THEN UnlockMutex(t) /\ Leave(t, "GitError")
          ELSE /\ existing' = [existing EXCEPT ![t] = found]
               /\ Goto(t, "update")
               /\ UNCHANGED <<mutex, call, target, res>>
    /\ UNCHANGED <<commits, refs, reflog, repo_lock, fs, ncalls>>

(* git_reference_set_target swaps against the value the second lookup      *)
(* found; git_reference_create without force, against a missing one.       *)
UpdateRef(t) ==
    /\ pc[t] = "update"
    /\ UnlockMutex(t)
    /\ IF refs[call[t].ref] = existing[t]
       THEN /\ WriteRef(call[t].ref, target[t], call[t].msg)
            /\ fs' = [fs EXCEPT ![t] = [ref |-> fs[t].ref, commit |-> target[t]]]
            /\ Leave(t, "ok")
       ELSE Leave(t, "GitError") /\ UNCHANGED <<refs, reflog, fs>>
    /\ UNCHANGED <<commits, repo_lock, ncalls>>

(* Mistaken: an exception leaves the mutex locked.                         *)
GitFailureKeepsMutex(t) ==
    /\ "fail" \in Ops
    /\ pc[t] \in CheckedPc
    /\ Leave(t, "GitError")
    /\ UNCHANGED <<commits, refs, reflog, repo_lock, mutex, fs, ncalls>>

(* A libgit2 call inside the critical section fails (no space, a corrupt   *)
(* object, a reference lock file in the way) and throws.                   *)
GitFailure(t) ==
    /\ "fail" \in Ops
    /\ pc[t] \in CheckedPc
    /\ UnlockMutex(t)
    /\ Leave(t, "GitError")
    /\ UNCHANGED <<commits, refs, reflog, repo_lock, fs, ncalls>>

ReleaseRepoLock(t) ==
    /\ pc[t] = "unlock"
    /\ repo_lock' = NoThread
    /\ Goto(t, "idle")
    /\ UNCHANGED <<commits, refs, reflog, mutex, fs, call, target, existing, res, ncalls>>

-----------------------------------------------------------------------------
(* RefDict::set and RefDict::del: under the mutex, without vost.lock.      *)

(* Mistaken: an existing tag is not refused.                               *)
RefDictSetAnyway(t, r) ==
    /\ "set" \in Ops
    /\ Start(t) /\ MutexFree(t) /\ fs[t].commit # None
    /\ LockMutex(t)
    /\ Goto(t, "set")
    /\ call' = [call EXCEPT ![t] = MakeCall("set", r, EmptyTree, "user", <<>>)]
    /\ UNCHANGED <<commits, refs, reflog, repo_lock, fs, target, existing, res>>

RefDictSet(t, r) ==
    /\ "set" \in Ops
    /\ Start(t) /\ MutexFree(t) /\ fs[t].commit # None
    /\ IF r \in Tag /\ refs[r] # None
       THEN mutex' = mutex /\ Return(t, "KeyExists")
       ELSE /\ LockMutex(t)
            /\ Goto(t, "set")
            /\ call' = [call EXCEPT ![t] = MakeCall("set", r, EmptyTree, "user", <<>>)]
            /\ UNCHANGED <<target, existing, res>>
    /\ UNCHANGED <<commits, refs, reflog, repo_lock, fs>>

(* git_reference_create with force, whatever is there by now.              *)
RefDictCreate(t) ==
    /\ pc[t] = "set"
    /\ UnlockMutex(t)
    /\ WriteRef(call[t].ref, fs[t].commit, "refdict: set")
    /\ Return(t, "ok")
    /\ UNCHANGED <<commits, repo_lock, fs, ncalls>>

RefDictDel(t, r) ==
    /\ "del" \in Ops
    /\ Start(t) /\ MutexFree(t)
    /\ IF refs[r] = None
       THEN mutex' = mutex /\ Return(t, "KeyNotFound")
       ELSE /\ LockMutex(t)
            /\ Goto(t, "del")
            /\ call' = [call EXCEPT ![t] = MakeCall("del", r, EmptyTree, "user", <<>>)]
            /\ existing' = [existing EXCEPT ![t] = refs[r]]
            /\ UNCHANGED <<target, res>>
    /\ UNCHANGED <<commits, refs, reflog, repo_lock, fs>>

(* Mistaken: the reflog outlives its reference.                            *)
RefDictDeleteKeepsLog(t) ==
    /\ pc[t] = "del"
    /\ UnlockMutex(t)
    /\ IF refs[call[t].ref] = existing[t]
       THEN refs' = [refs EXCEPT ![call[t].ref] = None] /\ Return(t, "ok")
       ELSE Return(t, "GitError") /\ refs' = refs
    /\ UNCHANGED <<commits, reflog, repo_lock, fs, ncalls>>

(* git_reference_delete: only if the reference still has the value that    *)
(* was looked up; its reflog goes with it.                                 *)
RefDictDelete(t) ==
    /\ pc[t] = "del"
    /\ UnlockMutex(t)
    /\ IF refs[call[t].ref] = existing[t]
       THEN /\ refs' = [refs EXCEPT ![call[t].ref] = None]
            /\ reflog' = [reflog EXCEPT ![call[t].ref] = <<>>]
            /\ Return(t, "ok")
       ELSE Return(t, "GitError") /\ UNCHANGED <<refs, reflog>>
    /\ UNCHANGED <<commits, repo_lock, fs, ncalls>>

-----------------------------------------------------------------------------
(* The process of handle h dies: its threads vanish, the kernel drops its  *)
(* flock, and what is on disk stays.                                       *)
Crash(h) ==
    /\ "crash" \in Ops
    /\ ncalls < MaxCalls
    /\ ncalls' = ncalls + 1
    /\ \E t \in Thread : HandleOf[t] = h /\ pc[t] # "idle"
    /\ mutex' = [mutex EXCEPT ![h] = NoThread]
    /\ repo_lock' = IF repo_lock \in Thread /\ HandleOf[repo_lock] = h
                    THEN NoThread ELSE repo_lock
    /\ fs' = [t \in Thread |-> IF HandleOf[t] = h THEN NoFs ELSE fs[t]]
    /\ pc' = [t \in Thread |-> IF HandleOf[t] = h THEN "idle" ELSE pc[t]]
    /\ call' = [t \in Thread |-> IF HandleOf[t] = h THEN NoCall ELSE call[t]]
    /\ target' = [t \in Thread |-> IF HandleOf[t] = h THEN None ELSE target[t]]
    /\ existing' = [t \in Thread |-> IF HandleOf[t] = h THEN None ELSE existing[t]]
    /\ res' = [t \in Thread |-> IF HandleOf[t] = h THEN "none" ELSE res[t]]
    /\ UNCHANGED <<commits, refs, reflog>>

-----------------------------------------------------------------------------
ExtraParents == {<<>>} \cup (IF "merge" \in Ops THEN {<<c>> : c \in CommitId} ELSE {})

Snapshots(t) ==
    \/ \E r \in Ref : RefDictGet(t, r)
    \/ \E c \in CommitId : FsOfHash(t, c)
    \/ \E b \in Branch : FsEmpty(t, b)
    \/ \E n \in 1 .. MaxBack : FsBack(t, n)
    \/ \E parents \in {<<>>} \cup {<<c>> : c \in CommitId} : FsSquash(t, parents)

Calls(t) ==
    \/ RequireWritable(t)
    \/ \E change \in Changes[t], m \in Message, extra \in ExtraParents :
           CommitChanges(t, change, m, extra)
    \/ \E n \in 1 .. MaxBack : Undo(t, n)
    \/ \E n \in 1 .. MaxBack : Redo(t, n)
    \/ \E r \in Ref : RefDictSet(t, r)
    \/ \E r \in Ref : RefDictDel(t, r)

(* What a thread does on its own once it has made a call.                  *)
Proceed(t) ==
    \/ AcquireRepoLock(t)
    \/ TimeOutRepoLock(t)
    \/ StaleCheck(t)
    \/ BuildCommit(t)
    \/ LookupRef(t)
    \/ UpdateRef(t)
    \/ ReleaseRepoLock(t)
    \/ RefDictCreate(t)
    \/ RefDictDelete(t)

(* Every call has returned and no further one is made.                     *)
Finished ==
    /\ ncalls = MaxCalls
    /\ \A t \in Thread : pc[t] = "idle"
    /\ UNCHANGED vars

Next ==
    \/ \E t \in Thread : Snapshots(t) \/ Calls(t) \/ Proceed(t) \/ GitFailure(t)
    \/ \E h \in Handle : Crash(h)
    \/ Finished

Spec == Init /\ [][Next]_vars

(* The operating system runs every thread that can run.                    *)
FairSpec == Spec /\ \A t \in Thread : WF_vars(Proceed(t))

-----------------------------------------------------------------------------
(* Type invariant.  References and snapshots only ever name commits that   *)
(* are stored, so a crash leaves no dangling reference behind.             *)
TypeOK ==
    /\ commits \in Seq(Commit)
    /\ refs \in [Ref -> 0 .. Len(commits)]
    /\ reflog \in [Ref -> Seq(LogEntry)]
    /\ repo_lock \in Thread \cup {NoThread}
    /\ mutex \in [Handle -> Thread \cup {NoThread}]
    /\ fs \in [Thread -> Snapshot]
    /\ \A t \in Thread : fs[t].commit \in 0 .. Len(commits)
    /\ pc \in [Thread -> {"idle", "flock"} \cup LockPc \cup MutexPc]
    /\ call \in [Thread -> Call]
    /\ target \in [Thread -> 0 .. Len(commits)]
    /\ existing \in [Thread -> 0 .. Len(commits)]
    /\ res \in [Thread -> Result]
    /\ ncalls \in 0 .. MaxCalls

(* What the locals of a call under way stand for.                          *)
CallOK ==
    \A t \in Thread :
        /\ pc[t] \in {"flock", "check"} \cup CheckedPc =>
              /\ call[t].op \in LockingOp
              /\ call[t].ref \in Branch /\ call[t].ref = fs[t].ref
              /\ call[t].op # "commit" => target[t] # None
              /\ call[t].op # "commit" => call[t].msg # "user"
        /\ pc[t] = "build" => call[t].op = "commit"
        /\ pc[t] \in {"lookup", "update"} => target[t] # None
        /\ pc[t] \in {"set", "del"} => pc[t] \in Ops /\ call[t].ref \in Ref
        /\ pc[t] = "set" => fs[t].commit # None

(* What a commit is about to move its branch to is a child of the commit   *)
(* of its snapshot, and everything a reflog mentions is stored.            *)
BuiltOnSnapshot ==
    /\ \A t \in Thread :
          /\ pc[t] \in {"lookup", "update"}
          /\ call[t].op = "commit"
          /\ fs[t].commit # None
          => FirstParent(target[t]) = fs[t].commit
    /\ \A r \in Ref : \A i \in 1 .. Len(reflog[r]) : reflog[r][i].new \in CommitId

(* Exactly the thread inside with_repo_lock holds vost.lock, and exactly   *)
(* the threads inside a lock_guard hold their handle's mutex: no path out  *)
(* of a critical section, by return, exception or crash, leaks a lock or   *)
(* drops one early.                                                        *)
LockOwnership ==
    \A t \in Thread :
        /\ pc[t] \in LockPc <=> repo_lock = t
        /\ pc[t] \in MutexPc <=> mutex[HandleOf[t]] = t

(* RefDict::set and RefDict::del take no part in the vost.lock protocol:   *)
(* nobody uses them, or the one mutex everybody shares makes up for it.    *)
Serialized ==
    \/ Ops \cap RefDictOp = {}
    \/ \A t, u \in Thread : HandleOf[t] = HandleOf[u]

(* "The stale-snapshot check and ref update [are] atomic": from the check  *)
(* to the update the branch keeps the value the check accepted, so the     *)
(* update replaces the snapshot's own commit (or creates the branch) and   *)
(* libgit2's comparison with the value of the second lookup cannot fail.   *)
CheckStillValid ==
    \A t \in Thread :
        LET tip == refs[call[t].ref]
        IN /\ pc[t] \in CheckedPc => tip \in {None, fs[t].commit}
           /\ pc[t] = "update" => tip = existing[t]

(* A commit, undo or redo that reports success moved the branch away from  *)
(* the very commit its snapshot was taken at, or from no commit at all.    *)
SwapFromSnapshot ==
    [][\A t \in Thread :
          pc[t] = "update" /\ pc'[t] = "unlock" /\ res'[t] = "ok"
              => refs[call[t].ref] \in {None, fs[t].commit}]_vars

(* Every plain commit entry in the reflog of a branch records a child of   *)
(* the commit it replaced: nobody's commit was dropped by it.              *)
ReflogExtends ==
    \A b \in Branch : \A i \in 1 .. Len(reflog[b]) :
        LET e == reflog[b][i]
        IN e.msg = "user" /\ e.old # None => FirstParent(e.new) = e.old

(* The reflog is an unbroken chain that ends at the branch's tip; Fs::redo *)
(* relies on it to retrace undos.                                          *)
ReflogChain ==
    \A b \in Branch :
        LET log == reflog[b]
        IN /\ log = <<>> <=> refs[b] = None
           /\ log # <<>> => log[Len(log)].new = refs[b]
           /\ \A i \in 1 .. Len(log) - 1 : log[i+1].old = log[i].new

(* A tag never moves: RefDict::set refuses an existing tag, only a delete  *)
(* removes one.                                                            *)
TagsNeverMove ==
    [][\A g \in Tag : refs[g] # None => refs'[g] \in {None, refs[g]}]_vars

(* Redo retraces undo: when the last k movements of a branch are undos, a  *)
(* redo of k from its tip leads to the commit before the first of them.    *)
RedoRetracesUndo ==
    \A b \in Branch :
        LET log == reflog[b]
        IN \A k \in 1 .. Len(log) :
              (\A i \in Len(log) + 1 - k .. Len(log) : log[i].msg = "undo:")
                 => RedoScan(log, refs[b], k)
                      = [cur |-> log[Len(log) + 1 - k].old, found |-> k]

(* Every call returns, with a result or an exception: the lock order       *)
(* (vost.lock, then the mutex) has no cycle, the wait for vost.lock is     *)
(* bounded, and every way out of the critical section unlocks.             *)
CallsReturn == \A t \in Thread : pc[t] # "idle" ~> pc[t] = "idle"
=============================================================================
