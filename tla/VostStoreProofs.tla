--------------------------- MODULE VostStoreProofs ---------------------------
(* Theorems about VostStore, for any number of threads, handles, branches, *)
(* tags and calls: references and the lock, the histories in the reflogs,  *)
(* undo and redo, that VostStore implements SnapshotStore, and logs.       *)
EXTENDS VostRefinement, VostLog, VostInduction, TLAPS

(* Nothing below needs to look inside the walk along parents or the scan   *)
(* of the reflog: what they return is used only if it is a stored commit.  *)

-----------------------------------------------------------------------------
(* Typing of the data the actions build.                                   *)

(* The locals of a thread that makes no call.                              *)
LEMMA NoCallType == NoCall \in Call
<1>1. EmptyTree \in [Path -> Data \cup {NoData}]
  BY DEF EmptyTree
<1>2. EmptyTree \in Change
  BY <1>1 DEF Change
<1>3. <<>> \in Seq(Nat)
  OBVIOUS
<1>4. QED
  BY <1>2, <1>3 DEF NoCall, MakeCall, Call, UserMessage

(* Applying a change to a tree gives a tree (rebuild_tree).                *)
LEMMA RebuildTreeType ==
    ASSUME NEW base \in Tree, NEW change \in Change
    PROVE  RebuildTree(base, change) \in Tree
<1>1. PICK P \in SUBSET Path : change \in [P -> Data \cup {NoData}]
  BY DEF Change
<1>2. DOMAIN change = P
  BY <1>1
<1>3. \A p \in P : change[p] \in Data \cup {NoData}
  BY <1>1
<1>4. \A p \in Path : base[p] \in Data \cup {NoData}
  BY DEF Tree
<1>5. QED
  BY <1>2, <1>3, <1>4 DEF RebuildTree, Tree

(* A snapshot's tree is a tree, also when the snapshot has no commit.      *)
LEMMA TreeOfType ==
    ASSUME commits \in Seq(Commit), NEW c \in 0 .. Len(commits)
    PROVE  TreeOf(c) \in Tree
<1>1. EmptyTree \in Tree
  BY DEF EmptyTree, Tree
<1>2. ASSUME c # None PROVE commits[c] \in Commit
  BY <1>2 DEF None
<1>3. QED
  BY <1>1, <1>2 DEF TreeOf, Commit

(* Storing a commit (write_commit) keeps the stored ones and gives the new *)
(* one an id.                                                              *)
LEMMA StoredType ==
    ASSUME commits \in Seq(Commit), NEW c \in Commit, NEW id \in WriteCommit(c)
    PROVE  /\ Stored(id, c) \in Seq(Commit)
           /\ Len(Stored(id, c)) >= Len(commits)
           /\ id \in 1 .. Len(Stored(id, c))
           /\ \A i \in 1 .. Len(commits) : Stored(id, c)[i] = commits[i]
           /\ Stored(id, c)[id] = c
<1>1. CASE id \in CommitId
  BY <1>1 DEF WriteCommit, Stored, CommitId
<1>2. CASE id \notin CommitId
  <2>1. id = Len(commits) + 1
    BY <1>2 DEF WriteCommit
  <2>2. Stored(id, c) = Append(commits, c)
    BY <1>2 DEF Stored
  <2>3. QED
    BY <2>1, <2>2
<1>3. QED
  BY <1>1, <1>2

-----------------------------------------------------------------------------
(* Type correctness.                                                       *)

(* The store GitStore::open creates is well typed.                         *)
LEMMA InitTypeOK == Init => TypeOK
<1> SUFFICES ASSUME Init PROVE TypeOK
  OBVIOUS
<1>1. EmptyTree \in Tree
  BY DEF EmptyTree, Tree
<1>2. commits \in Seq(Commit) /\ Len(commits) = 1
  BY <1>1 DEF Init, Commit, UserMessage
<1>3. refs \in [Ref -> 0 .. Len(commits)]
  BY <1>2 DEF Init, None
<1>4. reflog \in [Ref -> Seq(LogEntry)]
  <2>1. [old |-> None, new |-> 1, msg |-> "user"] \in LogEntry
    BY DEF None, LogEntry, LogMessage, UserMessage
  <2>2. <<[old |-> None, new |-> 1, msg |-> "user"]>> \in Seq(LogEntry)
    BY <2>1
  <2>3. <<>> \in Seq(LogEntry)
    OBVIOUS
  <2>4. QED
    BY <2>2, <2>3, Zenon DEF Init
<1>5. fs \in [Thread -> Snapshot] /\ \A t \in Thread : fs[t].commit \in 0 .. Len(commits)
  BY <1>2 DEF Init, None, Snapshot, NoFs
<1>6. call \in [Thread -> Call]
  BY NoCallType DEF Init
<1>7. /\ target \in [Thread -> 0 .. Len(commits)]
      /\ existing \in [Thread -> 0 .. Len(commits)]
      /\ ncalls \in 0 .. MaxCalls
  BY <1>2, BoundAssumption DEF Init, None
<1>8. /\ repo_lock \in Thread \cup {NoThread}
      /\ mutex \in [Handle -> Thread \cup {NoThread}]
      /\ pc \in [Thread -> {"idle", "flock"} \cup LockPc \cup MutexPc]
      /\ res \in [Thread -> Result]
  BY DEF Init, Result
<1>9. QED
  BY <1>2, <1>3, <1>4, <1>5, <1>6, <1>7, <1>8 DEF TypeOK

(* The records written to the snapshot of a thread.                        *)
LEMMA SnapshotType ==
    ASSUME NEW r \in Ref \cup {NoRef}, NEW c \in Nat
    PROVE  /\ [ref |-> r, commit |-> c] \in Snapshot
           /\ [ref |-> r, commit |-> c].commit = c
  BY DEF Snapshot

(* A call that does not commit anything of the user's.                     *)
LEMMA PlainCallType ==
    ASSUME NEW op \in LockingOp \cup RefDictOp, NEW r \in Ref, NEW m \in UserMessage
    PROVE  MakeCall(op, r, EmptyTree, m, <<>>) \in Call
<1>1. EmptyTree \in Change
  BY NoCallType DEF NoCall, MakeCall, Call
<1>2. QED
  BY <1>1 DEF MakeCall, Call

(* A call of commit_changes.                                               *)
LEMMA CommitCallType ==
    ASSUME NEW r \in Ref, NEW change \in Change, NEW m \in UserMessage,
           NEW extra \in Seq(Nat)
    PROVE  MakeCall("commit", r, change, m, extra) \in Call
  BY DEF MakeCall, Call, LockingOp

(* Moving a reference to a stored commit and logging it.                   *)
LEMMA WriteRefType ==
    ASSUME TypeOK, NEW r \in Ref, NEW c \in 0 .. Len(commits), NEW m \in LogMessage,
           WriteRef(r, c, m)
    PROVE  /\ refs' \in [Ref -> 0 .. Len(commits)]
           /\ reflog' \in [Ref -> Seq(LogEntry)]
<1>1. refs' \in [Ref -> 0 .. Len(commits)]
  BY DEF TypeOK, WriteRef
<1>2. [old |-> refs[r], new |-> c, msg |-> m] \in LogEntry
  BY DEF TypeOK, LogEntry
<1>3. Append(reflog[r], [old |-> refs[r], new |-> c, msg |-> m]) \in Seq(LogEntry)
  BY <1>2 DEF TypeOK
<1>4. reflog' \in [Ref -> Seq(LogEntry)]
  BY <1>3 DEF TypeOK, WriteRef
<1>5. QED
  BY <1>1, <1>4

(* The end of a call keeps the per-thread variables typed.                 *)
LEMMA ReturnType ==
    ASSUME TypeOK, NEW t \in Thread, NEW r \in Result, Return(t, r) \/ Leave(t, r)
    PROVE  /\ pc' \in [Thread -> {"idle", "flock"} \cup LockPc \cup MutexPc]
           /\ call' \in [Thread -> Call]
           /\ target' \in [Thread -> 0 .. Len(commits)]
           /\ existing' \in [Thread -> 0 .. Len(commits)]
           /\ res' \in [Thread -> Result]
<1>1. None \in 0 .. Len(commits)
  BY DEF TypeOK, None
<1>2. pc' \in [Thread -> {"idle", "flock"} \cup LockPc \cup MutexPc]
  BY DEF TypeOK, Return, Leave, LockPc
<1>3. call' \in [Thread -> Call]
  BY NoCallType DEF TypeOK, Return, Leave
<1>4. /\ target' \in [Thread -> 0 .. Len(commits)]
      /\ existing' \in [Thread -> 0 .. Len(commits)]
  <2>1. /\ target' = [target EXCEPT ![t] = None]
        /\ existing' = [existing EXCEPT ![t] = None]
    BY DEF Return, Leave
  <2>2. target \in [Thread -> 0 .. Len(commits)] /\ existing \in [Thread -> 0 .. Len(commits)]
    BY DEF TypeOK
  <2>3. QED
    BY <1>1, <2>1, <2>2
<1>5. res' \in [Thread -> Result]
  BY DEF TypeOK, Return, Leave
<1>6. QED
  BY <1>2, <1>3, <1>4, <1>5

(* No parent, or one stored parent, is a list of parents.                  *)
LEMMA ParentsType ==
    ASSUME Len(commits) \in Nat, NEW p \in {<<>>} \cup {<<c>> : c \in CommitId}
    PROVE  p \in Seq(Nat)
<1>1. CASE p = <<>>
  BY <1>1
<1>2. ASSUME NEW d \in CommitId, p = <<d>> PROVE p \in Seq(Nat)
  BY <1>2 DEF CommitId
<1>3. QED
  BY <1>1, <1>2

(* What BuildCommit stores is a commit.                                    *)
LEMMA BuiltCommitType ==
    ASSUME TypeOK, NEW t \in Thread
    PROVE  [parents |-> (IF fs[t].commit = None THEN <<>> ELSE <<fs[t].commit>>)
                        \o call[t].extra,
            tree |-> RebuildTree(TreeOf(fs[t].commit), call[t].change),
            msg |-> call[t].msg] \in Commit
<1>1. call[t].extra \in Seq(Nat) /\ call[t].change \in Change /\ call[t].msg \in UserMessage
  BY DEF TypeOK, Call
<1>2. (IF fs[t].commit = None THEN <<>> ELSE <<fs[t].commit>>) \in Seq(Nat)
  <2>1. fs[t].commit \in Nat
    BY DEF TypeOK, Snapshot
  <2>2. <<fs[t].commit>> \in Seq(Nat) /\ <<>> \in Seq(Nat)
    BY <2>1
  <2>3. QED
    BY <2>2
<1>3. (IF fs[t].commit = None THEN <<>> ELSE <<fs[t].commit>>) \o call[t].extra \in Seq(Nat)
  BY <1>1, <1>2
<1>4. RebuildTree(TreeOf(fs[t].commit), call[t].change) \in Tree
  BY <1>1, TreeOfType, RebuildTreeType DEF TypeOK
<1>5. QED
  BY <1>1, <1>3, <1>4 DEF Commit

(* Every step preserves the types; one case per action.                    *)
LEMMA NextTypeOK == TypeOK /\ CallOK /\ [Next]_vars => TypeOK'
<1> SUFFICES ASSUME TypeOK, CallOK, [Next]_vars PROVE TypeOK'
  OBVIOUS
<1>0. Len(commits) \in Nat
  BY DEF TypeOK
<1>1. ASSUME NEW t \in Thread, NEW r \in Ref, RefDictGet(t, r) PROVE TypeOK'
  <2>1. refs[r] \in 0 .. Len(commits)
    BY DEF TypeOK
  <2>2. [ref |-> r, commit |-> refs[r]] \in Snapshot
    BY <2>1, SnapshotType
  <2>3. CASE fs' = fs /\ Return(t, "KeyNotFound")
    BY <1>1, <2>3, ReturnType DEF TypeOK, RefDictGet, Result
  <2>4. CASE fs' = [fs EXCEPT ![t] = [ref |-> r, commit |-> refs[r]]] /\ Return(t, "ok")
    <3>1. \A u \in Thread : fs'[u].commit \in 0 .. Len(commits)
      BY <2>1, <2>4 DEF TypeOK
    <3>2. QED
      BY <1>1, <2>2, <2>4, <3>1, ReturnType DEF TypeOK, RefDictGet, Result
  <2>5. QED
    BY <1>1, <2>3, <2>4 DEF RefDictGet
<1>2. ASSUME NEW t \in Thread, NEW c \in CommitId, FsOfHash(t, c) PROVE TypeOK'
  <2>1. [ref |-> NoRef, commit |-> c] \in Snapshot
    BY <1>0, SnapshotType DEF CommitId
  <2>2. \A u \in Thread : fs'[u].commit \in 0 .. Len(commits)
    BY <1>0, <1>2 DEF TypeOK, FsOfHash, CommitId
  <2>3. QED
    BY <1>2, <2>1, <2>2, ReturnType DEF TypeOK, FsOfHash, Result
<1>3. ASSUME NEW t \in Thread, NEW b \in Branch, FsEmpty(t, b) PROVE TypeOK'
  <2>1. [ref |-> b, commit |-> None] \in Snapshot
    BY SnapshotType DEF None, Ref
  <2>2. \A u \in Thread : fs'[u].commit \in 0 .. Len(commits)
    BY <1>0, <1>3 DEF TypeOK, FsEmpty, None
  <2>3. QED
    BY <1>3, <2>1, <2>2, ReturnType DEF TypeOK, FsEmpty, Result
<1>4. ASSUME NEW t \in Thread, NEW n \in 1 .. MaxBack, FsBack(t, n) PROVE TypeOK'
  <2>1. CASE fs' = fs /\ Return(t, "NotFound")
    BY <1>4, <2>1, ReturnType DEF TypeOK, FsBack, Result
  <2>2. ASSUME NEW c \in CommitId,
               fs' = [fs EXCEPT ![t] = [ref |-> fs[t].ref, commit |-> c]], Return(t, "ok")
        PROVE TypeOK'
    <3>1. [ref |-> fs[t].ref, commit |-> c] \in Snapshot
      BY <1>0, SnapshotType DEF CommitId, TypeOK, Snapshot
    <3>2. \A u \in Thread : fs'[u].commit \in 0 .. Len(commits)
      BY <1>0, <2>2 DEF TypeOK, CommitId
    <3>3. QED
      BY <1>4, <2>2, <3>1, <3>2, ReturnType DEF TypeOK, FsBack, Result
  <2>3. QED
    BY <1>4, <2>1, <2>2, Zenon DEF FsBack
<1>5. ASSUME NEW t \in Thread, NEW p \in {<<>>} \cup {<<c>> : c \in CommitId}, FsSquash(t, p)
      PROVE TypeOK'
  <2> DEFINE c == [parents |-> p, tree |-> TreeOf(fs[t].commit), msg |-> "user"]
  <2>1. c \in Commit
    <3>1. p \in Seq(Nat)
      BY <1>0, ParentsType
    <3>2. TreeOf(fs[t].commit) \in Tree
      BY TreeOfType DEF TypeOK
    <3>3. QED
      BY <3>1, <3>2 DEF Commit, UserMessage
  <2>2. PICK id \in WriteCommit(c) :
            /\ commits' = Stored(id, c)
            /\ fs' = [fs EXCEPT ![t] = [ref |-> NoRef, commit |-> id]]
    BY <1>5 DEF FsSquash
  <2> HIDE DEF c
  <2>3. /\ commits' \in Seq(Commit)
        /\ Len(commits') \in Nat /\ Len(commits') >= Len(commits)
        /\ id \in 1 .. Len(commits')
    BY <2>1, <2>2, StoredType DEF TypeOK
  <2>4. [ref |-> NoRef, commit |-> id] \in Snapshot
    BY <2>3, SnapshotType
  <2>5. /\ fs' \in [Thread -> Snapshot]
        /\ \A u \in Thread : fs'[u].commit \in 0 .. Len(commits')
    BY <1>0, <2>2, <2>3, <2>4 DEF TypeOK
  <2>6. \A i \in 0 .. Len(commits) : i \in 0 .. Len(commits')
    BY <1>0, <2>3
  <2>7. /\ pc' \in [Thread -> {"idle", "flock"} \cup LockPc \cup MutexPc]
        /\ call' \in [Thread -> Call]
        /\ target' \in [Thread -> 0 .. Len(commits)]
        /\ existing' \in [Thread -> 0 .. Len(commits)]
        /\ res' \in [Thread -> Result]
    BY <1>5, ReturnType DEF FsSquash, Result
  <2>8. /\ target' \in [Thread -> 0 .. Len(commits')]
        /\ existing' \in [Thread -> 0 .. Len(commits')]
    BY <2>6, <2>7
  <2>9. refs' \in [Ref -> 0 .. Len(commits')]
    BY <1>5, <2>6 DEF TypeOK, FsSquash
  <2>10. ncalls' \in 0 .. MaxCalls
    BY <1>5, BoundAssumption DEF TypeOK, FsSquash, Start
  <2>11. QED
    BY <1>5, <2>3, <2>5, <2>7, <2>8, <2>9, <2>10 DEF TypeOK, FsSquash
<1>6. ASSUME NEW t \in Thread, RequireWritable(t) PROVE TypeOK'
  <2>1. ncalls' \in 0 .. MaxCalls
    BY <1>6, BoundAssumption DEF TypeOK, RequireWritable, Start
  <2>2. QED
    BY <1>6, <2>1, ReturnType DEF TypeOK, RequireWritable, Result
<1>7. ASSUME NEW t \in Thread, NEW change \in Changes[t], NEW m \in Message,
             NEW extra \in ExtraParents, CommitChanges(t, change, m, extra)
      PROVE TypeOK'
  <2>1. extra \in Seq(Nat)
    BY <1>0, ParentsType DEF ExtraParents
  <2>2. fs[t].ref \in Ref /\ change \in Change /\ m \in UserMessage
    BY <1>7, ChangesAssumption DEF CommitChanges, Writable, Ref
  <2>3. MakeCall("commit", fs[t].ref, change, m, extra) \in Call
    BY <2>1, <2>2, CommitCallType
  <2>4. ncalls' \in 0 .. MaxCalls
    BY <1>7, BoundAssumption DEF TypeOK, CommitChanges, Start
  <2>5. QED
    BY <1>7, <2>3, <2>4 DEF TypeOK, CommitChanges, Goto
<1>8. ASSUME NEW t \in Thread, NEW n \in 1 .. MaxBack, Undo(t, n) PROVE TypeOK'
  <2>1. ncalls' \in 0 .. MaxCalls
    BY <1>8, BoundAssumption DEF TypeOK, Undo, Start
  <2>2. CASE Return(t, "NotFound")
    BY <1>8, <2>1, <2>2, ReturnType DEF TypeOK, Undo, Result
  <2>3. ASSUME NEW c \in CommitId, Goto(t, "flock"),
               call' = [call EXCEPT ![t] =
                          MakeCall("undo", fs[t].ref, EmptyTree, "undo:", <<>>)],
               target' = [target EXCEPT ![t] = c], UNCHANGED <<existing, res>>
        PROVE TypeOK'
    <3>1. MakeCall("undo", fs[t].ref, EmptyTree, "undo:", <<>>) \in Call
      BY <1>8, PlainCallType DEF Undo, Writable, Ref, LockingOp, UserMessage
    <3>2. target' \in [Thread -> 0 .. Len(commits)]
      BY <1>0, <2>3 DEF TypeOK, CommitId
    <3>3. QED
      BY <1>8, <2>1, <2>3, <3>1, <3>2 DEF TypeOK, Undo, Goto
  <2>4. QED
    BY <1>8, <2>2, <2>3 DEF Undo
<1>9. ASSUME NEW t \in Thread, NEW n \in 1 .. MaxBack, Redo(t, n) PROVE TypeOK'
  <2>1. ncalls' \in 0 .. MaxCalls
    BY <1>9, BoundAssumption DEF TypeOK, Redo, Start
  <2>2. CASE Return(t, "NotFound")
    BY <1>9, <2>1, <2>2, ReturnType DEF TypeOK, Redo, Result
  <2>3. ASSUME NEW c \in CommitId, Goto(t, "flock"),
               call' = [call EXCEPT ![t] =
                          MakeCall("redo", fs[t].ref, EmptyTree, "redo:", <<>>)],
               target' = [target EXCEPT ![t] = c], UNCHANGED <<existing, res>>
        PROVE TypeOK'
    <3>1. MakeCall("redo", fs[t].ref, EmptyTree, "redo:", <<>>) \in Call
      BY <1>9, PlainCallType DEF Redo, Writable, Ref, LockingOp, UserMessage
    <3>2. target' \in [Thread -> 0 .. Len(commits)]
      BY <1>0, <2>3 DEF TypeOK, CommitId
    <3>3. QED
      BY <1>9, <2>1, <2>3, <3>1, <3>2 DEF TypeOK, Redo, Goto
  <2>4. QED
    BY <1>9, <2>2, <2>3, Zenon DEF Redo
<1>10. ASSUME NEW t \in Thread, NEW r \in Ref, RefDictSet(t, r) PROVE TypeOK'
  <2>1. ncalls' \in 0 .. MaxCalls
    BY <1>10, BoundAssumption DEF TypeOK, RefDictSet, Start
  <2>2. CASE mutex' = mutex /\ Return(t, "KeyExists")
    BY <1>10, <2>1, <2>2, ReturnType DEF TypeOK, RefDictSet, Result
  <2>3. CASE /\ LockMutex(t) /\ Goto(t, "set")
             /\ call' = [call EXCEPT ![t] = MakeCall("set", r, EmptyTree, "user", <<>>)]
             /\ UNCHANGED <<target, existing, res>>
    <3>1. MakeCall("set", r, EmptyTree, "user", <<>>) \in Call
      BY PlainCallType DEF RefDictOp, UserMessage
    <3>2. QED
      BY <1>10, <2>1, <2>3, <3>1 DEF TypeOK, RefDictSet, Goto, LockMutex, MutexPc
  <2>4. QED
    BY <1>10, <2>2, <2>3 DEF RefDictSet
<1>11. ASSUME NEW t \in Thread, NEW r \in Ref, RefDictDel(t, r) PROVE TypeOK'
  <2>1. ncalls' \in 0 .. MaxCalls
    BY <1>11, BoundAssumption DEF TypeOK, RefDictDel, Start
  <2>2. CASE mutex' = mutex /\ Return(t, "KeyNotFound")
    BY <1>11, <2>1, <2>2, ReturnType DEF TypeOK, RefDictDel, Result
  <2>3. CASE /\ LockMutex(t) /\ Goto(t, "del")
             /\ call' = [call EXCEPT ![t] = MakeCall("del", r, EmptyTree, "user", <<>>)]
             /\ existing' = [existing EXCEPT ![t] = refs[r]]
             /\ UNCHANGED <<target, res>>
    <3>1. MakeCall("del", r, EmptyTree, "user", <<>>) \in Call
      BY PlainCallType DEF RefDictOp, UserMessage
    <3>2. existing' \in [Thread -> 0 .. Len(commits)]
      BY <2>3 DEF TypeOK
    <3>3. QED
      BY <1>11, <2>1, <2>3, <3>1, <3>2 DEF TypeOK, RefDictDel, Goto, LockMutex, MutexPc
  <2>4. QED
    BY <1>11, <2>2, <2>3 DEF RefDictDel
<1>12. ASSUME NEW t \in Thread, AcquireRepoLock(t) PROVE TypeOK'
  BY <1>12 DEF TypeOK, AcquireRepoLock, Goto, LockPc
<1>13. ASSUME NEW t \in Thread, TimeOutRepoLock(t) PROVE TypeOK'
  BY <1>13, ReturnType DEF TypeOK, TimeOutRepoLock, Result
<1>14. ASSUME NEW t \in Thread, StaleCheck(t) PROVE TypeOK'
  <2>1. CASE mutex' = mutex /\ Leave(t, "stale")
    BY <1>14, <2>1, ReturnType DEF TypeOK, StaleCheck, Result
  <2>2. CASE /\ LockMutex(t)
             /\ Goto(t, IF call[t].op = "commit" THEN "build" ELSE "lookup")
             /\ UNCHANGED <<call, target, existing, res>>
    BY <1>14, <2>2 DEF TypeOK, StaleCheck, LockMutex, Goto, LockPc
  <2>3. QED
    BY <1>14, <2>1, <2>2 DEF StaleCheck
<1>15. ASSUME NEW t \in Thread, BuildCommit(t) PROVE TypeOK'
  <2> DEFINE c == [parents |-> (IF fs[t].commit = None THEN <<>> ELSE <<fs[t].commit>>)
                               \o call[t].extra,
                   tree |-> RebuildTree(TreeOf(fs[t].commit), call[t].change),
                   msg |-> call[t].msg]
  <2>1. c \in Commit
    BY BuiltCommitType
  <2>2. PICK id \in WriteCommit(c) :
            /\ commits' = Stored(id, c)
            /\ target' = [target EXCEPT ![t] = id]
    BY <1>15 DEF BuildCommit
  <2> HIDE DEF c
  <2>3. /\ commits' \in Seq(Commit)
        /\ Len(commits') \in Nat /\ Len(commits') >= Len(commits)
        /\ id \in 1 .. Len(commits')
    BY <2>1, <2>2, StoredType DEF TypeOK
  <2>4. \A i \in 0 .. Len(commits) : i \in 0 .. Len(commits')
    BY <1>0, <2>3
  <2>5. /\ target' \in [Thread -> 0 .. Len(commits')]
        /\ existing' \in [Thread -> 0 .. Len(commits')]
        /\ refs' \in [Ref -> 0 .. Len(commits')]
        /\ \A u \in Thread : fs'[u].commit \in 0 .. Len(commits')
    <3>1. refs' = refs /\ fs' = fs /\ existing' = existing
      BY <1>15 DEF BuildCommit
    <3>2. target' \in [Thread -> 0 .. Len(commits')]
      <4>1. target \in [Thread -> 0 .. Len(commits)]
        BY DEF TypeOK
      <4>2. target \in [Thread -> 0 .. Len(commits')]
        BY <2>4, <4>1
      <4>3. id \in 0 .. Len(commits')
        BY <2>3
      <4>4. QED
        BY <2>2, <4>2, <4>3
    <3>3. existing' \in [Thread -> 0 .. Len(commits')]
      BY <2>4, <3>1 DEF TypeOK
    <3>4. refs' \in [Ref -> 0 .. Len(commits')]
      BY <2>4, <3>1 DEF TypeOK
    <3>5. QED
      BY <2>4, <3>1, <3>2, <3>3, <3>4 DEF TypeOK
  <2>6. QED
    BY <1>15, <2>3, <2>5 DEF TypeOK, BuildCommit, Goto, LockPc
<1>16. ASSUME NEW t \in Thread, LookupRef(t) PROVE TypeOK'
  <2>1. CASE UnlockMutex(t) /\ Leave(t, "GitError")
    BY <1>16, <2>1, ReturnType DEF TypeOK, LookupRef, UnlockMutex, Result
  <2>2. ASSUME NEW found \in {None, refs[call[t].ref]},
               existing' = [existing EXCEPT ![t] = found],
               Goto(t, "update"), UNCHANGED <<mutex, call, target, res>>
        PROVE TypeOK'
    <3>1. found \in 0 .. Len(commits)
      BY <1>0, <1>16 DEF TypeOK, CallOK, LookupRef, CheckedPc, None, Ref
    <3>2. existing' \in [Thread -> 0 .. Len(commits)]
      BY <2>2, <3>1 DEF TypeOK
    <3>3. QED
      BY <1>16, <2>2, <3>2 DEF TypeOK, LookupRef, Goto, LockPc
  <2>3. QED
    BY <1>16, <2>1, <2>2 DEF LookupRef
<1>17. ASSUME NEW t \in Thread, UpdateRef(t) PROVE TypeOK'
  <2>1. CASE Leave(t, "GitError") /\ UNCHANGED <<refs, reflog, fs>>
    BY <1>17, <2>1, ReturnType DEF TypeOK, UpdateRef, UnlockMutex, Result
  <2>2. CASE /\ WriteRef(call[t].ref, target[t], call[t].msg)
             /\ fs' = [fs EXCEPT ![t] = [ref |-> fs[t].ref, commit |-> target[t]]]
             /\ Leave(t, "ok")
    <3>1. /\ target[t] \in 0 .. Len(commits) /\ target[t] \in Nat
          /\ call[t].msg \in LogMessage
          /\ call[t].ref \in Ref /\ fs[t].ref \in Ref
      <4>1. pc[t] \in CheckedPc
        BY <1>17 DEF UpdateRef, CheckedPc
      <4>2. call[t].ref \in Branch /\ call[t].ref = fs[t].ref
        BY <4>1 DEF CallOK
      <4>3. target[t] \in 0 .. Len(commits)
        BY DEF TypeOK
      <4>4. call[t].msg \in UserMessage
        BY DEF TypeOK, Call
      <4>5. target[t] \in Nat
        BY <1>0, <4>3
      <4>6. call[t].msg \in LogMessage
        BY <4>4 DEF LogMessage
      <4>7. call[t].ref \in Ref /\ fs[t].ref \in Ref
        BY <4>2, Zenon DEF Ref
      <4>8. QED
        BY <4>3, <4>5, <4>6, <4>7
    <3>2. [ref |-> fs[t].ref, commit |-> target[t]] \in Snapshot
      BY <3>1, SnapshotType
    <3>3. /\ fs' \in [Thread -> Snapshot]
          /\ \A u \in Thread : fs'[u].commit \in 0 .. Len(commits)
      BY <2>2, <3>1, <3>2 DEF TypeOK
    <3>4. refs' \in [Ref -> 0 .. Len(commits)] /\ reflog' \in [Ref -> Seq(LogEntry)]
      BY <2>2, <3>1, WriteRefType
    <3>5. QED
      BY <1>17, <2>2, <3>3, <3>4, ReturnType DEF TypeOK, UpdateRef, UnlockMutex, Result
  <2>3. QED
    BY <1>17, <2>1, <2>2 DEF UpdateRef
<1>18. ASSUME NEW t \in Thread, ReleaseRepoLock(t) PROVE TypeOK'
  BY <1>18 DEF TypeOK, ReleaseRepoLock, Goto
<1>19. ASSUME NEW t \in Thread, RefDictCreate(t) PROVE TypeOK'
  <2>1. call[t].ref \in Ref /\ fs[t].commit \in 0 .. Len(commits)
    BY <1>19 DEF TypeOK, CallOK, RefDictCreate
  <2>2. refs' \in [Ref -> 0 .. Len(commits)] /\ reflog' \in [Ref -> Seq(LogEntry)]
    BY <1>19, <2>1, WriteRefType DEF RefDictCreate, LogMessage
  <2>3. QED
    BY <1>19, <2>2, ReturnType DEF TypeOK, RefDictCreate, UnlockMutex, Result
<1>20. ASSUME NEW t \in Thread, RefDictDelete(t) PROVE TypeOK'
  <2>1. CASE Return(t, "GitError") /\ UNCHANGED <<refs, reflog>>
    BY <1>20, <2>1, ReturnType DEF TypeOK, RefDictDelete, UnlockMutex, Result
  <2>2. CASE /\ refs' = [refs EXCEPT ![call[t].ref] = None]
             /\ reflog' = [reflog EXCEPT ![call[t].ref] = <<>>]
             /\ Return(t, "ok")
    <3>1. refs' \in [Ref -> 0 .. Len(commits)]
      <4>1. None \in 0 .. Len(commits) /\ refs \in [Ref -> 0 .. Len(commits)]
        BY <1>0 DEF TypeOK, None
      <4>2. QED
        BY <2>2, <4>1
    <3>2. <<>> \in Seq(LogEntry)
      OBVIOUS
    <3>3. reflog' \in [Ref -> Seq(LogEntry)]
      BY <2>2, <3>2 DEF TypeOK
    <3>4. QED
      BY <1>20, <2>2, <3>1, <3>3, ReturnType DEF TypeOK, RefDictDelete, UnlockMutex, Result
  <2>3. QED
    BY <1>20, <2>1, <2>2 DEF RefDictDelete
<1>21. ASSUME NEW t \in Thread, GitFailure(t) PROVE TypeOK'
  BY <1>21, ReturnType DEF TypeOK, GitFailure, UnlockMutex, Result
<1>22. ASSUME NEW h \in Handle, Crash(h) PROVE TypeOK'
  <2>1. NoFs \in Snapshot /\ NoFs.commit \in 0 .. Len(commits)
    BY <1>0 DEF NoFs, Snapshot, None
  <2>2. fs' \in [Thread -> Snapshot] /\ \A u \in Thread : fs'[u].commit \in 0 .. Len(commits)
    BY <1>22, <2>1 DEF TypeOK, Crash
  <2>3. call' \in [Thread -> Call]
    BY <1>22, NoCallType DEF TypeOK, Crash
  <2>4. /\ target' \in [Thread -> 0 .. Len(commits)]
        /\ existing' \in [Thread -> 0 .. Len(commits)]
    BY <1>0, <1>22 DEF TypeOK, Crash, None
  <2>5. ncalls' \in 0 .. MaxCalls
    BY <1>22, BoundAssumption DEF TypeOK, Crash
  <2>6. pc' \in [Thread -> {"idle", "flock"} \cup LockPc \cup MutexPc] /\ res' \in [Thread -> Result]
    BY <1>22 DEF TypeOK, Crash, Result
  <2>7. QED
    BY <1>22, <2>2, <2>3, <2>4, <2>5, <2>6 DEF TypeOK, Crash
<1>23. CASE UNCHANGED vars
  BY <1>23 DEF TypeOK, vars
<1>24. QED
  BY <1>1, <1>2, <1>3, <1>4, <1>5, <1>6, <1>7, <1>8, <1>9, <1>10, <1>11, <1>12,
     <1>13, <1>14, <1>15, <1>16, <1>17, <1>18, <1>19, <1>20, <1>21, <1>22, <1>23
  DEF Next, Snapshots, Calls, Proceed, Finished

-----------------------------------------------------------------------------
(* The locals of a call.                                                   *)

(* A thread whose call has ended owes nothing to CallOK.                   *)
LEMMA EndCallOK ==
    ASSUME TypeOK, CallOK, NEW t \in Thread, NEW r, Return(t, r) \/ Leave(t, r),
           \A u \in Thread \ {t} : fs'[u] = fs[u]
    PROVE  CallOK'
<1>1. pc'[t] \in {"idle", "unlock"}
  BY DEF TypeOK, Return, Leave
<1>2. ASSUME NEW u \in Thread, u # t
      PROVE  /\ pc'[u] = pc[u] /\ call'[u] = call[u] /\ target'[u] = target[u]
             /\ fs'[u] = fs[u]
  BY <1>2 DEF TypeOK, Return, Leave
<1>3. QED
  BY <1>1, <1>2 DEF CallOK, CheckedPc

(* Every step keeps what CallOK says of each thread's call.                *)
LEMMA NextCallOK == TypeOK /\ CallOK /\ [Next]_vars => CallOK'
<1> SUFFICES ASSUME TypeOK, CallOK, [Next]_vars PROVE CallOK'
  OBVIOUS
<1>1. ASSUME NEW t \in Thread, NEW r \in Ref, RefDictGet(t, r)
      PROVE CallOK'
  BY <1>1, EndCallOK DEF TypeOK, RefDictGet
<1>2. ASSUME NEW t \in Thread, NEW c \in CommitId, FsOfHash(t, c)
      PROVE CallOK'
  BY <1>2, EndCallOK DEF TypeOK, FsOfHash
<1>3. ASSUME NEW t \in Thread, NEW b \in Branch, FsEmpty(t, b)
      PROVE CallOK'
  BY <1>3, EndCallOK DEF TypeOK, FsEmpty
<1>4. ASSUME NEW t \in Thread, NEW n \in 1 .. MaxBack, FsBack(t, n)
      PROVE CallOK'
  BY <1>4, EndCallOK DEF TypeOK, FsBack
<1>5. ASSUME NEW t \in Thread, NEW p \in {<<>>} \cup {<<c>> : c \in CommitId}, FsSquash(t, p)
      PROVE CallOK'
  <2>1. PICK id : fs' = [fs EXCEPT ![t] = [ref |-> NoRef, commit |-> id]]
    BY <1>5 DEF FsSquash
  <2>2. QED
    BY <1>5, <2>1, EndCallOK DEF TypeOK, FsSquash
<1>6. ASSUME NEW t \in Thread, RequireWritable(t) PROVE CallOK'
  BY <1>6, EndCallOK DEF TypeOK, RequireWritable
<1>7. ASSUME NEW t \in Thread, NEW change \in Changes[t], NEW m \in Message,
             NEW extra \in ExtraParents, CommitChanges(t, change, m, extra)
      PROVE CallOK'
  BY <1>7 DEF TypeOK, CallOK, CheckedPc, LockingOp, CommitChanges, Goto, Start,
     Writable, MakeCall
<1>8. ASSUME NEW t \in Thread, NEW n \in 1 .. MaxBack, Undo(t, n)
      PROVE CallOK'
  <2>1. CASE Return(t, "NotFound")
    BY <1>8, <2>1 DEF TypeOK, CallOK, Undo, Return, CheckedPc
  <2>2. ASSUME NEW c \in CommitId, Goto(t, "flock"),
               call' = [call EXCEPT ![t] =
                          MakeCall("undo", fs[t].ref, EmptyTree, "undo:", <<>>)],
               target' = [target EXCEPT ![t] = c]
        PROVE CallOK'
    BY <1>8, <2>2 DEF TypeOK, CallOK, Undo, Goto, Writable, MakeCall, LockingOp,
       CheckedPc, CommitId, None
  <2>3. QED
    BY <1>8, <2>1, <2>2, Zenon DEF Undo
<1>9. ASSUME NEW t \in Thread, NEW n \in 1 .. MaxBack, Redo(t, n)
      PROVE CallOK'
  <2>1. CASE Return(t, "NotFound")
    BY <1>9, <2>1 DEF TypeOK, CallOK, Redo, Return, CheckedPc
  <2>2. ASSUME NEW c \in CommitId, Goto(t, "flock"),
               call' = [call EXCEPT ![t] =
                          MakeCall("redo", fs[t].ref, EmptyTree, "redo:", <<>>)],
               target' = [target EXCEPT ![t] = c]
        PROVE CallOK'
    BY <1>9, <2>2 DEF TypeOK, CallOK, Redo, Goto, Writable, MakeCall, LockingOp,
       CheckedPc, CommitId, None
  <2>3. QED
    BY <1>9, <2>1, <2>2, Zenon DEF Redo
<1>10. ASSUME NEW t \in Thread, NEW r \in Ref, RefDictSet(t, r)
      PROVE CallOK'
  BY <1>10 DEF TypeOK, CallOK, CheckedPc, LockingOp, RefDictSet, Return, Goto,
     Start, MakeCall, NoCall, None
<1>11. ASSUME NEW t \in Thread, NEW r \in Ref, RefDictDel(t, r)
      PROVE CallOK'
  BY <1>11 DEF TypeOK, CallOK, CheckedPc, LockingOp, RefDictDel, Return, Goto,
     Start, MakeCall, NoCall, None
<1>12. ASSUME NEW t \in Thread, AcquireRepoLock(t) PROVE CallOK'
  BY <1>12 DEF TypeOK, CallOK, CheckedPc, LockingOp, AcquireRepoLock, Goto
<1>13. ASSUME NEW t \in Thread, TimeOutRepoLock(t) PROVE CallOK'
  BY <1>13, EndCallOK DEF TypeOK, TimeOutRepoLock
<1>14. ASSUME NEW t \in Thread, StaleCheck(t) PROVE CallOK'
  BY <1>14 DEF TypeOK, CallOK, CheckedPc, LockingOp, StaleCheck, Leave, Goto,
     MakeCall, NoCall, None
<1>15. ASSUME NEW t \in Thread, BuildCommit(t) PROVE CallOK'
  <2>1. PICK id : /\ id \in CommitId \/ id = Len(commits) + 1
                  /\ target' = [target EXCEPT ![t] = id]
    BY <1>15, Zenon DEF BuildCommit, WriteCommit
  <2>2. id # None
    BY <2>1 DEF TypeOK, CommitId, None
  <2>3. pc' = [pc EXCEPT ![t] = "lookup"] /\ UNCHANGED <<call, fs>> /\ pc[t] = "build"
    BY <1>15 DEF BuildCommit, Goto
  <2>4. QED
    BY <2>1, <2>2, <2>3 DEF TypeOK, CallOK, CheckedPc
<1>16. ASSUME NEW t \in Thread, LookupRef(t) PROVE CallOK'
  BY <1>16 DEF TypeOK, CallOK, CheckedPc, LockingOp, LookupRef, Leave, Goto,
     MakeCall, NoCall, None
<1>17. ASSUME NEW t \in Thread, UpdateRef(t) PROVE CallOK'
  BY <1>17, EndCallOK DEF TypeOK, UpdateRef
<1>18. ASSUME NEW t \in Thread, ReleaseRepoLock(t) PROVE CallOK'
  BY <1>18 DEF TypeOK, CallOK, CheckedPc, LockingOp, ReleaseRepoLock, Goto
<1>19. ASSUME NEW t \in Thread, RefDictCreate(t) PROVE CallOK'
  BY <1>19, EndCallOK DEF TypeOK, RefDictCreate
<1>20. ASSUME NEW t \in Thread, RefDictDelete(t) PROVE CallOK'
  BY <1>20, EndCallOK DEF TypeOK, RefDictDelete
<1>21. ASSUME NEW t \in Thread, GitFailure(t) PROVE CallOK'
  BY <1>21, EndCallOK DEF TypeOK, GitFailure
<1>22. ASSUME NEW h \in Handle, Crash(h) PROVE CallOK'
  BY <1>22 DEF TypeOK, CallOK, Crash, CheckedPc
<1>23. CASE UNCHANGED vars
  BY <1>23 DEF vars, CallOK
<1>24. QED
  BY <1>1, <1>2, <1>3, <1>4, <1>5, <1>6, <1>7, <1>8, <1>9, <1>10, <1>11, <1>12,
     <1>13, <1>14, <1>15, <1>16, <1>17, <1>18, <1>19, <1>20, <1>21, <1>22, <1>23
  DEF Next, Snapshots, Calls, Proceed, Finished

-----------------------------------------------------------------------------
(* Locks.                                                                  *)

(* The locks are free in a fresh store.                                    *)
LEMMA InitLockOwnership == Init => LockOwnership
  BY HandleAssumption, NameAssumption
  DEF Init, LockOwnership, LockPc, MutexPc, CheckedPc

(* Every step keeps each lock with the thread inside the section it guards. *)
LEMMA NextLockOwnership == TypeOK /\ LockOwnership /\ [Next]_vars => LockOwnership'
<1> SUFFICES ASSUME TypeOK, LockOwnership, [Next]_vars PROVE LockOwnership'
  OBVIOUS
<1> USE HandleAssumption, NameAssumption
<1>1. ASSUME NEW t \in Thread, NEW r \in Ref, RefDictGet(t, r)
      PROVE LockOwnership'
  BY <1>1 DEF TypeOK, LockOwnership, LockPc, MutexPc, CheckedPc, RefDictGet,
     Return, MutexFree
<1>2. ASSUME NEW t \in Thread, NEW c \in CommitId, FsOfHash(t, c)
      PROVE LockOwnership'
  BY <1>2 DEF TypeOK, LockOwnership, LockPc, MutexPc, CheckedPc, FsOfHash,
     Return, MutexFree
<1>3. ASSUME NEW t \in Thread, NEW b \in Branch, FsEmpty(t, b)
      PROVE LockOwnership'
  BY <1>3 DEF TypeOK, LockOwnership, LockPc, MutexPc, CheckedPc, FsEmpty, Return
<1>4. ASSUME NEW t \in Thread, NEW n \in 1 .. MaxBack, FsBack(t, n)
      PROVE LockOwnership'
  BY <1>4 DEF TypeOK, LockOwnership, LockPc, MutexPc, CheckedPc, FsBack, Return,
     MutexFree
<1>5. ASSUME NEW t \in Thread, NEW p \in {<<>>} \cup {<<c>> : c \in CommitId}, FsSquash(t, p)
      PROVE LockOwnership'
  BY <1>5 DEF TypeOK, LockOwnership, LockPc, MutexPc, CheckedPc, FsSquash,
     Return, Start, MutexFree
<1>6. ASSUME NEW t \in Thread, RequireWritable(t) PROVE LockOwnership'
  BY <1>6 DEF TypeOK, LockOwnership, LockPc, MutexPc, CheckedPc,
     RequireWritable, Return, Start
<1>7. ASSUME NEW t \in Thread, NEW change \in Changes[t], NEW m \in Message,
             NEW extra \in ExtraParents, CommitChanges(t, change, m, extra)
      PROVE LockOwnership'
  BY <1>7 DEF TypeOK, LockOwnership, LockPc, MutexPc, CheckedPc, CommitChanges,
     Goto, Start
<1>8. ASSUME NEW t \in Thread, NEW n \in 1 .. MaxBack, Undo(t, n)
      PROVE LockOwnership'
  BY <1>8 DEF TypeOK, LockOwnership, LockPc, MutexPc, CheckedPc, Undo, Return,
     Goto, Start, MutexFree
<1>9. ASSUME NEW t \in Thread, NEW n \in 1 .. MaxBack, Redo(t, n)
      PROVE LockOwnership'
  BY <1>9 DEF TypeOK, LockOwnership, LockPc, MutexPc, CheckedPc, Redo, Return,
     Goto, Start, MutexFree
<1>10. ASSUME NEW t \in Thread, NEW r \in Ref, RefDictSet(t, r)
      PROVE LockOwnership'
  BY <1>10 DEF TypeOK, LockOwnership, LockPc, MutexPc, CheckedPc, RefDictSet,
     Return, Goto, Start, LockMutex, MutexFree
<1>11. ASSUME NEW t \in Thread, NEW r \in Ref, RefDictDel(t, r)
      PROVE LockOwnership'
  BY <1>11 DEF TypeOK, LockOwnership, LockPc, MutexPc, CheckedPc, RefDictDel,
     Return, Goto, Start, LockMutex, MutexFree
<1>12. ASSUME NEW t \in Thread, AcquireRepoLock(t) PROVE LockOwnership'
  BY <1>12 DEF TypeOK, LockOwnership, LockPc, MutexPc, CheckedPc,
     AcquireRepoLock, Goto
<1>13. ASSUME NEW t \in Thread, TimeOutRepoLock(t) PROVE LockOwnership'
  BY <1>13 DEF TypeOK, LockOwnership, LockPc, MutexPc, CheckedPc,
     TimeOutRepoLock, Return
<1>14. ASSUME NEW t \in Thread, StaleCheck(t) PROVE LockOwnership'
  BY <1>14 DEF TypeOK, LockOwnership, LockPc, MutexPc, CheckedPc, StaleCheck,
     Leave, Goto, LockMutex, MutexFree
<1>15. ASSUME NEW t \in Thread, BuildCommit(t) PROVE LockOwnership'
  BY <1>15 DEF TypeOK, LockOwnership, LockPc, MutexPc, CheckedPc, BuildCommit,
     Goto
<1>16. ASSUME NEW t \in Thread, LookupRef(t) PROVE LockOwnership'
  BY <1>16 DEF TypeOK, LockOwnership, LockPc, MutexPc, CheckedPc, LookupRef,
     Leave, Goto, UnlockMutex
<1>17. ASSUME NEW t \in Thread, UpdateRef(t) PROVE LockOwnership'
  BY <1>17 DEF TypeOK, LockOwnership, LockPc, MutexPc, CheckedPc, UpdateRef,
     Leave, UnlockMutex
<1>18. ASSUME NEW t \in Thread, ReleaseRepoLock(t) PROVE LockOwnership'
  BY <1>18 DEF TypeOK, LockOwnership, LockPc, MutexPc, CheckedPc,
     ReleaseRepoLock, Goto
<1>19. ASSUME NEW t \in Thread, RefDictCreate(t) PROVE LockOwnership'
  <2>1. /\ pc[t] = "set" /\ pc' = [pc EXCEPT ![t] = "idle"]
        /\ UnlockMutex(t) /\ repo_lock' = repo_lock
    BY <1>19 DEF RefDictCreate, Return
  <2>2. QED
    BY <2>1 DEF TypeOK, LockOwnership, LockPc, MutexPc, CheckedPc, UnlockMutex
<1>20. ASSUME NEW t \in Thread, RefDictDelete(t) PROVE LockOwnership'
  <2>1. /\ pc[t] = "del" /\ pc' = [pc EXCEPT ![t] = "idle"]
        /\ UnlockMutex(t) /\ repo_lock' = repo_lock
    BY <1>20 DEF RefDictDelete, Return
  <2>2. QED
    BY <2>1 DEF TypeOK, LockOwnership, LockPc, MutexPc, CheckedPc, UnlockMutex
<1>21. ASSUME NEW t \in Thread, GitFailure(t) PROVE LockOwnership'
  BY <1>21 DEF TypeOK, LockOwnership, LockPc, MutexPc, CheckedPc, GitFailure,
     Leave, UnlockMutex
<1>22. ASSUME NEW h \in Handle, Crash(h) PROVE LockOwnership'
  BY <1>22 DEF TypeOK, LockOwnership, Crash, LockPc, MutexPc, CheckedPc
<1>23. CASE UNCHANGED vars
  BY <1>23 DEF vars, LockOwnership
<1>24. QED
  BY <1>1, <1>2, <1>3, <1>4, <1>5, <1>6, <1>7, <1>8, <1>9, <1>10, <1>11, <1>12,
     <1>13, <1>14, <1>15, <1>16, <1>17, <1>18, <1>19, <1>20, <1>21, <1>22, <1>23
  DEF Next, Snapshots, Calls, Proceed, Finished

-----------------------------------------------------------------------------
(* The stale-snapshot check stays valid until the reference is updated.    *)

(* Nothing is being checked in a fresh store.                              *)
LEMMA InitCheckStillValid == Init => CheckStillValid
  BY DEF Init, CheckStillValid, CheckedPc

(* A step that moves no reference, touches only thread t, and leaves it    *)
(* outside the checked section, keeps the checks of all threads valid.     *)
LEMMA FrameCheckStillValid ==
    ASSUME TypeOK, CheckStillValid, NEW t \in Thread, refs' = refs,
           pc'[t] \notin CheckedPc,
           \A u \in Thread \ {t} : /\ pc'[u] = pc[u] /\ call'[u] = call[u]
                                   /\ fs'[u] = fs[u] /\ existing'[u] = existing[u]
    PROVE  CheckStillValid'
  BY DEF CheckStillValid, CheckedPc

(* The end of a call of t is such a step.                                  *)
LEMMA EndCheckStillValid ==
    ASSUME TypeOK, CheckStillValid, NEW t \in Thread, NEW r, Return(t, r) \/ Leave(t, r),
           refs' = refs, \A u \in Thread \ {t} : fs'[u] = fs[u]
    PROVE  CheckStillValid'
<1>1. pc'[t] \in {"idle", "unlock"}
  BY DEF TypeOK, Return, Leave
<1>2. \A u \in Thread \ {t} : /\ pc'[u] = pc[u] /\ call'[u] = call[u]
                              /\ existing'[u] = existing[u]
  BY DEF TypeOK, Return, Leave
<1>3. QED
  BY <1>1, <1>2, FrameCheckStillValid DEF CheckedPc

(* While the store is serialized, at most one thread is between its check  *)
(* and its update, and no RefDict call is about to write then.             *)
LEMMA OneChecked ==
    ASSUME TypeOK, CallOK, LockOwnership, Serialized, NEW t \in Thread, NEW u \in Thread,
           pc[u] \in CheckedPc, pc[t] \in CheckedPc \cup {"set", "del"}
    PROVE  t = u
<1>1. CASE pc[t] \in CheckedPc
  BY <1>1 DEF LockOwnership, LockPc, CheckedPc
<1>2. CASE pc[t] \in {"set", "del"}
  <2>1. pc[t] \in Ops \cap RefDictOp
    BY <1>2 DEF CallOK, RefDictOp
  <2>2. HandleOf[t] = HandleOf[u]
    BY <2>1 DEF Serialized
  <2>3. QED
    BY <1>2, <2>2 DEF LockOwnership, MutexPc, CheckedPc
<1>3. QED
  BY <1>1, <1>2

(* Every step of a serialized store keeps the checks valid: only UpdateRef  *)
(* and the two RefDict writes move a reference, and OneChecked rules out    *)
(* that another thread is relying on its check then.                        *)
LEMMA NextCheckStillValid == TypeOK /\ CallOK /\ LockOwnership /\ Serialized /\ CheckStillValid /\ [Next]_vars => CheckStillValid'
<1> SUFFICES ASSUME TypeOK, CallOK, LockOwnership, Serialized, CheckStillValid, [Next]_vars PROVE CheckStillValid'
  OBVIOUS
<1>1. ASSUME NEW t \in Thread, NEW r \in Ref, RefDictGet(t, r)
      PROVE CheckStillValid'
  BY <1>1, EndCheckStillValid DEF TypeOK, RefDictGet
<1>2. ASSUME NEW t \in Thread, NEW c \in CommitId, FsOfHash(t, c)
      PROVE CheckStillValid'
  BY <1>2, EndCheckStillValid DEF TypeOK, FsOfHash
<1>3. ASSUME NEW t \in Thread, NEW b \in Branch, FsEmpty(t, b)
      PROVE CheckStillValid'
  BY <1>3, EndCheckStillValid DEF TypeOK, FsEmpty
<1>4. ASSUME NEW t \in Thread, NEW n \in 1 .. MaxBack, FsBack(t, n)
      PROVE CheckStillValid'
  BY <1>4, EndCheckStillValid DEF TypeOK, FsBack
<1>5. ASSUME NEW t \in Thread, NEW p \in {<<>>} \cup {<<c>> : c \in CommitId}, FsSquash(t, p)
      PROVE CheckStillValid'
  <2>1. PICK id : fs' = [fs EXCEPT ![t] = [ref |-> NoRef, commit |-> id]]
    BY <1>5 DEF FsSquash
  <2>2. QED
    BY <1>5, <2>1, EndCheckStillValid DEF TypeOK, FsSquash
<1>6. ASSUME NEW t \in Thread, RequireWritable(t) PROVE CheckStillValid'
  BY <1>6, EndCheckStillValid DEF TypeOK, RequireWritable
<1>7. ASSUME NEW t \in Thread, NEW change \in Changes[t], NEW m \in Message,
             NEW extra \in ExtraParents, CommitChanges(t, change, m, extra)
      PROVE CheckStillValid'
  BY <1>7, FrameCheckStillValid DEF TypeOK, CommitChanges, Goto, CheckedPc
<1>8. ASSUME NEW t \in Thread, NEW n \in 1 .. MaxBack, Undo(t, n)
      PROVE CheckStillValid'
  <2>1. CASE Return(t, "NotFound")
    BY <1>8, <2>1, EndCheckStillValid DEF Undo
  <2>2. ASSUME NEW c, Goto(t, "flock"), call' = [call EXCEPT ![t] = c], existing' = existing
        PROVE CheckStillValid'
    BY <1>8, <2>2, FrameCheckStillValid DEF TypeOK, Undo, Goto, CheckedPc
  <2>3. QED
    BY <1>8, <2>1, <2>2 DEF Undo
<1>9. ASSUME NEW t \in Thread, NEW n \in 1 .. MaxBack, Redo(t, n)
      PROVE CheckStillValid'
  <2>1. CASE Return(t, "NotFound")
    BY <1>9, <2>1, EndCheckStillValid DEF Redo
  <2>2. ASSUME NEW c, Goto(t, "flock"), call' = [call EXCEPT ![t] = c], existing' = existing
        PROVE CheckStillValid'
    BY <1>9, <2>2, FrameCheckStillValid DEF TypeOK, Redo, Goto, CheckedPc
  <2>3. QED
    BY <1>9, <2>1, <2>2 DEF Redo
<1>10. ASSUME NEW t \in Thread, NEW r \in Ref, RefDictSet(t, r)
      PROVE CheckStillValid'
  <2>1. CASE Return(t, "KeyExists")
    BY <1>10, <2>1, EndCheckStillValid DEF RefDictSet
  <2>2. ASSUME NEW c, Goto(t, "set"), call' = [call EXCEPT ![t] = c], existing' = existing
        PROVE CheckStillValid'
    BY <1>10, <2>2, FrameCheckStillValid DEF TypeOK, RefDictSet, Goto, CheckedPc
  <2>3. QED
    BY <1>10, <2>1, <2>2 DEF RefDictSet
<1>11. ASSUME NEW t \in Thread, NEW r \in Ref, RefDictDel(t, r)
      PROVE CheckStillValid'
  <2>1. CASE Return(t, "KeyNotFound")
    BY <1>11, <2>1, EndCheckStillValid DEF RefDictDel
  <2>2. ASSUME NEW c, Goto(t, "del"), call' = [call EXCEPT ![t] = c], existing' = [existing EXCEPT ![t] = refs[r]]
        PROVE CheckStillValid'
    BY <1>11, <2>2, FrameCheckStillValid DEF TypeOK, RefDictDel, Goto, CheckedPc
  <2>3. QED
    BY <1>11, <2>1, <2>2 DEF RefDictDel
<1>12. ASSUME NEW t \in Thread, AcquireRepoLock(t) PROVE CheckStillValid'
  BY <1>12, FrameCheckStillValid DEF TypeOK, AcquireRepoLock, Goto, CheckedPc
<1>13. ASSUME NEW t \in Thread, TimeOutRepoLock(t) PROVE CheckStillValid'
  BY <1>13, EndCheckStillValid DEF TypeOK, TimeOutRepoLock
<1>14. ASSUME NEW t \in Thread, StaleCheck(t) PROVE CheckStillValid'
  <2>1. CASE Leave(t, "stale")
    BY <1>14, <2>1, EndCheckStillValid DEF StaleCheck
  <2>2. CASE /\ refs[call[t].ref] \in {None, fs[t].commit}
             /\ Goto(t, IF call[t].op = "commit" THEN "build" ELSE "lookup")
             /\ UNCHANGED <<call, existing>>
    <3>1. pc'[t] # "update" /\ \A u \in Thread \ {t} : pc'[u] = pc[u]
      BY <2>2 DEF TypeOK, Goto
    <3>2. refs' = refs /\ fs' = fs
      BY <1>14 DEF StaleCheck
    <3>3. QED
      BY <2>2, <3>1, <3>2 DEF CheckStillValid
  <2>3. QED
    BY <1>14, <2>1, <2>2 DEF StaleCheck
<1>15. ASSUME NEW t \in Thread, BuildCommit(t) PROVE CheckStillValid'
  <2>1. /\ pc[t] = "build" /\ pc' = [pc EXCEPT ![t] = "lookup"]
        /\ UNCHANGED <<refs, fs, call, existing>>
    BY <1>15 DEF BuildCommit, Goto
  <2>2. QED
    BY <2>1 DEF TypeOK, CheckStillValid, CheckedPc
<1>16. ASSUME NEW t \in Thread, LookupRef(t) PROVE CheckStillValid'
  <2>1. CASE Leave(t, "GitError")
    BY <1>16, <2>1, EndCheckStillValid DEF LookupRef
  <2>2. CASE /\ existing' = [existing EXCEPT ![t] =
                               IF call[t].op = "commit" /\ fs[t].commit = None
                               THEN None ELSE refs[call[t].ref]]
             /\ Goto(t, "update") /\ call' = call
    <3>1. refs[call[t].ref] \in {None, fs[t].commit}
      BY <1>16 DEF CheckStillValid, LookupRef, CheckedPc
    <3>2. existing'[t] = refs[call[t].ref]
      BY <2>2, <3>1 DEF TypeOK
    <3>3. \A u \in Thread \ {t} : pc'[u] = pc[u] /\ existing'[u] = existing[u]
      BY <2>2 DEF TypeOK, Goto
    <3>4. refs' = refs /\ fs' = fs
      BY <1>16 DEF LookupRef
    <3>5. QED
      BY <2>2, <3>1, <3>2, <3>3, <3>4 DEF CheckStillValid
  <2>3. QED
    BY <1>16, <2>1, <2>2 DEF LookupRef
<1>17. ASSUME NEW t \in Thread, UpdateRef(t) PROVE CheckStillValid'
  <2>1. pc[t] = "update" /\ pc'[t] \notin CheckedPc /\ \A u \in Thread \ {t} : pc'[u] = pc[u]
    BY <1>17 DEF TypeOK, UpdateRef, Leave, CheckedPc
  <2>2. \A u \in Thread : pc'[u] \notin CheckedPc
    BY <2>1, OneChecked DEF CheckedPc
  <2>3. QED
    BY <2>2 DEF CheckStillValid, CheckedPc
<1>18. ASSUME NEW t \in Thread, ReleaseRepoLock(t) PROVE CheckStillValid'
  BY <1>18, FrameCheckStillValid DEF TypeOK, ReleaseRepoLock, Goto, CheckedPc
<1>19. ASSUME NEW t \in Thread, RefDictCreate(t) PROVE CheckStillValid'
  <2>1. pc[t] = "set" /\ pc'[t] \notin CheckedPc /\ \A u \in Thread \ {t} : pc'[u] = pc[u]
    BY <1>19 DEF TypeOK, RefDictCreate, Return, CheckedPc
  <2>2. \A u \in Thread : pc'[u] \notin CheckedPc
    BY <2>1, OneChecked DEF CheckedPc
  <2>3. QED
    BY <2>2 DEF CheckStillValid, CheckedPc
<1>20. ASSUME NEW t \in Thread, RefDictDelete(t) PROVE CheckStillValid'
  <2>1. pc[t] = "del" /\ pc'[t] \notin CheckedPc /\ \A u \in Thread \ {t} : pc'[u] = pc[u]
    BY <1>20 DEF TypeOK, RefDictDelete, Return, CheckedPc
  <2>2. \A u \in Thread : pc'[u] \notin CheckedPc
    BY <2>1, OneChecked DEF CheckedPc
  <2>3. QED
    BY <2>2 DEF CheckStillValid, CheckedPc
<1>21. ASSUME NEW t \in Thread, GitFailure(t) PROVE CheckStillValid'
  BY <1>21, EndCheckStillValid DEF TypeOK, GitFailure
<1>22. ASSUME NEW h \in Handle, Crash(h) PROVE CheckStillValid'
  <2>1. \A u \in Thread : pc'[u] # "idle" =>
            /\ pc'[u] = pc[u] /\ call'[u] = call[u]
            /\ fs'[u] = fs[u] /\ existing'[u] = existing[u]
    BY <1>22 DEF Crash
  <2>2. refs' = refs
    BY <1>22 DEF Crash
  <2>3. QED
    BY <2>1, <2>2 DEF CheckStillValid, CheckedPc
<1>23. CASE UNCHANGED vars
  BY <1>23 DEF vars, CheckStillValid
<1>24. QED
  BY <1>1, <1>2, <1>3, <1>4, <1>5, <1>6, <1>7, <1>8, <1>9, <1>10, <1>11, <1>12,
     <1>13, <1>14, <1>15, <1>16, <1>17, <1>18, <1>19, <1>20, <1>21, <1>22, <1>23
  DEF Next, Snapshots, Calls, Proceed, Finished

-----------------------------------------------------------------------------
(* What the reflog of a branch records.                                    *)

(* Stored commits do not change.                                           *)
CommitsGrow ==
    /\ Len(commits') \in Nat /\ Len(commits) <= Len(commits')
    /\ \A i \in 1 .. Len(commits) : commits'[i] = commits[i]

HistoryOK == BuiltOnSnapshot /\ ReflogExtends

(* They keep their ids and their parents.                                  *)
LEMMA GrowKeepsParents ==
    ASSUME TypeOK, CommitsGrow, NEW c \in CommitId
    PROVE  c \in CommitId' /\ FirstParent(c)' = FirstParent(c)
<1>1. Len(commits) \in Nat
  BY DEF TypeOK
<1>2. /\ c \in 1 .. Len(commits)
      /\ Len(commits') \in Nat /\ Len(commits) <= Len(commits')
      /\ commits'[c] = commits[c]
  BY DEF CommitsGrow, CommitId
<1>3. c \in CommitId'
  BY <1>1, <1>2 DEF CommitId
<1>4. QED
  BY <1>2, <1>3 DEF FirstParent

(* A step that writes no reference and keeps the others' calls, and t's    *)
(* unless it leaves the section, keeps HistoryOK.                          *)
LEMMA FrameHistoryOK ==
    ASSUME TypeOK, CallOK, HistoryOK, NEW t \in Thread, CommitsGrow, reflog' = reflog,
           \A u \in Thread \ {t} : /\ pc'[u] = pc[u] /\ call'[u] = call[u]
                                   /\ fs'[u] = fs[u] /\ target'[u] = target[u],
           \/ pc'[t] \notin {"lookup", "update"}
           \/ /\ call'[t] = call[t] /\ fs'[t] = fs[t] /\ target'[t] = target[t]
              /\ call[t].op = "commit" => pc[t] \in {"lookup", "update"}
              /\ target[t] \in CommitId
    PROVE  HistoryOK'
<1>1. \A c \in CommitId : c \in CommitId' /\ FirstParent(c)' = FirstParent(c)
  BY GrowKeepsParents
<1>2. ASSUME NEW u \in Thread, pc'[u] \in {"lookup", "update"},
             call'[u].op = "commit", fs'[u].commit # None
      PROVE  FirstParent(target[u])' = fs'[u].commit
  <2>1. /\ pc[u] \in {"lookup", "update"} /\ call'[u] = call[u] /\ fs'[u] = fs[u]
        /\ target'[u] = target[u]
    BY <1>2
  <2>2. target[u] \in CommitId
    BY <2>1 DEF TypeOK, CallOK, CommitId, None
  <2>3. FirstParent(target[u]) = fs[u].commit
    BY <1>2, <2>1 DEF HistoryOK, BuiltOnSnapshot
  <2>4. QED
    BY <1>1, <2>1, <2>2, <2>3
<1>3. BuiltOnSnapshot'
  BY <1>1, <1>2 DEF HistoryOK, BuiltOnSnapshot
<1>4. ReflogExtends'
  BY <1>1 DEF HistoryOK, BuiltOnSnapshot, ReflogExtends, Ref
<1>5. QED
  BY <1>3, <1>4 DEF HistoryOK

(* No commit is stored and none is lost: the special case of CommitsGrow.  *)
LEMMA SameCommitsGrow == TypeOK /\ commits' = commits => CommitsGrow
  BY DEF TypeOK, CommitsGrow

(* The end of a call of t that writes no reference.                        *)
LEMMA EndHistoryOK ==
    ASSUME TypeOK, CallOK, HistoryOK, NEW t \in Thread, NEW r, Return(t, r) \/ Leave(t, r),
           CommitsGrow, reflog' = reflog, \A u \in Thread \ {t} : fs'[u] = fs[u]
    PROVE  HistoryOK'
<1>1. pc'[t] \in {"idle", "unlock"}
  BY DEF TypeOK, Return, Leave
<1>2. \A u \in Thread \ {t} : /\ pc'[u] = pc[u] /\ call'[u] = call[u]
                              /\ target'[u] = target[u]
  BY DEF TypeOK, Return, Leave
<1>3. QED
  BY <1>1, <1>2, FrameHistoryOK

(* The end of a call of t that moves reference r to commit c.  Only a user *)
(* message obliges c to be a child of the commit r leaves.                 *)
LEMMA WriteHistoryOK ==
    ASSUME TypeOK, CallOK, HistoryOK, NEW t \in Thread, NEW out, Return(t, out) \/ Leave(t, out),
           NEW r \in Ref, NEW c \in CommitId, NEW m \in LogMessage, WriteRef(r, c, m),
           m = "user" /\ refs[r] # None => FirstParent(c) = refs[r],
           commits' = commits, \A u \in Thread \ {t} : fs'[u] = fs[u]
    PROVE  HistoryOK'
<1> DEFINE e == [old |-> refs[r], new |-> c, msg |-> m]
<1>1. pc'[t] \in {"idle", "unlock"}
  BY DEF TypeOK, Return, Leave
<1>2. \A u \in Thread \ {t} : /\ pc'[u] = pc[u] /\ call'[u] = call[u]
                              /\ target'[u] = target[u]
  BY DEF TypeOK, Return, Leave
<1>3. \A d : FirstParent(d)' = IF commits[d].parents = <<>> THEN None ELSE Head(commits[d].parents)
  BY DEF FirstParent
<1>4. CASE reflog' = reflog
  BY <1>1, <1>2, <1>4, SameCommitsGrow, FrameHistoryOK
<1>5. CASE reflog' = [reflog EXCEPT ![r] = Append(@, e)]
  <2>1. reflog[r] \in Seq(LogEntry) /\ e \in LogEntry
    <3>1. Len(commits) \in Nat /\ refs[r] \in 0 .. Len(commits) /\ reflog[r] \in Seq(LogEntry)
      BY DEF TypeOK
    <3>2. refs[r] \in Nat /\ c \in Nat
      BY <3>1 DEF CommitId
    <3>3. QED
      BY <3>1, <3>2 DEF LogEntry
  <2>2. reflog'[r] = Append(reflog[r], e) /\ \A s \in Ref \ {r} : reflog'[s] = reflog[s]
    BY <1>5 DEF TypeOK
  <2>3. \A i \in 1 .. Len(reflog'[r]) :
           reflog'[r][i] = e \/ (i \in 1 .. Len(reflog[r]) /\ reflog'[r][i] = reflog[r][i])
    BY <2>1, <2>2
  <2>4. \A s \in Ref : \A i \in 1 .. Len(reflog'[s]) :
           \/ s = r /\ reflog'[s][i] = e
           \/ i \in 1 .. Len(reflog[s]) /\ reflog'[s][i] = reflog[s][i]
    BY <2>2, <2>3
  <2>5. \A s \in Ref : \A i \in 1 .. Len(reflog'[s]) : reflog'[s][i].new \in CommitId
    BY <2>4 DEF HistoryOK, BuiltOnSnapshot
  <2>6. BuiltOnSnapshot'
    <3>1. CommitId' = CommitId
      BY DEF CommitId
    <3>2. ASSUME NEW u \in Thread, pc'[u] \in {"lookup", "update"},
                 call'[u].op = "commit", fs'[u].commit # None
          PROVE  FirstParent(target[u])' = fs'[u].commit
      BY <1>1, <1>2, <3>2 DEF HistoryOK, BuiltOnSnapshot, FirstParent
    <3>3. QED
      BY <2>5, <3>1, <3>2 DEF BuiltOnSnapshot
  <2>7. ReflogExtends'
    <3>1. ASSUME NEW b \in Branch, NEW i \in 1 .. Len(reflog'[b]),
                 reflog'[b][i].msg = "user", reflog'[b][i].old # None
          PROVE  FirstParent(reflog[b][i].new)' = reflog'[b][i].old
      <4>1. CASE b = r /\ reflog'[b][i] = e
        BY <1>3, <3>1, <4>1 DEF FirstParent
      <4>2. CASE i \in 1 .. Len(reflog[b]) /\ reflog'[b][i] = reflog[b][i]
        BY <1>3, <3>1, <4>2 DEF HistoryOK, ReflogExtends, FirstParent
      <4>3. QED
        BY <2>4, <4>1, <4>2 DEF Ref
    <3>2. QED
      BY <3>1 DEF ReflogExtends
  <2>8. QED
    BY <2>6, <2>7 DEF HistoryOK
<1>6. QED
  BY <1>4, <1>5 DEF WriteRef

(* Every step of a serialized store keeps HistoryOK.                        *)
LEMMA NextHistoryOK == TypeOK /\ CallOK /\ CheckStillValid /\ HistoryOK /\ [Next]_vars => HistoryOK'
<1> SUFFICES ASSUME TypeOK, CallOK, CheckStillValid, HistoryOK, [Next]_vars PROVE HistoryOK'
  OBVIOUS
<1>1. ASSUME NEW t \in Thread, NEW r \in Ref, RefDictGet(t, r)
      PROVE HistoryOK'
  BY <1>1, EndHistoryOK, SameCommitsGrow DEF TypeOK, RefDictGet
<1>2. ASSUME NEW t \in Thread, NEW c \in CommitId, FsOfHash(t, c)
      PROVE HistoryOK'
  BY <1>2, EndHistoryOK, SameCommitsGrow DEF TypeOK, FsOfHash
<1>3. ASSUME NEW t \in Thread, NEW b \in Branch, FsEmpty(t, b)
      PROVE HistoryOK'
  BY <1>3, EndHistoryOK, SameCommitsGrow DEF TypeOK, FsEmpty
<1>4. ASSUME NEW t \in Thread, NEW n \in 1 .. MaxBack, FsBack(t, n)
      PROVE HistoryOK'
  BY <1>4, EndHistoryOK, SameCommitsGrow DEF TypeOK, FsBack
<1>5. ASSUME NEW t \in Thread, NEW p \in {<<>>} \cup {<<c>> : c \in CommitId}, FsSquash(t, p)
      PROVE HistoryOK'
  <2> DEFINE c == [parents |-> p, tree |-> TreeOf(fs[t].commit), msg |-> "user"]
  <2>1. PICK id \in WriteCommit(c) :
            /\ commits' = Stored(id, c)
            /\ fs' = [fs EXCEPT ![t] = [ref |-> NoRef, commit |-> id]]
    BY <1>5 DEF FsSquash
  <2>2. c \in Commit
    <3>1. p \in Seq(Nat) /\ TreeOf(fs[t].commit) \in Tree
      BY ParentsType, TreeOfType DEF TypeOK
    <3>2. QED
      BY <3>1 DEF Commit, UserMessage
  <2> HIDE DEF c
  <2>3. CommitsGrow
    BY <2>1, <2>2, StoredType DEF TypeOK, CommitsGrow
  <2>4. QED
    BY <1>5, <2>1, <2>3, EndHistoryOK DEF TypeOK, FsSquash
<1>6. ASSUME NEW t \in Thread, RequireWritable(t) PROVE HistoryOK'
  BY <1>6, EndHistoryOK, SameCommitsGrow DEF TypeOK, RequireWritable
<1>7. ASSUME NEW t \in Thread, NEW change \in Changes[t], NEW m \in Message,
             NEW extra \in ExtraParents, CommitChanges(t, change, m, extra)
      PROVE HistoryOK'
  BY <1>7, FrameHistoryOK, SameCommitsGrow DEF TypeOK, CommitChanges, Goto
<1>8. ASSUME NEW t \in Thread, NEW n \in 1 .. MaxBack, Undo(t, n)
      PROVE HistoryOK'
  <2>1. CASE Return(t, "NotFound")
    BY <1>8, <2>1, EndHistoryOK, SameCommitsGrow DEF Undo
  <2>2. ASSUME NEW c, NEW d, Goto(t, "flock"), call' = [call EXCEPT ![t] = c],
               target' = [target EXCEPT ![t] = d]
        PROVE HistoryOK'
    BY <1>8, <2>2, FrameHistoryOK, SameCommitsGrow DEF TypeOK, Undo, Goto
  <2>3. QED
    BY <1>8, <2>1, <2>2 DEF Undo
<1>9. ASSUME NEW t \in Thread, NEW n \in 1 .. MaxBack, Redo(t, n)
      PROVE HistoryOK'
  <2>1. CASE Return(t, "NotFound")
    BY <1>9, <2>1, EndHistoryOK, SameCommitsGrow DEF Redo
  <2>2. ASSUME NEW c, NEW d, Goto(t, "flock"), call' = [call EXCEPT ![t] = c],
               target' = [target EXCEPT ![t] = d]
        PROVE HistoryOK'
    BY <1>9, <2>2, FrameHistoryOK, SameCommitsGrow DEF TypeOK, Redo, Goto
  <2>3. QED
    BY <1>9, <2>1, <2>2 DEF Redo
<1>10. ASSUME NEW t \in Thread, NEW r \in Ref, RefDictSet(t, r)
      PROVE HistoryOK'
  <2>1. CASE Return(t, "KeyExists")
    BY <1>10, <2>1, EndHistoryOK, SameCommitsGrow DEF RefDictSet
  <2>2. ASSUME NEW c, Goto(t, "set"), call' = [call EXCEPT ![t] = c], target' = target
        PROVE HistoryOK'
    BY <1>10, <2>2, FrameHistoryOK, SameCommitsGrow DEF TypeOK, RefDictSet, Goto
  <2>3. QED
    BY <1>10, <2>1, <2>2 DEF RefDictSet
<1>11. ASSUME NEW t \in Thread, NEW r \in Ref, RefDictDel(t, r)
      PROVE HistoryOK'
  <2>1. CASE Return(t, "KeyNotFound")
    BY <1>11, <2>1, EndHistoryOK, SameCommitsGrow DEF RefDictDel
  <2>2. ASSUME NEW c, Goto(t, "del"), call' = [call EXCEPT ![t] = c], target' = target
        PROVE HistoryOK'
    BY <1>11, <2>2, FrameHistoryOK, SameCommitsGrow DEF TypeOK, RefDictDel, Goto
  <2>3. QED
    BY <1>11, <2>1, <2>2 DEF RefDictDel
<1>12. ASSUME NEW t \in Thread, AcquireRepoLock(t) PROVE HistoryOK'
  BY <1>12, FrameHistoryOK, SameCommitsGrow DEF TypeOK, AcquireRepoLock, Goto
<1>13. ASSUME NEW t \in Thread, TimeOutRepoLock(t) PROVE HistoryOK'
  BY <1>13, EndHistoryOK, SameCommitsGrow DEF TypeOK, TimeOutRepoLock
<1>14. ASSUME NEW t \in Thread, StaleCheck(t) PROVE HistoryOK'
  <2>1. CASE Leave(t, "stale")
    BY <1>14, <2>1, EndHistoryOK, SameCommitsGrow DEF StaleCheck
  <2>2. CASE /\ Goto(t, IF call[t].op = "commit" THEN "build" ELSE "lookup")
             /\ UNCHANGED <<call, target>>
    <3>1. pc[t] \in {"flock", "check"} /\ UNCHANGED <<fs, reflog, commits>>
      BY <1>14 DEF StaleCheck
    <3>2. call[t].op # "commit" => target[t] \in CommitId
      BY <3>1 DEF TypeOK, CallOK, CommitId, None
    <3>3. QED
      BY <2>2, <3>1, <3>2, FrameHistoryOK, SameCommitsGrow DEF TypeOK, Goto
  <2>3. QED
    BY <1>14, <2>1, <2>2 DEF StaleCheck
<1>15. ASSUME NEW t \in Thread, BuildCommit(t) PROVE HistoryOK'
  <2> DEFINE c == [parents |-> (IF fs[t].commit = None THEN <<>> ELSE <<fs[t].commit>>)
                               \o call[t].extra,
                   tree |-> RebuildTree(TreeOf(fs[t].commit), call[t].change),
                   msg |-> call[t].msg]
  <2>1. PICK id \in WriteCommit(c) :
            /\ commits' = Stored(id, c)
            /\ target' = [target EXCEPT ![t] = id]
    BY <1>15 DEF BuildCommit
  <2>2. /\ pc[t] = "build" /\ pc' = [pc EXCEPT ![t] = "lookup"]
        /\ UNCHANGED <<refs, fs, call, reflog>>
    BY <1>15 DEF BuildCommit, Goto
  <2>3. c \in Commit
    BY BuiltCommitType
  <2>4. fs[t].commit # None => c.parents # <<>> /\ Head(c.parents) = fs[t].commit
    <3>1. call[t].extra \in Seq(Nat) /\ fs[t].commit \in Nat
      BY DEF TypeOK, Call, Snapshot
    <3>2. QED
      BY <3>1
  <2> HIDE DEF c
  <2>5. CommitsGrow /\ commits'[id] = c
    BY <2>1, <2>3, StoredType DEF TypeOK, CommitsGrow
  <2>6. \A d \in CommitId : d \in CommitId' /\ FirstParent(d)' = FirstParent(d)
    BY <2>5 DEF CommitsGrow, CommitId, FirstParent, TypeOK
  <2>7. ASSUME NEW u \in Thread, pc'[u] \in {"lookup", "update"},
               call'[u].op = "commit", fs'[u].commit # None
        PROVE  FirstParent(target[u])' = fs'[u].commit
    <3>1. CASE u = t
      <4>1. target'[t] = id /\ fs'[t] = fs[t]
        BY <2>1, <2>2 DEF TypeOK
      <4>2. QED
        BY <2>4, <2>5, <2>7, <3>1, <4>1 DEF FirstParent
    <3>2. CASE u # t
      <4>1. pc'[u] = pc[u] /\ call'[u] = call[u] /\ fs'[u] = fs[u] /\ target'[u] = target[u]
        BY <2>1, <2>2, <3>2 DEF TypeOK
      <4>2. target[u] \in CommitId
        BY <2>7, <4>1 DEF TypeOK, CallOK, CommitId, None
      <4>3. FirstParent(target[u]) = fs[u].commit
        BY <2>7, <4>1 DEF HistoryOK, BuiltOnSnapshot
      <4>4. QED
        BY <2>6, <4>1, <4>2, <4>3
    <3>3. QED
      BY <3>1, <3>2
  <2>8. BuiltOnSnapshot'
    BY <2>2, <2>6, <2>7 DEF HistoryOK, BuiltOnSnapshot
  <2>9. ReflogExtends'
    BY <2>2, <2>6 DEF HistoryOK, BuiltOnSnapshot, ReflogExtends, Ref
  <2>10. QED
    BY <2>8, <2>9 DEF HistoryOK
<1>16. ASSUME NEW t \in Thread, LookupRef(t) PROVE HistoryOK'
  <2>1. CASE Leave(t, "GitError")
    BY <1>16, <2>1, EndHistoryOK, SameCommitsGrow DEF LookupRef
  <2>2. CASE Goto(t, "update") /\ UNCHANGED <<call, target>>
    <3>1. pc[t] = "lookup" /\ UNCHANGED <<fs, reflog, commits>>
      BY <1>16 DEF LookupRef
    <3>2. target[t] \in CommitId
      BY <3>1 DEF TypeOK, CallOK, CommitId, None
    <3>3. QED
      BY <2>2, <3>1, <3>2, FrameHistoryOK, SameCommitsGrow DEF TypeOK, Goto
  <2>3. QED
    BY <1>16, <2>1, <2>2 DEF LookupRef
<1>17. ASSUME NEW t \in Thread, UpdateRef(t) PROVE HistoryOK'
  <2>1. CASE Leave(t, "GitError") /\ UNCHANGED <<refs, reflog, fs>>
    BY <1>17, <2>1, EndHistoryOK, SameCommitsGrow DEF UpdateRef
  <2>2. CASE /\ WriteRef(call[t].ref, target[t], call[t].msg)
             /\ fs' = [fs EXCEPT ![t] = [ref |-> fs[t].ref, commit |-> target[t]]]
             /\ Leave(t, "ok")
    <3>1. pc[t] = "update" /\ pc[t] \in CheckedPc /\ commits' = commits
      BY <1>17 DEF UpdateRef, CheckedPc
    <3>2. target[t] \in CommitId
      BY <3>1 DEF TypeOK, CallOK, CommitId, None
    <3>3. call[t].ref \in Ref /\ call[t].msg \in LogMessage
      <4>1. call[t].ref \in Branch
        BY <3>1 DEF CallOK
      <4>2. call[t].msg \in UserMessage
        BY DEF TypeOK, Call
      <4>3. QED
        BY <4>1, <4>2 DEF Ref, LogMessage
    <3>4. call[t].msg = "user" /\ refs[call[t].ref] # None
          => FirstParent(target[t]) = refs[call[t].ref]
      <4>1. refs[call[t].ref] \in {None, fs[t].commit}
        BY <3>1 DEF CheckStillValid
      <4>2. call[t].msg = "user" => call[t].op = "commit"
        BY <3>1 DEF CallOK
      <4>3. QED
        BY <3>1, <4>1, <4>2 DEF HistoryOK, BuiltOnSnapshot
    <3>5. \A u \in Thread \ {t} : fs'[u] = fs[u]
      BY <2>2 DEF TypeOK
    <3>6. QED
      BY <2>2, <3>1, <3>2, <3>3, <3>4, <3>5, WriteHistoryOK
  <2>3. QED
    BY <1>17, <2>1, <2>2 DEF UpdateRef
<1>18. ASSUME NEW t \in Thread, ReleaseRepoLock(t) PROVE HistoryOK'
  BY <1>18, FrameHistoryOK, SameCommitsGrow DEF TypeOK, ReleaseRepoLock, Goto
<1>19. ASSUME NEW t \in Thread, RefDictCreate(t) PROVE HistoryOK'
  <2>1. call[t].ref \in Ref /\ fs[t].commit \in CommitId
    <3>1. call[t].ref \in Ref /\ fs[t].commit # None
      BY <1>19 DEF CallOK, RefDictCreate
    <3>2. Len(commits) \in Nat /\ fs[t].commit \in 0 .. Len(commits)
      BY DEF TypeOK
    <3>3. QED
      BY <3>1, <3>2 DEF CommitId, None
  <2>2. "refdict: set" \in LogMessage /\ "refdict: set" # "user"
    BY DEF LogMessage
  <2>3. QED
    BY <1>19, <2>1, <2>2, WriteHistoryOK DEF RefDictCreate
<1>20. ASSUME NEW t \in Thread, RefDictDelete(t) PROVE HistoryOK'
  <2>1. CASE Return(t, "GitError") /\ UNCHANGED <<refs, reflog>>
    BY <1>20, <2>1, EndHistoryOK, SameCommitsGrow DEF RefDictDelete
  <2>2. CASE reflog' = [reflog EXCEPT ![call[t].ref] = <<>>] /\ Return(t, "ok")
    <3>1. pc'[t] = "idle" /\ UNCHANGED <<commits, fs>>
      BY <1>20, <2>2 DEF TypeOK, RefDictDelete, Return
    <3>2. \A u \in Thread \ {t} : /\ pc'[u] = pc[u] /\ call'[u] = call[u]
                                  /\ target'[u] = target[u]
      BY <2>2 DEF TypeOK, Return
    <3>3. \A s \in Ref : \A i \in 1 .. Len(reflog'[s]) :
             i \in 1 .. Len(reflog[s]) /\ reflog'[s][i] = reflog[s][i]
      <4>1. \A s \in Ref : reflog'[s] = reflog[s] \/ reflog'[s] = <<>>
        BY <2>2 DEF TypeOK
      <4>2. QED
        BY <4>1
    <3>4. BuiltOnSnapshot'
      BY <3>1, <3>2, <3>3 DEF HistoryOK, BuiltOnSnapshot, FirstParent, CommitId
    <3>5. ReflogExtends'
      BY <3>1, <3>3 DEF HistoryOK, ReflogExtends, FirstParent, Ref
    <3>6. QED
      BY <3>4, <3>5 DEF HistoryOK
  <2>3. QED
    BY <1>20, <2>1, <2>2 DEF RefDictDelete
<1>21. ASSUME NEW t \in Thread, GitFailure(t) PROVE HistoryOK'
  BY <1>21, EndHistoryOK, SameCommitsGrow DEF TypeOK, GitFailure
<1>22. ASSUME NEW h \in Handle, Crash(h) PROVE HistoryOK'
  <2>1. \A u \in Thread : pc'[u] # "idle" =>
            /\ pc'[u] = pc[u] /\ call'[u] = call[u]
            /\ fs'[u] = fs[u] /\ target'[u] = target[u]
    BY <1>22 DEF Crash
  <2>2. commits' = commits /\ reflog' = reflog
    BY <1>22 DEF Crash
  <2>3. BuiltOnSnapshot'
    BY <2>1, <2>2 DEF HistoryOK, BuiltOnSnapshot, FirstParent, CommitId
  <2>4. ReflogExtends'
    BY <2>2 DEF HistoryOK, ReflogExtends, FirstParent
  <2>5. QED
    BY <2>3, <2>4 DEF HistoryOK
<1>23. CASE UNCHANGED vars
  BY <1>23 DEF vars, HistoryOK, BuiltOnSnapshot, ReflogExtends, FirstParent, CommitId
<1>24. QED
  BY <1>1, <1>2, <1>3, <1>4, <1>5, <1>6, <1>7, <1>8, <1>9, <1>10, <1>11, <1>12,
     <1>13, <1>14, <1>15, <1>16, <1>17, <1>18, <1>19, <1>20, <1>21, <1>22, <1>23
  DEF Next, Snapshots, Calls, Proceed, Finished

-----------------------------------------------------------------------------
(* The theorems.                                                           *)

(* Every reachable state of the store is well typed; in particular no      *)
(* reference and no snapshot names a commit that is not stored.            *)
THEOREM TypeCorrect == Spec => []TypeOK
<1>1. Init => TypeOK /\ CallOK
  BY InitTypeOK DEF Init, CallOK, CheckedPc
<1>2. TypeOK /\ CallOK /\ [Next]_vars => (TypeOK /\ CallOK)'
  BY NextTypeOK, NextCallOK
<1>3. QED
  BY <1>1, <1>2, PTL DEF Spec

(* Whatever calls are made, fail or crash, vost.lock and every mutex are   *)
(* held by exactly the thread that is inside the section they guard.       *)
THEOREM LocksOwned == Spec => []LockOwnership
<1>1. Init => TypeOK /\ CallOK /\ LockOwnership
  BY InitTypeOK, InitLockOwnership DEF Init, CallOK, CheckedPc
<1>2. TypeOK /\ CallOK /\ LockOwnership /\ [Next]_vars
      => (TypeOK /\ CallOK /\ LockOwnership)'
  BY NextTypeOK, NextCallOK, NextLockOwnership
<1>3. QED
  BY <1>1, <1>2, PTL DEF Spec

(* In a store that nobody moves references of behind vost.lock's back, the *)
(* stale-snapshot check and the update of the branch are atomic.           *)
THEOREM CheckAtomic ==
    ASSUME Serialized
    PROVE  Spec => []CheckStillValid
<1> DEFINE Inv == TypeOK /\ CallOK /\ LockOwnership /\ CheckStillValid
<1>1. Init => Inv
  BY InitTypeOK, InitLockOwnership, InitCheckStillValid DEF Init, CallOK, CheckedPc
<1>2. Inv /\ [Next]_vars => Inv'
  BY NextTypeOK, NextCallOK, NextLockOwnership, NextCheckStillValid
<1>3. Inv => CheckStillValid
  OBVIOUS
<1> HIDE DEF Inv
<1>4. QED
  BY <1>1, <1>2, <1>3, PTL DEF Spec

(* In such a store every successful commit, undo and redo moves the branch *)
(* away from the commit its snapshot was taken at, or creates it.          *)
THEOREM SwapsFromSnapshot ==
    ASSUME Serialized
    PROVE  Spec => SwapFromSnapshot
<1>1. CheckStillValid /\ [Next]_vars =>
        [\A t \in Thread :
            pc[t] = "update" /\ pc'[t] = "unlock" /\ res'[t] = "ok"
                => refs[call[t].ref] \in {None, fs[t].commit}]_vars
  BY DEF CheckStillValid, CheckedPc
<1>2. QED
  BY <1>1, CheckAtomic, PTL DEF Spec, SwapFromSnapshot

(* In such a store every plain commit in the reflog of a branch is a child *)
(* of the commit it replaced: no commit that moved a branch was dropped by *)
(* a later one.                                                            *)
THEOREM ReflogAlwaysExtends ==
    ASSUME Serialized
    PROVE  Spec => []ReflogExtends
<1> DEFINE Inv == TypeOK /\ CallOK /\ LockOwnership /\ CheckStillValid /\ HistoryOK
<1>1. Init => Inv
  <2> SUFFICES ASSUME Init PROVE Inv
    OBVIOUS
  <2>1. TypeOK /\ LockOwnership /\ CheckStillValid
    BY InitTypeOK, InitLockOwnership, InitCheckStillValid
  <2>2. CallOK
    BY DEF Init, CallOK, CheckedPc
  <2>3. \A r \in Ref : \A i \in 1 .. Len(reflog[r]) :
           reflog[r][i] = [old |-> None, new |-> 1, msg |-> "user"]
    BY DEF Init
  <2>4. HistoryOK
    BY <2>3 DEF Init, HistoryOK, BuiltOnSnapshot, ReflogExtends, CommitId, Ref
  <2>5. QED
    BY <2>1, <2>2, <2>4
<1>2. Inv /\ [Next]_vars => Inv'
  BY NextTypeOK, NextCallOK, NextLockOwnership, NextCheckStillValid, NextHistoryOK
<1>3. Inv => ReflogExtends
  BY DEF HistoryOK
<1> HIDE DEF Inv
<1>4. QED
  BY <1>1, <1>2, <1>3, PTL DEF Spec

-----------------------------------------------------------------------------
(* The steps that move references.                                         *)

Moved(t) ==
    /\ pc[t] = "update" /\ refs[call[t].ref] = existing[t]
    /\ WriteRef(call[t].ref, target[t], call[t].msg)
    /\ fs' = [fs EXCEPT ![t] = [ref |-> fs[t].ref, commit |-> target[t]]]
    /\ commits' = commits

Assigned(t) ==
    /\ pc[t] = "set" /\ pc'[t] = "idle"
    /\ WriteRef(call[t].ref, fs[t].commit, "refdict: set")

Deleted(t) ==
    /\ pc[t] = "del"
    /\ refs' = [refs EXCEPT ![call[t].ref] = None]
    /\ reflog' = [reflog EXCEPT ![call[t].ref] = <<>>]

(* Only the update of commit_changes, undo and redo, RefDict::set and      *)
(* RefDict::del write a reference or a reflog.                             *)
LEMMA RefMoves ==
    ASSUME TypeOK, [Next]_vars
    PROVE  \/ UNCHANGED <<refs, reflog>>
           \/ \E t \in Thread : Moved(t) \/ Assigned(t) \/ Deleted(t)
<1> DEFINE Same == UNCHANGED <<refs, reflog>>
<1>1. ASSUME NEW t \in Thread, Snapshots(t) PROVE Same
  BY <1>1 DEF Snapshots, RefDictGet, FsOfHash, FsEmpty, FsBack, FsSquash
<1>2. ASSUME NEW t \in Thread, Calls(t) PROVE Same
  BY <1>2 DEF Calls, RequireWritable, CommitChanges, Undo, Redo, RefDictSet, RefDictDel
<1>3. ASSUME NEW t \in Thread, Proceed(t) PROVE Same \/ Moved(t) \/ Assigned(t) \/ Deleted(t)
  <2>1. ASSUME UpdateRef(t) PROVE Same \/ Moved(t)
    BY <2>1 DEF UpdateRef, Moved
  <2>2. ASSUME RefDictCreate(t) PROVE Assigned(t)
    BY <2>2 DEF TypeOK, RefDictCreate, Return, Assigned
  <2>3. ASSUME RefDictDelete(t) PROVE Same \/ Deleted(t)
    BY <2>3 DEF RefDictDelete, Deleted
  <2>4. QED
    BY <1>3, <2>1, <2>2, <2>3
    DEF Proceed, AcquireRepoLock, TimeOutRepoLock, StaleCheck, BuildCommit, LookupRef,
        ReleaseRepoLock
<1>4. ASSUME NEW t \in Thread, GitFailure(t) PROVE Same
  BY <1>4 DEF GitFailure
<1>5. ASSUME NEW h \in Handle, Crash(h) PROVE Same
  BY <1>5 DEF Crash
<1>6. CASE UNCHANGED vars
  BY <1>6 DEF vars
<1>7. QED
  BY <1>1, <1>2, <1>3, <1>4, <1>5, <1>6 DEF Next, Finished

-----------------------------------------------------------------------------
(* The reflog is a chain.                                                  *)

(* One reflog as ReflogChain has it; its first entry is the creation.      *)
Chain(log, tip) ==
    /\ log = <<>> <=> tip = None
    /\ log # <<>> => log[Len(log)].new = tip /\ log[1].old = None
    /\ \A i \in 1 .. Len(log) - 1 : log[i+1].old = log[i].new

LogsOK == \A r \in Ref : Chain(reflog[r], refs[r])

(* Writing a reference to a stored commit keeps all of them chains.        *)
LEMMA WriteRefChain ==
    ASSUME TypeOK, LogsOK, NEW r \in Ref, NEW c \in CommitId, NEW m, WriteRef(r, c, m)
    PROVE  LogsOK'
<1>1. c # None
  BY DEF CommitId, None
<1>2. CASE refs[r] = c
  <2>1. refs' = refs /\ reflog' = reflog
    BY <1>2 DEF WriteRef, TypeOK
  <2>2. QED
    BY <2>1 DEF LogsOK
<1>3. CASE refs[r] # c
  <2> DEFINE e == [old |-> refs[r], new |-> c, msg |-> m]
             log == reflog[r]
             longer == Append(log, e)
  <2>1. refs' = [refs EXCEPT ![r] = c] /\ reflog' = [reflog EXCEPT ![r] = longer]
    BY <1>3 DEF WriteRef
  <2>2. \A s \in Ref \ {r} : reflog'[s] = reflog[s] /\ refs'[s] = refs[s]
    BY <2>1 DEF TypeOK
  <2>3. reflog'[r] = longer /\ refs'[r] = c
    BY <2>1 DEF TypeOK
  <2>4. log \in Seq(LogEntry) /\ Chain(log, refs[r])
    BY DEF TypeOK, LogsOK
  <2>5. /\ longer # <<>> /\ Len(longer) = Len(log) + 1 /\ longer[Len(longer)] = e
        /\ \A i \in 1 .. Len(log) : longer[i] = log[i]
    BY <2>4
  <2>6. e.old = refs[r] /\ e.new = c
    OBVIOUS
  <2> HIDE DEF e, log, longer
  <2>7. longer[1].old = None
    <3>1. CASE log = <<>>
      <4>1. Len(longer) = 1
        BY <2>5, <3>1
      <4>2. QED
        BY <2>4, <2>5, <2>6, <3>1, <4>1 DEF Chain
    <3>2. CASE log # <<>>
      <4>1. 1 \in 1 .. Len(log)
        BY <2>4, <3>2
      <4>2. QED
        BY <2>4, <2>5, <3>2, <4>1 DEF Chain
    <3>3. QED
      BY <3>1, <3>2
  <2>8. ASSUME NEW i \in 1 .. Len(longer) - 1 PROVE longer[i+1].old = longer[i].new
    <3>1. Len(log) \in Nat /\ i \in 1 .. Len(log)
      BY <2>4, <2>5
    <3>2. CASE i = Len(log)
      <4>1. longer[i].new = refs[r]
        BY <2>4, <2>5, <3>1, <3>2 DEF Chain
      <4>2. QED
        BY <2>5, <2>6, <3>2, <4>1
    <3>3. CASE i # Len(log)
      <4>1. i \in 1 .. Len(log) - 1 /\ i + 1 \in 1 .. Len(log)
        BY <3>1, <3>3
      <4>2. QED
        BY <2>4, <2>5, <4>1 DEF Chain
    <3>4. QED
      BY <3>2, <3>3
  <2>9. Chain(longer, c)
    BY <1>1, <2>5, <2>6, <2>7, <2>8 DEF Chain
  <2>10. QED
    BY <2>2, <2>3, <2>9 DEF LogsOK
<1>4. QED
  BY <1>2, <1>3

(* Every step keeps the reflogs chains, RefDict::del by dropping the log.  *)
LEMMA NextLogsOK == TypeOK /\ CallOK /\ LogsOK /\ [Next]_vars => LogsOK'
<1> SUFFICES ASSUME TypeOK, CallOK, LogsOK, [Next]_vars PROVE LogsOK'
  OBVIOUS
<1>1. CASE UNCHANGED <<refs, reflog>>
  BY <1>1 DEF LogsOK
<1>2. ASSUME NEW t \in Thread, Moved(t) PROVE LogsOK'
  <2>1. call[t].ref \in Ref /\ target[t] # None
    BY <1>2 DEF Moved, CallOK, CheckedPc, Ref
  <2>2. target[t] \in CommitId
    BY <2>1 DEF TypeOK, CommitId, None
  <2>3. QED
    BY <1>2, <2>1, <2>2, WriteRefChain DEF Moved
<1>3. ASSUME NEW t \in Thread, Assigned(t) PROVE LogsOK'
  <2>1. call[t].ref \in Ref /\ fs[t].commit # None
    BY <1>3 DEF Assigned, CallOK
  <2>2. fs[t].commit \in CommitId
    BY <2>1 DEF TypeOK, CommitId, None
  <2>3. QED
    BY <1>3, <2>1, <2>2, WriteRefChain DEF Assigned
<1>4. ASSUME NEW t \in Thread, Deleted(t) PROVE LogsOK'
  <2>1. \A s \in Ref : \/ reflog'[s] = reflog[s] /\ refs'[s] = refs[s]
                       \/ reflog'[s] = <<>> /\ refs'[s] = None
    BY <1>4 DEF Deleted, TypeOK
  <2>2. Chain(<<>>, None)
    BY DEF Chain
  <2>3. QED
    BY <2>1, <2>2 DEF LogsOK
<1>5. QED
  BY <1>1, <1>2, <1>3, <1>4, RefMoves

-----------------------------------------------------------------------------
(* What the pass of Fs::redo over the reflog finds.                        *)

ScanState == [cur : Nat, found : Nat]

(* One iteration of the pass, at the i-th entry from the end.              *)
ScanStep(log, n, seen, i) ==
    LET e == log[Len(log) + 1 - i]
    IN IF seen.found < n /\ e.msg \in {"undo:", "redo:"} /\ e.new = seen.cur /\ e.old # None
       THEN [cur |-> e.old, found |-> seen.found + 1]
       ELSE seen

(* The pass is the iteration of ScanStep.                                  *)
LEMMA RedoScanIs ==
    ASSUME NEW log \in Seq(LogEntry), NEW c \in Nat, NEW n \in Nat
    PROVE  \E s \in [0 .. Len(log) -> ScanState] :
              /\ s[0] = [cur |-> c, found |-> 0]
              /\ \A i \in 1 .. Len(log) : s[i] = ScanStep(log, n, s[i-1], i)
              /\ RedoScan(log, c, n) = s[Len(log)]
<1> DEFINE L == Len(log)
           first == [cur |-> c, found |-> 0]
           prev == [i \in 1 .. L |-> i - 1]
           step == [i \in 1 .. L |-> [x \in ScanState |-> ScanStep(log, n, x, i)]]
           body(f) == [i \in 0 .. L |-> IF i = 0 THEN first ELSE ScanStep(log, n, f[i-1], i)]
           s == CHOOSE f : f = body(f)
<1>1. L \in Nat
  OBVIOUS
<1>2. ASSUME NEW x \in ScanState, NEW i \in 1 .. L PROVE ScanStep(log, n, x, i) \in ScanState
  <2>1. log[L + 1 - i] \in LogEntry
    BY <1>1
  <2>2. QED
    BY <2>1 DEF ScanStep, ScanState, LogEntry
<1>3. RedoScan(log, c, n) = s[L]
  BY ZenonT(30) DEF RedoScan, ScanStep
<1>4. IsRecursion(L, ScanState, first, prev, step)
  <2>1. first \in ScanState
    BY DEF ScanState
  <2>2. prev \in [1 .. L -> Nat] /\ \A i \in 1 .. L : prev[i] < i
    BY <1>1
  <2>3. step \in [1 .. L -> [ScanState -> ScanState]]
    BY <1>2
  <2>4. QED
    BY <1>1, <2>1, <2>2, <2>3 DEF IsRecursion
<1> HIDE DEF L, first, s
<1>5. \E f : f = body(f)
  <2> HIDE DEF prev, step
  <2>1. PICK f : Solves(f, L, ScanState, first, prev, step)
    BY <1>4, Recursion
  <2>2. /\ f \in [0 .. L -> ScanState] /\ f[0] = first
        /\ \A i \in 1 .. L : f[i] = step[i][f[prev[i]]]
    BY <2>1 DEF Solves
  <2>3. ASSUME NEW i \in 1 .. L PROVE f[i] = ScanStep(log, n, f[i-1], i)
    <3>1. prev[i] = i - 1 /\ i - 1 \in 0 .. L
      BY <1>1 DEF prev
    <3>2. f[i-1] \in ScanState
      BY <2>2, <3>1
    <3>3. QED
      BY <2>2, <3>1, <3>2 DEF step
  <2>4. \A i \in 0 .. L : i = 0 \/ i \in 1 .. L
    BY <1>1
  <2>5. f = body(f)
    BY <2>2, <2>3, <2>4
  <2>6. QED
    BY <2>5
<1>6. s = body(s)
  <2> HIDE DEF body
  <2>1. QED
    BY <1>5 DEF s
<1>7. /\ \A i \in 1 .. L : s[i] = ScanStep(log, n, s[i-1], i)
      /\ s[0] = first
  <2>1. \A i \in 0 .. L : s[i] = IF i = 0 THEN first ELSE ScanStep(log, n, s[i-1], i)
    BY <1>6
  <2>2. QED
    BY <1>1, <2>1
<1>8. s \in [0 .. L -> ScanState]
  <2> DEFINE T == {i \in 0 .. L : s[i] \in ScanState}
  <2>1. 0 \in T
    BY <1>1, <1>4, <1>7 DEF IsRecursion
  <2>2. ASSUME NEW k \in 0 .. L, k < L, k \in T PROVE k + 1 \in T
    <3>1. k + 1 \in 1 .. L /\ (k + 1) - 1 = k
      BY <1>1, <2>2
    <3>2. s[k + 1] = ScanStep(log, n, s[k], k + 1)
      BY <1>7, <3>1
    <3>3. QED
      BY <1>2, <2>2, <3>1, <3>2
  <2> HIDE DEF T
  <2>3. 0 .. L \subseteq T
    BY <1>1, <2>1, <2>2, InductionUpTo
  <2>4. \A i \in 0 .. L : s[i] \in ScanState
    BY <2>3 DEF T
  <2>5. s = [i \in 0 .. L |-> s[i]]
    BY <1>6
  <2>6. QED
    BY <2>4, <2>5
<1>9. QED
  BY <1>3, <1>7, <1>8 DEF L, first

(* When the last k entries are undos, each of a commit, the pass follows   *)
(* exactly these.                                                          *)
LEMMA ScanRetraces ==
    ASSUME NEW log \in Seq(LogEntry), NEW tip \in Nat, Chain(log, tip),
           NEW k \in 1 .. Len(log),
           \A i \in Len(log) + 1 - k .. Len(log) : log[i].msg = "undo:" /\ log[i].old # None
    PROVE  RedoScan(log, tip, k) = [cur |-> log[Len(log) + 1 - k].old, found |-> k]
<1> DEFINE L == Len(log)
           at(j) == IF j = 0 THEN tip ELSE log[L + 1 - j].old
<1>1. L \in Nat /\ k \in Nat /\ 1 <= k /\ k <= L
  OBVIOUS
<1>2. PICK s \in [0 .. L -> ScanState] :
         /\ s[0] = [cur |-> tip, found |-> 0]
         /\ \A i \in 1 .. L : s[i] = ScanStep(log, k, s[i-1], i)
         /\ RedoScan(log, tip, k) = s[L]
  BY <1>1, RedoScanIs
<1> DEFINE T == {j \in 0 .. k : s[j] = [cur |-> at(j), found |-> j]}
           U == {j \in 0 .. L : j >= k => s[j] = [cur |-> at(k), found |-> k]}
<1>3. 0 \in T
  BY <1>1, <1>2
<1>4. ASSUME NEW j \in 0 .. k, j < k, j \in T PROVE j + 1 \in T
  <2> DEFINE e == log[L + 1 - (j + 1)]
  <2>1. j + 1 \in 1 .. L /\ (j + 1) - 1 = j /\ L + 1 - (j + 1) = L - j /\ L - j \in 1 .. L
    BY <1>1, <1>4
  <2>2. s[j + 1] = ScanStep(log, k, s[j], j + 1)
    BY <1>2, <2>1
  <2>3. e.msg = "undo:" /\ e.old # None
    <3>1. L - j \in L + 1 - k .. L
      BY <1>1, <1>4
    <3>2. QED
      BY <2>1, <3>1
  <2>4. e.new = at(j)
    <3>1. CASE j = 0
      <4>1. log # <<>>
        BY <1>1
      <4>2. QED
        BY <2>1, <3>1, <4>1 DEF Chain
    <3>2. CASE j # 0
      <4>1. L - j \in 1 .. L - 1 /\ (L - j) + 1 = L + 1 - j
        BY <1>1, <1>4, <3>2
      <4>2. QED
        BY <2>1, <3>2, <4>1 DEF Chain
    <3>3. QED
      BY <3>1, <3>2
  <2>5. s[j] = [cur |-> at(j), found |-> j]
    BY <1>4
  <2> HIDE DEF at, e
  <2>6. s[j + 1] = [cur |-> e.old, found |-> j + 1]
    BY <1>4, <2>2, <2>3, <2>4, <2>5 DEF ScanStep, e
  <2>7. at(j + 1) = e.old /\ j + 1 \in 0 .. k
    BY <1>1, <1>4 DEF at, e
  <2>8. QED
    BY <2>6, <2>7
<1> HIDE DEF T, U
<1>5. 0 .. k \subseteq T
  BY <1>1, <1>3, <1>4, InductionUpTo
<1>6. s[k] = [cur |-> at(k), found |-> k]
  <2>1. k \in T
    BY <1>1, <1>5
  <2>2. QED
    BY <2>1 DEF T
<1> HIDE DEF at
<1>7. 0 \in U
  BY <1>1 DEF U
<1>8. ASSUME NEW j \in 0 .. L, j < L, j \in U PROVE j + 1 \in U
  <2>1. j + 1 \in 1 .. L /\ j + 1 \in 0 .. L /\ (j + 1) - 1 = j
    BY <1>1, <1>8
  <2>2. s[j + 1] = ScanStep(log, k, s[j], j + 1)
    BY <1>2, <2>1
  <2>3. CASE j + 1 = k
    BY <1>6, <2>1, <2>3 DEF U
  <2>4. CASE j >= k
    <3>1. s[j] = [cur |-> at(k), found |-> k]
      BY <1>8, <2>4 DEF U
    <3>2. s[j + 1] = s[j]
      BY <1>1, <2>2, <3>1 DEF ScanStep
    <3>3. QED
      BY <2>1, <3>1, <3>2 DEF U
  <2>5. CASE j + 1 < k
    BY <1>1, <2>1, <2>5 DEF U
  <2>6. QED
    BY <1>1, <2>3, <2>4, <2>5
<1>9. 0 .. L \subseteq U
  BY <1>1, <1>7, <1>8, InductionUpTo
<1>10. s[L] = [cur |-> at(k), found |-> k]
  BY <1>1, <1>9 DEF U
<1>11. at(k) = log[L + 1 - k].old
  BY <1>1 DEF at
<1>12. QED
  BY <1>2, <1>10, <1>11

(* In a chain the pass ends where it started or at a commit the branch     *)
(* has been at.                                                            *)
LEMMA ScanStaysInPast ==
    ASSUME NEW log \in Seq(LogEntry), NEW tip, Chain(log, tip), NEW c \in Nat, NEW n \in Nat
    PROVE  LET scan == RedoScan(log, c, n)
           IN scan.found # 0 => \E i \in 1 .. Len(log) : log[i].new = scan.cur
<1> DEFINE L == Len(log)
           Past == {log[i].new : i \in 1 .. L}
<1>1. L \in Nat
  OBVIOUS
<1>2. PICK s \in [0 .. L -> ScanState] :
         /\ s[0] = [cur |-> c, found |-> 0]
         /\ \A i \in 1 .. L : s[i] = ScanStep(log, n, s[i-1], i)
         /\ RedoScan(log, c, n) = s[L]
  BY <1>1, RedoScanIs
<1> DEFINE T == {j \in 0 .. L : s[j].found # 0 => s[j].cur \in Past}
<1>3. 0 \in T
  BY <1>1, <1>2
<1>4. ASSUME NEW j \in 0 .. L, j < L, j \in T PROVE j + 1 \in T
  <2> DEFINE e == log[L + 1 - (j + 1)]
  <2>1. j + 1 \in 1 .. L /\ (j + 1) - 1 = j /\ L + 1 - (j + 1) = L - j /\ L - j \in 1 .. L
    BY <1>1, <1>4
  <2>2. s[j + 1] = ScanStep(log, n, s[j], j + 1)
    BY <1>2, <2>1
  <2>3. e.old # None => e.old \in Past
    <3>1. CASE L - j = 1
      <4>1. log # <<>>
        BY <2>1
      <4>2. QED
        BY <2>1, <3>1, <4>1 DEF Chain
    <3>2. CASE L - j # 1
      <4>1. L - j - 1 \in 1 .. L - 1 /\ L - j - 1 \in 1 .. L /\ (L - j - 1) + 1 = L - j
        BY <1>1, <2>1, <3>2
      <4>2. QED
        BY <2>1, <4>1, ZenonT(60) DEF Chain
    <3>3. QED
      BY <3>1, <3>2
  <2>4. s[j] \in ScanState
    BY <1>2
  <2>5. s[j + 1] = s[j] \/ (s[j + 1].cur = e.old /\ e.old # None)
    BY <2>2 DEF ScanStep
  <2> HIDE DEF e, Past
  <2>6. QED
    BY <1>4, <2>1, <2>3, <2>5
<1> HIDE DEF T
<1>5. 0 .. L \subseteq T
  BY <1>1, <1>3, <1>4, InductionUpTo
<1>6. QED
  BY <1>1, <1>2, <1>5, SMTT(20) DEF T

-----------------------------------------------------------------------------
(* What a step does to one thread.                                         *)

(* Nothing of t's call changes but the place it has reached.               *)
Advances(t) ==
    /\ call'[t] = call[t] /\ target'[t] = target[t]
    /\ existing'[t] = existing[t] /\ fs'[t] = fs[t]
    /\ \/ pc'[t] = pc[t]
       \/ pc[t] = "flock" /\ pc'[t] = "check"
       \/ pc[t] = "check" /\ pc'[t] = "build" /\ call[t].op = "commit"
       \/ pc[t] = "check" /\ pc'[t] = "lookup" /\ call[t].op # "commit"

(* t makes a call that is to move its branch.                              *)
Begins(t) ==
    /\ pc'[t] = "flock"
    /\ UNCHANGED <<commits, reflog, refs, fs>>
    /\ \/ \E change \in Changes[t], m \in Message, extra \in ExtraParents :
             /\ fs[t].ref \in Branch
             /\ call'[t] = MakeCall("commit", fs[t].ref, change, m, extra)
       \/ \E n \in 1 .. MaxBack :
             /\ fs[t].ref \in Branch
             /\ call'[t] = MakeCall("undo", fs[t].ref, EmptyTree, "undo:", <<>>)
             /\ target'[t] = NthParent(fs[t].commit, n) /\ target'[t] \in CommitId
       \/ \E n \in 1 .. MaxBack :
             LET scan == RedoScan(reflog[fs[t].ref], fs[t].commit, n)
             IN /\ fs[t].ref \in Branch
                /\ call'[t] = MakeCall("redo", fs[t].ref, EmptyTree, "redo:", <<>>)
                /\ target'[t] = scan.cur /\ scan.found = n

(* Every step ends t's call, leaves it where it is, advances it, begins    *)
(* one, or is one of the steps that compute a local of it.                 *)
LEMMA ThreadSteps ==
    ASSUME TypeOK, [Next]_vars, NEW t \in Thread
    PROVE  \/ pc'[t] \in {"idle", "unlock", "set", "del"}
           \/ Advances(t)
           \/ Begins(t)
           \/ BuildCommit(t)
           \/ LookupRef(t) /\ pc'[t] = "update"
<1> DEFINE Goal == \/ pc'[t] \in {"idle", "unlock", "set", "del"}
                   \/ Advances(t)
                   \/ Begins(t)
                   \/ BuildCommit(t)
                   \/ LookupRef(t) /\ pc'[t] = "update"
<1>1. ASSUME NEW u \in Thread, NEW r, Return(u, r) \/ Leave(u, r), u # t => fs'[t] = fs[t]
      PROVE  Goal
  BY <1>1 DEF TypeOK, Return, Leave, Advances
<1>2. ASSUME NEW u \in Thread, Snapshots(u) PROVE Goal
  <2>1. \E r : Return(u, r)
    BY <1>2, Zenon DEF Snapshots, RefDictGet, FsOfHash, FsEmpty, FsBack, FsSquash
  <2>2. u # t => fs'[t] = fs[t]
    BY <1>2 DEF TypeOK, Snapshots, RefDictGet, FsOfHash, FsEmpty, FsBack, FsSquash
  <2>3. QED
    BY <1>1, <2>1, <2>2
<1>3. ASSUME NEW u \in Thread, RequireWritable(u) PROVE Goal
  BY <1>1, <1>3 DEF RequireWritable
<1>4. ASSUME NEW u \in Thread, NEW change \in Changes[u], NEW m \in Message,
             NEW extra \in ExtraParents, CommitChanges(u, change, m, extra)
      PROVE  Goal
  <2>1. CASE u = t
    <3>1. pc'[t] = "flock" /\ call'[t] = MakeCall("commit", fs[t].ref, change, m, extra)
      BY <1>4, <2>1 DEF TypeOK, CommitChanges, Goto
    <3>2. fs[t].ref \in Branch /\ UNCHANGED <<commits, reflog, refs, fs>>
      BY <1>4, <2>1 DEF CommitChanges, Writable
    <3>3. QED
      BY <2>1, <3>1, <3>2 DEF Begins
  <2>2. CASE u # t
    BY <1>4, <2>2 DEF TypeOK, CommitChanges, Goto, Advances
  <2>3. QED
    BY <2>1, <2>2
<1>5. ASSUME NEW u \in Thread, NEW n \in 1 .. MaxBack, Undo(u, n) PROVE Goal
  <2> DEFINE c == NthParent(fs[u].commit, n)
  <2> HIDE DEF c
  <2>1. CASE Return(u, "NotFound")
    BY <1>1, <1>5, <2>1 DEF Undo
  <2>2. CASE /\ c \in CommitId /\ Goto(u, "flock")
             /\ call' = [call EXCEPT ![u] =
                           MakeCall("undo", fs[u].ref, EmptyTree, "undo:", <<>>)]
             /\ target' = [target EXCEPT ![u] = c]
             /\ UNCHANGED <<existing, res>>
    <3>1. CASE u = t
      <4>1. /\ pc'[t] = "flock" /\ target'[t] = c
            /\ call'[t] = MakeCall("undo", fs[t].ref, EmptyTree, "undo:", <<>>)
        BY <2>2, <3>1 DEF TypeOK, Goto
      <4>2. fs[t].ref \in Branch /\ UNCHANGED <<commits, reflog, refs, fs>>
        BY <1>5, <3>1 DEF Undo, Writable
      <4>3. QED
        BY <2>2, <3>1, <4>1, <4>2 DEF Begins, c
    <3>2. CASE u # t
      BY <1>5, <2>2, <3>2 DEF TypeOK, Undo, Goto, Advances
    <3>3. QED
      BY <3>1, <3>2
  <2>3. QED
    BY <1>5, <2>1, <2>2 DEF Undo, c
<1>6. ASSUME NEW u \in Thread, NEW n \in 1 .. MaxBack, Redo(u, n) PROVE Goal
  <2> DEFINE scan == RedoScan(reflog[fs[u].ref], fs[u].commit, n)
  <2> HIDE DEF scan
  <2>1. CASE Return(u, "NotFound")
    BY <1>1, <1>6, <2>1 DEF Redo
  <2>2. CASE /\ scan.found = n /\ Goto(u, "flock")
             /\ call' = [call EXCEPT ![u] =
                           MakeCall("redo", fs[u].ref, EmptyTree, "redo:", <<>>)]
             /\ target' = [target EXCEPT ![u] = scan.cur]
             /\ UNCHANGED <<existing, res>>
    <3>1. CASE u = t
      <4>1. /\ pc'[t] = "flock" /\ target'[t] = scan.cur
            /\ call'[t] = MakeCall("redo", fs[t].ref, EmptyTree, "redo:", <<>>)
        BY <2>2, <3>1 DEF TypeOK, Goto
      <4>2. fs[t].ref \in Branch /\ UNCHANGED <<commits, reflog, refs, fs>>
        BY <1>6, <3>1 DEF Redo, Writable
      <4>3. QED
        BY <2>2, <3>1, <4>1, <4>2, Zenon DEF Begins, scan
    <3>2. CASE u # t
      BY <1>6, <2>2, <3>2 DEF TypeOK, Redo, Goto, Advances
    <3>3. QED
      BY <3>1, <3>2
  <2>3. QED
    BY <1>6, <2>1, <2>2, Zenon DEF Redo, scan
<1>7. ASSUME NEW u \in Thread, NEW r \in Ref, RefDictSet(u, r) \/ RefDictDel(u, r) PROVE Goal
  BY <1>1, <1>7 DEF TypeOK, RefDictSet, RefDictDel, Goto, Advances
<1>8. ASSUME NEW u \in Thread, Proceed(u) \/ GitFailure(u) PROVE Goal
  <2>1. CASE AcquireRepoLock(u) \/ ReleaseRepoLock(u)
    BY <2>1 DEF TypeOK, AcquireRepoLock, ReleaseRepoLock, Goto, Advances
  <2>2. CASE TimeOutRepoLock(u) \/ RefDictCreate(u) \/ RefDictDelete(u) \/ GitFailure(u)
    BY <1>1, <2>2 DEF TimeOutRepoLock, RefDictCreate, RefDictDelete, GitFailure
  <2>3. CASE StaleCheck(u)
    <3>1. CASE Leave(u, "stale")
      BY <1>1, <2>3, <3>1 DEF StaleCheck
    <3>2. CASE /\ Goto(u, IF call[u].op = "commit" THEN "build" ELSE "lookup")
               /\ UNCHANGED <<call, target, existing, res>>
      BY <2>3, <3>2 DEF TypeOK, StaleCheck, Goto, Advances
    <3>3. QED
      BY <2>3, <3>1, <3>2 DEF StaleCheck
  <2>4. CASE BuildCommit(u)
    <3>1. CASE u = t
      BY <2>4, <3>1
    <3>2. CASE u # t
      <4>1. \E id : target' = [target EXCEPT ![u] = id]
        BY <2>4 DEF BuildCommit
      <4>2. target'[t] = target[t]
        BY <3>2, <4>1 DEF TypeOK
      <4>3. QED
        BY <2>4, <3>2, <4>2 DEF TypeOK, BuildCommit, Goto, Advances
    <3>3. QED
      BY <3>1, <3>2
  <2>5. CASE LookupRef(u)
    <3>1. CASE Leave(u, "GitError")
      BY <1>1, <2>5, <3>1 DEF LookupRef
    <3>2. CASE Goto(u, "update") /\ UNCHANGED <<call, target>>
      <4>1. CASE u = t
        BY <2>5, <3>2, <4>1 DEF TypeOK, Goto
      <4>2. CASE u # t
        <5>1. pc'[t] = pc[t] /\ existing'[t] = existing[t]
          BY <2>5, <3>2, <4>2 DEF TypeOK, LookupRef, Goto, Leave
        <5>2. QED
          BY <2>5, <3>2, <4>2, <5>1 DEF LookupRef, Advances
      <4>3. QED
        BY <4>1, <4>2
    <3>3. QED
      BY <2>5, <3>1, <3>2 DEF LookupRef
  <2>6. CASE UpdateRef(u)
    <3>1. u # t => fs'[t] = fs[t]
      BY <2>6 DEF TypeOK, UpdateRef
    <3>2. QED
      BY <1>1, <2>6, <3>1 DEF UpdateRef
  <2>7. QED
    BY <1>8, <2>1, <2>2, <2>3, <2>4, <2>5, <2>6 DEF Proceed
<1>9. ASSUME NEW h \in Handle, Crash(h) PROVE Goal
  BY <1>9 DEF Crash, Advances
<1>10. CASE UNCHANGED vars
  BY <1>10 DEF vars, Advances
<1> HIDE DEF Goal
<1>11. QED
  BY <1>2, <1>3, <1>4, <1>5, <1>6, <1>7, <1>8, <1>9, <1>10 DEF Next, Calls, Finished, Goal

(* Commits are stored by BuildCommit and by Fs::squash only.               *)
LEMMA StoreSteps ==
    ASSUME [Next]_vars
    PROVE  \/ \E t \in Thread : BuildCommit(t)
           \/ \E t \in Thread : \E p \in {<<>>} \cup {<<d>> : d \in CommitId} : FsSquash(t, p)
           \/ commits' = commits
<1>1. ASSUME NEW t \in Thread, Snapshots(t)
      PROVE  \/ \E p \in {<<>>} \cup {<<d>> : d \in CommitId} : FsSquash(t, p)
             \/ commits' = commits
  BY <1>1 DEF Snapshots, RefDictGet, FsOfHash, FsEmpty, FsBack
<1>2. ASSUME NEW t \in Thread, Calls(t) PROVE commits' = commits
  BY <1>2 DEF Calls, RequireWritable, CommitChanges, Undo, Redo, RefDictSet, RefDictDel
<1>3. ASSUME NEW t \in Thread, Proceed(t) PROVE BuildCommit(t) \/ commits' = commits
  BY <1>3 DEF Proceed, AcquireRepoLock, TimeOutRepoLock, StaleCheck, LookupRef, UpdateRef,
              ReleaseRepoLock, RefDictCreate, RefDictDelete
<1>4. QED
  BY <1>1, <1>2, <1>3 DEF Next, GitFailure, Crash, Finished, vars

(* Stored commits never change.                                            *)
LEMMA NextCommitsGrow == TypeOK /\ [Next]_vars => CommitsGrow
<1> SUFFICES ASSUME TypeOK, [Next]_vars PROVE CommitsGrow
  OBVIOUS
<1>1. ASSUME NEW t \in Thread, BuildCommit(t) PROVE CommitsGrow
  <2> DEFINE c == [parents |-> (IF fs[t].commit = None THEN <<>> ELSE <<fs[t].commit>>)
                               \o call[t].extra,
                   tree |-> RebuildTree(TreeOf(fs[t].commit), call[t].change),
                   msg |-> call[t].msg]
  <2>1. c \in Commit
    BY BuiltCommitType
  <2>2. PICK id \in WriteCommit(c) : commits' = Stored(id, c)
    BY <1>1 DEF BuildCommit
  <2> HIDE DEF c
  <2>3. commits \in Seq(Commit) /\ Len(commits) \in Nat
    BY DEF TypeOK
  <2>4. /\ commits' \in Seq(Commit) /\ Len(commits') >= Len(commits)
        /\ \A i \in 1 .. Len(commits) : commits'[i] = commits[i]
    BY <2>1, <2>2, <2>3, StoredType, Zenon
  <2>5. QED
    BY <2>3, <2>4 DEF CommitsGrow
<1>2. ASSUME NEW t \in Thread, NEW p \in {<<>>} \cup {<<d>> : d \in CommitId}, FsSquash(t, p)
      PROVE  CommitsGrow
  <2> DEFINE c == [parents |-> p, tree |-> TreeOf(fs[t].commit), msg |-> "user"]
  <2>1. c \in Commit
    <3>1. p \in Seq(Nat)
      BY ParentsType DEF TypeOK
    <3>2. TreeOf(fs[t].commit) \in Tree
      BY TreeOfType DEF TypeOK
    <3>3. QED
      BY <3>1, <3>2 DEF Commit, UserMessage
  <2>2. PICK id \in WriteCommit(c) : commits' = Stored(id, c)
    BY <1>2 DEF FsSquash
  <2> HIDE DEF c
  <2>3. commits \in Seq(Commit) /\ Len(commits) \in Nat
    BY DEF TypeOK
  <2>4. /\ commits' \in Seq(Commit) /\ Len(commits') >= Len(commits)
        /\ \A i \in 1 .. Len(commits) : commits'[i] = commits[i]
    BY <2>1, <2>2, <2>3, StoredType, Zenon
  <2>5. QED
    BY <2>3, <2>4 DEF CommitsGrow
<1>3. QED
  BY <1>1, <1>2, StoreSteps, SameCommitsGrow

-----------------------------------------------------------------------------
(* Entries of undo in the reflog.                                          *)

MovingPc == {"flock", "check"} \cup CheckedPc

(* Unless users choose the message of undo for commits of their own, what  *)
(* the reflog calls an undo moved the branch away from a commit.           *)
UndosOK ==
    /\ \A t \in Thread :
          /\ pc[t] \in MovingPc /\ call[t].msg = "undo:" => call[t].op = "undo"
          /\ pc[t] = "update" /\ call[t].op # "commit" => existing[t] # None
    /\ \A r \in Ref : \A i \in 1 .. Len(reflog[r]) :
          reflog[r][i].msg = "undo:" => reflog[r][i].old # None

(* Every step preserves it.                                                *)
LEMMA NextUndosOK ==
    ASSUME "undo:" \notin Message, TypeOK, CallOK, UndosOK, [Next]_vars
    PROVE  UndosOK'
<1>1. ASSUME NEW t \in Thread, pc'[t] \in MovingPc, call'[t].msg = "undo:"
      PROVE  call'[t].op = "undo"
  <2>1. CASE pc'[t] \in {"idle", "unlock", "set", "del"}
    BY <1>1, <2>1 DEF MovingPc, CheckedPc
  <2>2. CASE Advances(t)
    BY <1>1, <2>2 DEF Advances, UndosOK, MovingPc, CheckedPc
  <2>3. CASE Begins(t)
    <3>1. ASSUME NEW change, NEW m \in Message, NEW extra,
                 call'[t] = MakeCall("commit", fs[t].ref, change, m, extra)
          PROVE  FALSE
      BY <1>1, <3>1 DEF MakeCall
    <3>2. ASSUME call'[t] = MakeCall("redo", fs[t].ref, EmptyTree, "redo:", <<>>) PROVE FALSE
      BY <1>1, <3>2 DEF MakeCall
    <3>3. call'[t] = MakeCall("undo", fs[t].ref, EmptyTree, "undo:", <<>>)
      BY <2>3, <3>1, <3>2, Zenon DEF Begins
    <3>4. QED
      BY <3>3 DEF MakeCall
  <2>4. CASE BuildCommit(t)
    BY <1>1, <2>4 DEF BuildCommit, UndosOK, MovingPc, CheckedPc
  <2>5. CASE LookupRef(t) /\ pc'[t] = "update"
    <3>1. call'[t] = call[t] /\ pc[t] = "lookup"
      BY <2>5 DEF LookupRef, Leave, TypeOK
    <3>2. QED
      BY <1>1, <3>1 DEF UndosOK, MovingPc, CheckedPc
  <2>6. QED
    BY <2>1, <2>2, <2>3, <2>4, <2>5, ThreadSteps
<1>2. ASSUME NEW t \in Thread, pc'[t] = "update", call'[t].op # "commit"
      PROVE  existing'[t] # None
  <2>1. CASE Advances(t)
    BY <1>2, <2>1 DEF Advances, UndosOK
  <2>2. CASE Begins(t)
    BY <1>2, <2>2 DEF Begins
  <2>3. CASE BuildCommit(t)
    BY <1>2, <2>3 DEF BuildCommit, Goto, TypeOK
  <2>4. CASE LookupRef(t) /\ pc'[t] = "update"
    <3>1. ~Leave(t, "GitError")
      BY <2>4 DEF Leave, TypeOK
    <3>2. /\ call' = call
          /\ ~(refs[call[t].ref] = None /\ call[t].op # "commit")
          /\ call[t].op # "commit" => existing' = [existing EXCEPT ![t] = refs[call[t].ref]]
      BY <2>4, <3>1 DEF LookupRef
    <3>3. QED
      BY <1>2, <3>2 DEF TypeOK
  <2>5. QED
    BY <1>2, <2>1, <2>2, <2>3, <2>4, ThreadSteps
<1>3. ASSUME NEW r \in Ref, NEW i \in 1 .. Len(reflog'[r]), reflog'[r][i].msg = "undo:"
      PROVE  reflog'[r][i].old # None
  <2>1. ASSUME reflog'[r] = reflog[r] \/ reflog'[r] = <<>> PROVE reflog'[r][i].old # None
    BY <1>3, <2>1 DEF UndosOK
  <2>2. ASSUME NEW q \in Ref, NEW c, NEW m, WriteRef(q, c, m), m = "undo:" => refs[q] # None
        PROVE  reflog'[r][i].old # None
    <3> DEFINE e == [old |-> refs[q], new |-> c, msg |-> m]
    <3>1. CASE reflog'[r] = reflog[r]
      BY <2>1, <3>1
    <3>2. CASE r = q /\ reflog'[r] = Append(reflog[r], e)
      <4>1. reflog[r] \in Seq(LogEntry)
        BY DEF TypeOK
      <4>2. \/ i \in 1 .. Len(reflog[r]) /\ reflog'[r][i] = reflog[r][i]
            \/ reflog'[r][i] = e
        BY <3>2, <4>1
      <4>3. QED
        BY <1>3, <2>2, <3>2, <4>2 DEF UndosOK
    <3>3. QED
      BY <2>2, <3>1, <3>2 DEF WriteRef, TypeOK
  <2>3. ASSUME NEW t \in Thread, Moved(t) PROVE reflog'[r][i].old # None
    <3>1. call[t].ref \in Ref /\ pc[t] \in MovingPc /\ pc[t] = "update"
      BY <2>3 DEF Moved, CallOK, CheckedPc, MovingPc, Ref
    <3>2. call[t].msg = "undo:" => refs[call[t].ref] # None
      BY <2>3, <3>1 DEF Moved, UndosOK
    <3>3. QED
      BY <2>2, <2>3, <3>1, <3>2 DEF Moved
  <2>4. ASSUME NEW t \in Thread, Assigned(t) PROVE reflog'[r][i].old # None
    <3>1. call[t].ref \in Ref
      BY <2>4 DEF Assigned, CallOK
    <3>2. QED
      BY <2>2, <2>4, <3>1 DEF Assigned
  <2>5. ASSUME NEW t \in Thread, Deleted(t) PROVE reflog'[r][i].old # None
    BY <2>1, <2>5 DEF Deleted, TypeOK
  <2>6. QED
    BY <2>1, <2>3, <2>4, <2>5, RefMoves
<1>4. QED
  BY <1>1, <1>2, <1>3 DEF UndosOK

(* It holds in a new store.                                                *)
LEMMA InitLogs == Init => LogsOK /\ UndosOK
<1> SUFFICES ASSUME Init PROVE LogsOK /\ UndosOK
  OBVIOUS
<1> DEFINE e == [old |-> None, new |-> 1, msg |-> "user"]
<1>1. \A r \in Ref : \/ reflog[r] = <<e>> /\ refs[r] = 1
                     \/ reflog[r] = <<>> /\ refs[r] = None
  BY DEF Init
<1>2. Chain(<<e>>, 1) /\ Chain(<<>>, None)
  BY DEF Chain, None
<1>3. LogsOK
  BY <1>1, <1>2 DEF LogsOK
<1>4. UndosOK
  BY <1>1 DEF Init, UndosOK, MovingPc, CheckedPc
<1>5. QED
  BY <1>3, <1>4

-----------------------------------------------------------------------------
(* Tags.                                                                   *)

(* A tag that is being set does not exist yet.                             *)
NewTags == \A t \in Thread : pc[t] = "set" /\ call[t].ref \in Tag => refs[call[t].ref] = None

(* How a thread comes to be setting a reference.                           *)
LEMMA SetSteps ==
    ASSUME TypeOK, [Next]_vars, NEW t \in Thread, pc'[t] = "set"
    PROVE  \/ pc[t] = "set" /\ call'[t] = call[t]
           \/ refs' = refs /\ (call'[t].ref \in Tag => refs[call'[t].ref] = None)
<1> DEFINE Goal == \/ pc[t] = "set" /\ call'[t] = call[t]
                   \/ refs' = refs /\ (call'[t].ref \in Tag => refs[call'[t].ref] = None)
<1>1. ASSUME NEW u \in Thread, NEW r, Return(u, r) \/ Leave(u, r) PROVE Goal
  BY <1>1 DEF TypeOK, Return, Leave
<1>2. ASSUME NEW u \in Thread, NEW l, Goto(u, l), l # "set", u # t => call'[t] = call[t]
      PROVE  Goal
  BY <1>2 DEF TypeOK, Goto
<1>3. ASSUME NEW u \in Thread, Snapshots(u) PROVE Goal
  BY <1>1, <1>3, Zenon DEF Snapshots, RefDictGet, FsOfHash, FsEmpty, FsBack, FsSquash
<1>4. ASSUME NEW u \in Thread, Calls(u) PROVE Goal
  <2>1. CASE RequireWritable(u)
    BY <1>1, <2>1 DEF RequireWritable
  <2>2. ASSUME NEW change, NEW m, NEW extra, CommitChanges(u, change, m, extra) PROVE Goal
    <3>1. u # t => call'[t] = call[t]
      BY <2>2 DEF TypeOK, CommitChanges
    <3>2. QED
      BY <1>2, <2>2, <3>1 DEF CommitChanges
  <2>3. ASSUME NEW n, Undo(u, n) PROVE Goal
    <3>1. CASE Return(u, "NotFound")
      BY <1>1, <3>1
    <3>2. CASE /\ Goto(u, "flock")
               /\ call' = [call EXCEPT ![u] =
                             MakeCall("undo", fs[u].ref, EmptyTree, "undo:", <<>>)]
      BY <1>2, <3>2 DEF TypeOK
    <3>3. QED
      BY <2>3, <3>1, <3>2, Zenon DEF Undo
  <2>4. ASSUME NEW n, Redo(u, n) PROVE Goal
    <3>1. CASE Return(u, "NotFound")
      BY <1>1, <3>1
    <3>2. CASE /\ Goto(u, "flock")
               /\ call' = [call EXCEPT ![u] =
                             MakeCall("redo", fs[u].ref, EmptyTree, "redo:", <<>>)]
      BY <1>2, <3>2 DEF TypeOK
    <3>3. QED
      BY <2>4, <3>1, <3>2, Zenon DEF Redo
  <2>5. ASSUME NEW r \in Ref, RefDictSet(u, r) PROVE Goal
    <3>1. CASE Return(u, "KeyExists")
      BY <1>1, <3>1
    <3>2. CASE ~(r \in Tag /\ refs[r] # None)
      <4>1. /\ Goto(u, "set") /\ refs' = refs
            /\ call' = [call EXCEPT ![u] = MakeCall("set", r, EmptyTree, "user", <<>>)]
        BY <2>5, <3>2 DEF RefDictSet
      <4>2. MakeCall("set", r, EmptyTree, "user", <<>>).ref = r
        BY DEF MakeCall
      <4>3. QED
        BY <3>2, <4>1, <4>2 DEF TypeOK, Goto
    <3>3. QED
      BY <2>5, <3>1, <3>2 DEF RefDictSet
  <2>6. ASSUME NEW r \in Ref, RefDictDel(u, r) PROVE Goal
    <3>1. CASE Return(u, "KeyNotFound")
      BY <1>1, <3>1
    <3>2. CASE /\ Goto(u, "del")
               /\ call' = [call EXCEPT ![u] = MakeCall("del", r, EmptyTree, "user", <<>>)]
      BY <1>2, <3>2 DEF TypeOK
    <3>3. QED
      BY <2>6, <3>1, <3>2 DEF RefDictDel
  <2>7. QED
    BY <1>4, <2>1, <2>2, <2>3, <2>4, <2>5, <2>6 DEF Calls
<1>5. ASSUME NEW u \in Thread, Proceed(u) \/ GitFailure(u) PROVE Goal
  <2>1. CASE AcquireRepoLock(u) \/ ReleaseRepoLock(u) \/ BuildCommit(u)
    BY <1>2, <2>1 DEF AcquireRepoLock, ReleaseRepoLock, BuildCommit
  <2>2. CASE StaleCheck(u)
    BY <1>1, <1>2, <2>2 DEF StaleCheck
  <2>3. CASE LookupRef(u)
    BY <1>1, <1>2, <2>3 DEF LookupRef
  <2>4. CASE \/ TimeOutRepoLock(u) \/ UpdateRef(u) \/ RefDictCreate(u)
             \/ RefDictDelete(u) \/ GitFailure(u)
    BY <1>1, <2>4 DEF TimeOutRepoLock, UpdateRef, RefDictCreate, RefDictDelete, GitFailure
  <2>5. QED
    BY <1>5, <2>1, <2>2, <2>3, <2>4 DEF Proceed
<1>6. ASSUME NEW h \in Handle, Crash(h) PROVE Goal
  BY <1>6 DEF Crash
<1>7. CASE UNCHANGED vars
  BY <1>7 DEF vars
<1>8. QED
  BY <1>3, <1>4, <1>5, <1>6, <1>7 DEF Next, Finished

(* While a thread sets a reference, the mutex it holds keeps the others    *)
(* from writing any.                                                       *)
LEMMA NextNewTags ==
    ASSUME Serialized, TypeOK, CallOK, LockOwnership, NewTags, [Next]_vars
    PROVE  NewTags'
<1> SUFFICES ASSUME NEW t \in Thread, pc'[t] = "set", call'[t].ref \in Tag
             PROVE  refs'[call'[t].ref] = None
  BY DEF NewTags
<1>1. CASE refs' = refs /\ (call'[t].ref \in Tag => refs[call'[t].ref] = None)
  BY <1>1
<1>2. CASE pc[t] = "set" /\ call'[t] = call[t]
  <2>1. "set" \in Ops /\ call[t].ref \in Ref
    BY <1>2 DEF CallOK
  <2>2. \A u \in Thread : HandleOf[t] = HandleOf[u]
    BY <2>1 DEF Serialized, RefDictOp
  <2>3. mutex[HandleOf[t]] = t
    BY <1>2 DEF LockOwnership, MutexPc
  <2>4. \A u \in Thread : pc[u] \in MutexPc => u = t
    BY <2>2, <2>3 DEF LockOwnership
  <2>5. refs[call[t].ref] = None
    BY <1>2 DEF NewTags
  <2>6. CASE refs' = refs
    BY <1>2, <2>5, <2>6
  <2>7. ASSUME NEW u \in Thread, Moved(u) PROVE FALSE
    BY <1>2, <2>4, <2>7 DEF Moved, MutexPc, CheckedPc
  <2>8. ASSUME NEW u \in Thread, Deleted(u) PROVE FALSE
    BY <1>2, <2>4, <2>8 DEF Deleted, MutexPc, CheckedPc
  <2>9. ASSUME NEW u \in Thread, Assigned(u) PROVE FALSE
    BY <2>4, <2>9 DEF Assigned, MutexPc
  <2>10. QED
    BY <2>6, <2>7, <2>8, <2>9, RefMoves
<1>3. QED
  BY <1>1, <1>2, SetSteps

-----------------------------------------------------------------------------
(* The theorems about histories.                                           *)

(* Whatever operations are used, by however many processes, the reflog of  *)
(* a branch is an unbroken chain that ends at its tip.                     *)
THEOREM ReflogUnbroken == Spec => []ReflogChain
<1> DEFINE Inv == TypeOK /\ CallOK /\ LogsOK
<1>1. Init => Inv
  BY InitTypeOK, InitLogs DEF Init, CallOK, CheckedPc
<1>2. Inv /\ [Next]_vars => Inv'
  BY NextTypeOK, NextCallOK, NextLogsOK
<1>3. Inv => ReflogChain
  BY DEF LogsOK, Chain, ReflogChain, Ref
<1> HIDE DEF Inv
<1>4. QED
  BY <1>1, <1>2, <1>3, PTL DEF Spec

(* A redo of k from the tip of a branch takes back the last k movements if *)
(* they are undos, provided nobody gives a commit of their own the message *)
(* of an undo.                                                             *)
THEOREM RedoRetraces ==
    ASSUME "undo:" \notin Message
    PROVE  Spec => []RedoRetracesUndo
<1> DEFINE Inv == TypeOK /\ CallOK /\ LogsOK /\ UndosOK
<1>1. Init => Inv
  BY InitTypeOK, InitLogs DEF Init, CallOK, CheckedPc
<1>2. Inv /\ [Next]_vars => Inv'
  BY NextTypeOK, NextCallOK, NextLogsOK, NextUndosOK
<1>3. Inv => RedoRetracesUndo
  <2> SUFFICES ASSUME Inv, NEW b \in Branch, NEW k \in 1 .. Len(reflog[b]),
                      \A i \in Len(reflog[b]) + 1 - k .. Len(reflog[b]) :
                         reflog[b][i].msg = "undo:"
               PROVE  RedoScan(reflog[b], refs[b], k)
                        = [cur |-> reflog[b][Len(reflog[b]) + 1 - k].old, found |-> k]
    BY Zenon DEF RedoRetracesUndo
  <2>1. /\ b \in Ref /\ reflog[b] \in Seq(LogEntry) /\ refs[b] \in Nat
        /\ Chain(reflog[b], refs[b])
    BY DEF TypeOK, LogsOK, Ref
  <2>2. \A i \in Len(reflog[b]) + 1 - k .. Len(reflog[b]) :
           reflog[b][i].msg = "undo:" /\ reflog[b][i].old # None
    <3>1. \A i \in Len(reflog[b]) + 1 - k .. Len(reflog[b]) : i \in 1 .. Len(reflog[b])
      BY <2>1
    <3>2. QED
      BY <2>1, <3>1 DEF UndosOK
  <2>3. QED
    BY <2>1, <2>2, ScanRetraces
<1> HIDE DEF Inv
<1>4. QED
  BY <1>1, <1>2, <1>3, PTL DEF Spec

(* In a store that nobody moves references of behind vost.lock's back no   *)
(* step moves a tag that exists.                                           *)
THEOREM TagsStay ==
    ASSUME Serialized
    PROVE  Spec => TagsNeverMove
<1> DEFINE Inv == TypeOK /\ CallOK /\ LockOwnership /\ NewTags
           Step == \A g \in Tag : refs[g] # None => refs'[g] \in {None, refs[g]}
<1>1. Init => Inv
  BY InitTypeOK, InitLockOwnership DEF Init, CallOK, CheckedPc, NewTags
<1>2. Inv /\ [Next]_vars => Inv'
  BY NextTypeOK, NextCallOK, NextLockOwnership, NextNewTags
<1>3. Inv /\ [Next]_vars => [Step]_vars
  <2> SUFFICES ASSUME Inv, [Next]_vars, NEW g \in Tag, refs[g] # None
               PROVE  refs'[g] \in {None, refs[g]}
    OBVIOUS
  <2>1. g \in Ref /\ g \notin Branch
    BY NameAssumption DEF Ref
  <2>2. ASSUME NEW t \in Thread, Moved(t) PROVE refs'[g] = refs[g]
    <3>1. call[t].ref \in Branch
      BY <2>2 DEF Moved, CallOK, CheckedPc
    <3>2. QED
      BY <2>1, <2>2, <3>1 DEF Moved, WriteRef, TypeOK
  <2>3. ASSUME NEW t \in Thread, Assigned(t) PROVE refs'[g] = refs[g]
    <3>1. call[t].ref # g
      BY <2>3 DEF Assigned, NewTags
    <3>2. QED
      BY <2>1, <2>3, <3>1 DEF Assigned, WriteRef, TypeOK
  <2>4. ASSUME NEW t \in Thread, Deleted(t) PROVE refs'[g] \in {None, refs[g]}
    BY <2>1, <2>4 DEF Deleted, TypeOK
  <2>5. QED
    BY <2>2, <2>3, <2>4, RefMoves
<1> HIDE DEF Inv, Step
<1>4. Spec => [][Step]_vars
  BY <1>1, <1>2, <1>3, PTL DEF Spec
<1>5. QED
  BY <1>4 DEF TagsNeverMove, Step

-----------------------------------------------------------------------------
(* Walking along first parents, in any list of commits.                    *)

ParentOf(cs, c) == IF cs[c].parents = <<>> THEN None ELSE Head(cs[c].parents)

(* Every commit is stored after its first parent.                          *)
ParentsFirst(cs) ==
    /\ Len(cs) \in Nat
    /\ \A i \in 1 .. Len(cs) : ParentOf(cs, i) \in Nat /\ ParentOf(cs, i) < i

(* SnapshotStore's Ancestors, of the given list.                           *)
AncestorsIn(cs, c) ==
    LET anc[d \in 0 .. Len(cs)] ==
          IF d = 0 \/ ParentOf(cs, d) = 0 THEN {}
          ELSE {ParentOf(cs, d)} \cup anc[ParentOf(cs, d)]
    IN anc[c]

(* Ancestors is what its recursive definition says.                        *)
LEMMA AncestorsRec ==
    ASSUME NEW cs, ParentsFirst(cs), NEW c \in 0 .. Len(cs)
    PROVE  AncestorsIn(cs, c) =
              IF c = 0 \/ ParentOf(cs, c) = 0 THEN {}
              ELSE {ParentOf(cs, c)} \cup AncestorsIn(cs, ParentOf(cs, c))
<1> DEFINE L == Len(cs)
           P(d) == ParentOf(cs, d)
           prev == [i \in 1 .. L |-> P(i)]
           step == [i \in 1 .. L |-> [x \in SUBSET Nat |-> IF P(i) = 0 THEN {} ELSE {P(i)} \cup x]]
           body(f) == [d \in 0 .. L |-> IF d = 0 \/ P(d) = 0 THEN {} ELSE {P(d)} \cup f[P(d)]]
           anc == CHOOSE f : f = body(f)
<1>1. L \in Nat /\ \A i \in 1 .. L : P(i) \in Nat /\ P(i) < i
  BY DEF ParentsFirst
<1>2. \A d : AncestorsIn(cs, d) = anc[d]
  BY Zenon DEF AncestorsIn
<1> HIDE DEF L, P, anc
<1>3. IsRecursion(L, SUBSET Nat, {}, prev, step)
  BY <1>1 DEF IsRecursion
<1>4. \E f : f = body(f)
  <2> HIDE DEF prev, step
  <2>1. PICK f : Solves(f, L, SUBSET Nat, {}, prev, step)
    BY <1>3, Recursion
  <2>2. /\ f \in [0 .. L -> SUBSET Nat] /\ f[0] = {}
        /\ \A i \in 1 .. L : f[i] = step[i][f[prev[i]]]
    BY <2>1 DEF Solves
  <2>3. ASSUME NEW i \in 1 .. L PROVE f[i] = IF P(i) = 0 THEN {} ELSE {P(i)} \cup f[P(i)]
    <3>1. prev[i] = P(i) /\ P(i) \in 0 .. L
      BY <1>1 DEF prev
    <3>2. f[P(i)] \in SUBSET Nat
      BY <2>2, <3>1
    <3>3. QED
      BY <2>2, <3>1, <3>2 DEF step
  <2>4. \A d \in 0 .. L : d = 0 \/ (d # 0 /\ d \in 1 .. L)
    BY <1>1
  <2>5. f = body(f)
    BY <2>2, <2>3, <2>4
  <2>6. QED
    BY <2>5
<1>5. anc = body(anc)
  <2> HIDE DEF body
  <2>1. QED
    BY <1>4 DEF anc
<1>6. \A d \in 0 .. L : anc[d] = IF d = 0 \/ P(d) = 0 THEN {} ELSE {P(d)} \cup anc[P(d)]
  BY <1>5
<1>7. QED
  BY <1>2, <1>6 DEF L, P

(* Ancestors are older, and their parents are ancestors.                   *)
LEMMA AncestorsClosed ==
    ASSUME NEW cs, ParentsFirst(cs), NEW c \in 0 .. Len(cs), NEW a \in AncestorsIn(cs, c)
    PROVE  /\ a \in 1 .. Len(cs) /\ c # 0
           /\ ParentOf(cs, a) = 0 \/ ParentOf(cs, a) \in AncestorsIn(cs, c)
<1> DEFINE L == Len(cs)
           Good(d) == \A x \in AncestorsIn(cs, d) :
                        /\ x \in 1 .. L
                        /\ ParentOf(cs, x) = 0 \/ ParentOf(cs, x) \in AncestorsIn(cs, d)
           T == {d \in 0 .. L : Good(d)}
<1>1. L \in Nat /\ \A i \in 1 .. L : ParentOf(cs, i) \in Nat /\ ParentOf(cs, i) < i
  BY DEF ParentsFirst
<1>2. ASSUME NEW d \in 0 .. L, \A j \in 0 .. L : j < d => j \in T PROVE d \in T
  <2> DEFINE p == ParentOf(cs, d)
  <2>1. AncestorsIn(cs, d) = IF d = 0 \/ p = 0 THEN {} ELSE {p} \cup AncestorsIn(cs, p)
    BY AncestorsRec
  <2> SUFFICES ASSUME d # 0, p # 0 PROVE Good(d)
    BY <2>1
  <2>2. p \in 1 .. L /\ p < d /\ d \in 1 .. L
    BY <1>1
  <2>3. Good(p)
    BY <1>1, <1>2, <2>2
  <2>4. AncestorsIn(cs, p) = IF p = 0 \/ ParentOf(cs, p) = 0 THEN {}
                             ELSE {ParentOf(cs, p)} \cup AncestorsIn(cs, ParentOf(cs, p))
    BY <1>1, <2>2, AncestorsRec
  <2> HIDE DEF p
  <2>5. ParentOf(cs, p) = 0 \/ ParentOf(cs, p) \in AncestorsIn(cs, p)
    BY <2>4
  <2>6. AncestorsIn(cs, d) = {p} \cup AncestorsIn(cs, p)
    BY <2>1
  <2>7. QED
    BY <2>2, <2>3, <2>5, <2>6
<1> HIDE DEF T
<1>3. 0 .. L \subseteq T
  BY <1>1, <1>2, StrongInductionUpTo
<1>4. Good(c)
  BY <1>3 DEF T
<1>5. c # 0
  BY AncestorsRec
<1>6. QED
  BY <1>4, <1>5

(* Storing further commits gives no stored commit new ancestors.           *)
LEMMA AncestorsKept ==
    ASSUME NEW cs, NEW ds, ParentsFirst(cs), ParentsFirst(ds), Len(cs) <= Len(ds),
           \A i \in 1 .. Len(cs) : ds[i] = cs[i], NEW c \in 0 .. Len(cs)
    PROVE  AncestorsIn(ds, c) = AncestorsIn(cs, c)
<1> DEFINE L == Len(cs)
           T == {d \in 0 .. L : AncestorsIn(ds, d) = AncestorsIn(cs, d)}
<1>1. L \in Nat /\ Len(ds) \in Nat /\ \A i \in 1 .. L : ParentOf(cs, i) \in Nat /\ ParentOf(cs, i) < i
  BY DEF ParentsFirst
<1>2. \A i \in 1 .. L : ParentOf(ds, i) = ParentOf(cs, i)
  BY DEF ParentOf
<1>3. ASSUME NEW d \in 0 .. L, \A j \in 0 .. L : j < d => j \in T PROVE d \in T
  <2> DEFINE p == ParentOf(cs, d)
  <2>1. AncestorsIn(cs, d) = IF d = 0 \/ p = 0 THEN {} ELSE {p} \cup AncestorsIn(cs, p)
    BY AncestorsRec
  <2>2. AncestorsIn(ds, d) = IF d = 0 \/ ParentOf(ds, d) = 0 THEN {}
                             ELSE {ParentOf(ds, d)} \cup AncestorsIn(ds, ParentOf(ds, d))
    BY <1>1, AncestorsRec
  <2>3. d # 0 => ParentOf(ds, d) = p /\ p \in 0 .. L /\ p < d
    BY <1>1, <1>2
  <2>4. d # 0 => AncestorsIn(ds, p) = AncestorsIn(cs, p)
    BY <1>3, <2>3
  <2> HIDE DEF p
  <2>5. QED
    BY <2>1, <2>2, <2>3, <2>4
<1> HIDE DEF T
<1>4. 0 .. L \subseteq T
  BY <1>1, <1>3, StrongInductionUpTo
<1>5. QED
  BY <1>4 DEF T

(* Fs::undo of n, if it finds a commit, finds an ancestor.                 *)
LEMMA NthParentAncestor ==
    ASSUME ParentsFirst(commits), NEW c \in 0 .. Len(commits), NEW n \in Nat, n # 0,
           NthParent(c, n) # None
    PROVE  NthParent(c, n) \in AncestorsIn(commits, c)
<1> DEFINE S == 0 .. Len(commits)
           next(x) == IF x = None THEN None ELSE FirstParent(x)
           prev == [i \in 1 .. n |-> i - 1]
           step == [i \in 1 .. n |-> [x \in S |-> next(x)]]
           body(f) == [i \in 0 .. n |-> IF i = 0 THEN c ELSE next(f[i-1])]
           walk == CHOOSE f : f = body(f)
<1>1. NthParent(c, n) = walk[n]
  BY Zenon DEF NthParent
<1>2. \A x \in S : next(x) \in S
  BY DEF ParentsFirst, ParentOf, FirstParent, None
<1> HIDE DEF walk
<1>3. \E f : f = body(f)
  <2>1. IsRecursion(n, S, c, prev, step)
    <3>1. step \in [1 .. n -> [S -> S]]
      BY <1>2
    <3>2. prev \in [1 .. n -> Nat] /\ \A i \in 1 .. n : prev[i] < i
      OBVIOUS
    <3> HIDE DEF prev, step
    <3>3. QED
      BY <3>1, <3>2 DEF IsRecursion
  <2> HIDE DEF prev, step
  <2>2. PICK f : Solves(f, n, S, c, prev, step)
    BY <2>1, Recursion
  <2>3. /\ f \in [0 .. n -> S] /\ f[0] = c
        /\ \A i \in 1 .. n : f[i] = step[i][f[prev[i]]]
    BY <2>2 DEF Solves
  <2> HIDE DEF S, next
  <2>4. ASSUME NEW i \in 1 .. n PROVE f[i] = next(f[i-1])
    <3>1. prev[i] = i - 1 /\ i - 1 \in 0 .. n
      BY DEF prev
    <3>2. f[i-1] \in S
      BY <2>3, <3>1
    <3>3. QED
      BY <2>3, <3>1, <3>2 DEF step
  <2>5. \A i \in 0 .. n : i = 0 \/ (i # 0 /\ i \in 1 .. n)
    OBVIOUS
  <2>6. f = body(f)
    BY <2>3, <2>4, <2>5
  <2>7. QED
    BY <2>6
<1>4. walk = body(walk)
  <2> HIDE DEF body
  <2>1. QED
    BY <1>3 DEF walk
<1>5. walk[0] = c /\ \A i \in 1 .. n : walk[i] = next(walk[i-1])
  <2> HIDE DEF next
  <2>1. \A i \in 0 .. n : walk[i] = IF i = 0 THEN c ELSE next(walk[i-1])
    BY <1>4
  <2>2. QED
    BY <2>1
<1> DEFINE A == AncestorsIn(commits, c)
           T == {i \in 0 .. n : \/ walk[i] = None
                                \/ i = 0 /\ walk[i] = c
                                \/ walk[i] \in A}
<1>6. 0 \in T
  BY <1>5
<1>7. ASSUME NEW k \in 0 .. n, k < n, k \in T PROVE k + 1 \in T
  <2>1. k + 1 \in 1 .. n /\ k + 1 \in 0 .. n /\ (k + 1) - 1 = k
    BY <1>7
  <2>2. walk[k + 1] = next(walk[k])
    BY <1>5, <2>1
  <2>3. CASE walk[k] = None
    BY <2>1, <2>2, <2>3
  <2>4. CASE walk[k] = c /\ walk[k] # None
    <3>1. A = IF c = 0 \/ ParentOf(commits, c) = 0 THEN {}
              ELSE {ParentOf(commits, c)} \cup AncestorsIn(commits, ParentOf(commits, c))
      BY AncestorsRec
    <3>2. ParentOf(commits, c) = FirstParent(c)
      BY DEF ParentOf, FirstParent
    <3> HIDE DEF A
    <3>3. FirstParent(c) = None \/ FirstParent(c) \in A
      BY <2>4, <3>1, <3>2 DEF None
    <3>4. QED
      BY <2>1, <2>2, <2>4, <3>3
  <2>5. CASE walk[k] \in A /\ walk[k] # None
    <3>1. ParentOf(commits, walk[k]) = 0 \/ ParentOf(commits, walk[k]) \in A
      BY <2>5, AncestorsClosed
    <3>2. ParentOf(commits, walk[k]) = FirstParent(walk[k])
      BY DEF ParentOf, FirstParent
    <3> HIDE DEF A
    <3>3. QED
      BY <2>1, <2>2, <2>5, <3>1, <3>2 DEF None
  <2>6. QED
    BY <1>7, <2>3, <2>4, <2>5
<1> HIDE DEF T
<1>8. 0 .. n \subseteq T
  BY <1>6, <1>7, InductionUpTo
<1>9. n \in T
  BY <1>8
<1>10. QED
  BY <1>1, <1>9 DEF T

-----------------------------------------------------------------------------
(* What calls are about to do to their branch.                             *)

(* Every commit is stored after its first parent, also one that is about   *)
(* to be built on a parent the caller gave.                                *)
ParentsOK ==
    /\ ParentsFirst(commits)
    /\ \A t \in Thread : pc[t] \in {"flock", "check", "build"} =>
          call[t].extra \in {<<>>} \cup {<<c>> : c \in CommitId}

(* Storing a commit on stored parents keeps parents first.                 *)
LEMMA StoredParentsFirst ==
    ASSUME TypeOK, ParentsFirst(commits), NEW c \in Commit, NEW id \in WriteCommit(c),
           c.parents = <<>> \/ Head(c.parents) \in CommitId,
           commits' = Stored(id, c)
    PROVE  ParentsFirst(commits')
<1>1. CASE id \in CommitId
  BY <1>1 DEF Stored
<1>2. CASE id \notin CommitId
  <2>1. Len(commits) \in Nat /\ commits' = Append(commits, c)
    BY <1>2 DEF Stored, TypeOK
  <2>2. /\ Len(commits') = Len(commits) + 1 /\ commits'[Len(commits) + 1] = c
        /\ \A i \in 1 .. Len(commits) : commits'[i] = commits[i]
    BY <2>1 DEF TypeOK
  <2>3. ASSUME NEW i \in 1 .. Len(commits) + 1
        PROVE  ParentOf(commits', i) \in Nat /\ ParentOf(commits', i) < i
    <3>1. CASE i = Len(commits) + 1
      BY <2>1, <2>2, <3>1 DEF ParentOf, CommitId, None
    <3>2. CASE i # Len(commits) + 1
      <4>1. i \in 1 .. Len(commits)
        BY <2>1, <3>2
      <4>2. ParentOf(commits', i) = ParentOf(commits, i)
        BY <2>2, <4>1 DEF ParentOf
      <4>3. QED
        BY <4>1, <4>2 DEF ParentsFirst
    <3>3. QED
      BY <3>1, <3>2
  <2>4. QED
    BY <2>1, <2>2, <2>3 DEF ParentsFirst
<1>3. QED
  BY <1>1, <1>2

(* Every step preserves it.                                                *)
LEMMA NextParentsOK ==
    ASSUME TypeOK, ParentsOK, [Next]_vars
    PROVE  ParentsOK'
<1>1. CommitsGrow
  BY NextCommitsGrow
<1>2. ParentsFirst(commits)'
  <2>1. ASSUME NEW t \in Thread, BuildCommit(t) PROVE ParentsFirst(commits')
    <3> DEFINE base == IF fs[t].commit = None THEN <<>> ELSE <<fs[t].commit>>
               c == [parents |-> base \o call[t].extra,
                     tree |-> RebuildTree(TreeOf(fs[t].commit), call[t].change),
                     msg |-> call[t].msg]
    <3>1. c \in Commit
      BY BuiltCommitType
    <3>2. PICK id \in WriteCommit(c) : commits' = Stored(id, c)
      BY <2>1 DEF BuildCommit
    <3>3. fs[t].commit \in 0 .. Len(commits) /\ Len(commits) \in Nat
      BY DEF TypeOK
    <3>4. call[t].extra = <<>> \/ \E d \in CommitId : call[t].extra = <<d>>
      BY <2>1 DEF BuildCommit, ParentsOK
    <3>5. base \o call[t].extra = <<>> \/ Head(base \o call[t].extra) \in CommitId
      <4> DEFINE e == call[t].extra
      <4>1. CASE fs[t].commit = None
        <5>1. base \o e = e
          BY <3>4, <4>1
        <5>2. ASSUME NEW d \in CommitId, e = <<d>> PROVE Head(e) \in CommitId
          BY <5>2
        <5> HIDE DEF base, e
        <5>3. QED
          BY <3>4, <5>1, <5>2 DEF e
      <4>2. CASE fs[t].commit # None
        <5>1. e \in Seq(Nat) /\ base = <<fs[t].commit>>
          BY <4>2 DEF TypeOK, Call
        <5> HIDE DEF base, e
        <5>2. Head(base \o e) = fs[t].commit
          BY <3>3, <5>1
        <5>3. QED
          BY <3>3, <4>2, <5>2 DEF CommitId, None, e
      <4>3. QED
        BY <4>1, <4>2
    <3>6. c.parents = <<>> \/ Head(c.parents) \in CommitId
      BY <3>5
    <3> HIDE DEF c
    <3>7. QED
      BY <3>1, <3>2, <3>6, StoredParentsFirst DEF ParentsOK
  <2>2. ASSUME NEW t \in Thread, NEW p \in {<<>>} \cup {<<d>> : d \in CommitId}, FsSquash(t, p)
        PROVE  ParentsFirst(commits')
    <3> DEFINE c == [parents |-> p, tree |-> TreeOf(fs[t].commit), msg |-> "user"]
    <3>1. c \in Commit
      <4>1. p \in Seq(Nat)
        BY ParentsType DEF TypeOK
      <4>2. TreeOf(fs[t].commit) \in Tree
        BY TreeOfType DEF TypeOK
      <4>3. QED
        BY <4>1, <4>2 DEF Commit, UserMessage
    <3>2. PICK id \in WriteCommit(c) : commits' = Stored(id, c)
      BY <2>2 DEF FsSquash
    <3>3. c.parents = <<>> \/ Head(c.parents) \in CommitId
      OBVIOUS
    <3> HIDE DEF c
    <3>4. QED
      BY <3>1, <3>2, <3>3, StoredParentsFirst DEF ParentsOK
  <2>3. CASE commits' = commits
    BY <2>3 DEF ParentsOK
  <2>4. QED
    BY <2>1, <2>2, <2>3, StoreSteps
<1>3. ASSUME NEW t \in Thread, pc'[t] \in {"flock", "check", "build"}
      PROVE  call'[t].extra \in {<<>>} \cup {<<c>> : c \in CommitId}
  <2>1. CASE Advances(t)
    BY <1>3, <2>1 DEF Advances, ParentsOK
  <2>2. CASE Begins(t)
    <3>1. ASSUME NEW change, NEW m, NEW extra \in ExtraParents,
                 call'[t] = MakeCall("commit", fs[t].ref, change, m, extra)
          PROVE  call'[t].extra \in {<<>>} \cup {<<c>> : c \in CommitId}
      BY <3>1 DEF MakeCall, ExtraParents
    <3>2. ASSUME NEW op, NEW m, call'[t] = MakeCall(op, fs[t].ref, EmptyTree, m, <<>>)
          PROVE  call'[t].extra \in {<<>>} \cup {<<c>> : c \in CommitId}
      BY <3>2 DEF MakeCall
    <3>3. QED
      BY <2>2, <3>1, <3>2, Zenon DEF Begins
  <2>3. CASE BuildCommit(t)
    BY <1>3, <2>3 DEF BuildCommit, Goto, TypeOK
  <2>4. CASE LookupRef(t) /\ pc'[t] = "update"
    BY <1>3, <2>4
  <2>5. QED
    BY <1>3, <2>1, <2>2, <2>3, <2>4, ThreadSteps
<1>4. CommitId \subseteq CommitId'
  BY <1>1 DEF CommitsGrow, CommitId, TypeOK
<1>5. ASSUME NEW t \in Thread, pc'[t] \in {"flock", "check", "build"}
      PROVE  call'[t].extra \in {<<>>} \cup {<<c>> : c \in CommitId'}
  BY <1>3, <1>4, <1>5
<1>6. QED
  BY <1>2, <1>5 DEF ParentsOK

PastIn(log) == {log[i].new : i \in 1 .. Len(log)}

(* A commit was asked for and has the tree that was asked for, an undo     *)
(* goes to an ancestor, a redo to a commit the branch has been at.         *)
TargetOK(t) ==
    /\ pc[t] \in MovingPc =>
          /\ call[t].op = "commit" => call[t].change \in Changes[t]
          /\ call[t].op = "undo" => target[t] \in AncestorsIn(commits, fs[t].commit)
          /\ call[t].op = "redo" => target[t] \in PastIn(reflog[call[t].ref])
    /\ pc[t] \in {"lookup", "update"} /\ call[t].op = "commit" =>
          commits[target[t]].tree = RebuildTree(TreeOf(fs[t].commit), call[t].change)

(* Without RefDict::del what a reflog has recorded stays recorded.         *)
LEMMA PastGrows ==
    ASSUME Ops \cap RefDictOp = {}, TypeOK, CallOK, [Next]_vars, NEW r \in Ref
    PROVE  PastIn(reflog[r]) \subseteq PastIn(reflog'[r])
<1>1. CASE reflog' = reflog
  BY <1>1
<1>2. ASSUME NEW q \in Ref, NEW c, NEW m, WriteRef(q, c, m)
      PROVE  PastIn(reflog[r]) \subseteq PastIn(reflog'[r])
  <2> DEFINE e == [old |-> refs[q], new |-> c, msg |-> m]
  <2>1. reflog'[r] = reflog[r] \/ reflog'[r] = Append(reflog[r], e)
    BY <1>2 DEF WriteRef, TypeOK
  <2>2. reflog[r] \in Seq(LogEntry)
    BY DEF TypeOK
  <2> HIDE DEF e
  <2>3. /\ Len(reflog[r]) \in Nat /\ Len(reflog'[r]) \in Nat
        /\ Len(reflog[r]) <= Len(reflog'[r])
        /\ \A i \in 1 .. Len(reflog[r]) : reflog'[r][i] = reflog[r][i]
    BY <2>1, <2>2
  <2>4. QED
    BY <2>3 DEF PastIn
<1>3. \A t \in Thread : ~Deleted(t)
  BY DEF Deleted, CallOK, RefDictOp
<1>4. \A t \in Thread : Moved(t) \/ Assigned(t) => call[t].ref \in Ref
  BY DEF Moved, Assigned, CallOK, CheckedPc, Ref
<1>5. QED
  BY <1>1, <1>2, <1>3, <1>4, RefMoves DEF Moved, Assigned

(* The first part of TargetOK while a call goes on.                        *)
LEMMA KeepsTarget ==
    ASSUME Ops \cap RefDictOp = {}, TypeOK, CallOK, NEW t \in Thread, TargetOK(t), [Next]_vars,
           AncestorsIn(commits', fs[t].commit) = AncestorsIn(commits, fs[t].commit),
           pc[t] \in MovingPc, call'[t] = call[t], fs'[t] = fs[t],
           call[t].op # "commit" => target'[t] = target[t]
    PROVE  /\ call'[t].op = "commit" => call'[t].change \in Changes[t]
           /\ call'[t].op = "undo" => target'[t] \in AncestorsIn(commits', fs'[t].commit)
           /\ call'[t].op = "redo" => target'[t] \in PastIn(reflog'[call'[t].ref])
<1>1. call[t].ref \in Ref
  BY DEF CallOK, MovingPc, Ref
<1>2. PastIn(reflog[call[t].ref]) \subseteq PastIn(reflog'[call[t].ref])
  BY <1>1, PastGrows
<1>3. QED
  BY <1>2 DEF TargetOK

(* Every step preserves it, for the call of every thread.                  *)
LEMMA NextTargetOK ==
    ASSUME Ops \cap RefDictOp = {}, TypeOK, CallOK, LogsOK, ParentsOK, ParentsOK',
           NEW t \in Thread, TargetOK(t), [Next]_vars
    PROVE  TargetOK(t)'
<1>1. CommitsGrow /\ Len(commits) \in Nat /\ fs[t].commit \in 0 .. Len(commits)
  BY NextCommitsGrow DEF TypeOK
<1>2. AncestorsIn(commits', fs[t].commit) = AncestorsIn(commits, fs[t].commit)
  BY <1>1, AncestorsKept DEF CommitsGrow, ParentsOK
<1>3. fs'[t] = fs[t] => TreeOf(fs[t].commit)' = TreeOf(fs[t].commit)
  BY <1>1 DEF CommitsGrow, TreeOf, EmptyTree, None
<1>4. CASE pc'[t] \in {"idle", "unlock", "set", "del"}
  BY <1>4 DEF TargetOK, MovingPc, CheckedPc
<1>5. CASE Advances(t)
  <2>1. SUFFICES ASSUME pc'[t] \in MovingPc PROVE TargetOK(t)'
    BY DEF TargetOK, MovingPc, CheckedPc
  <2>2. pc[t] \in MovingPc
    BY <1>5, <2>1 DEF Advances, MovingPc, CheckedPc
  <2>3. /\ call'[t].op = "commit" => call'[t].change \in Changes[t]
        /\ call'[t].op = "undo" => target'[t] \in AncestorsIn(commits', fs'[t].commit)
        /\ call'[t].op = "redo" => target'[t] \in PastIn(reflog'[call'[t].ref])
    BY <1>2, <1>5, <2>2, KeepsTarget DEF Advances
  <2>4. ASSUME pc'[t] \in {"lookup", "update"}, call'[t].op = "commit"
        PROVE  commits'[target'[t]].tree = RebuildTree(TreeOf(fs[t].commit)', call'[t].change)
    <3>1. pc'[t] = pc[t] /\ call'[t] = call[t] /\ target'[t] = target[t] /\ fs'[t] = fs[t]
      BY <1>5, <2>4 DEF Advances
    <3>2. target[t] \in CommitId
      BY <2>4, <3>1 DEF TypeOK, CallOK, CommitId, None
    <3>3. commits'[target[t]] = commits[target[t]]
      BY <1>1, <3>2 DEF CommitsGrow, CommitId
    <3>4. QED
      BY <1>3, <2>4, <3>1, <3>3 DEF TargetOK
  <2>5. QED
    BY <2>3, <2>4 DEF TargetOK
<1>6. CASE Begins(t)
  <2>1. pc'[t] = "flock" /\ commits' = commits /\ reflog' = reflog /\ fs' = fs
    BY <1>6 DEF Begins
  <2>2. ASSUME NEW change \in Changes[t], NEW m, NEW extra,
               call'[t] = MakeCall("commit", fs[t].ref, change, m, extra)
        PROVE  TargetOK(t)'
    <3>1. call'[t].op = "commit" /\ call'[t].change = change
      BY <2>2 DEF MakeCall
    <3>2. QED
      BY <2>1, <3>1 DEF TargetOK
  <2>3. ASSUME NEW n \in 1 .. MaxBack,
               call'[t] = MakeCall("undo", fs[t].ref, EmptyTree, "undo:", <<>>),
               target'[t] = NthParent(fs[t].commit, n), target'[t] \in CommitId
        PROVE  TargetOK(t)'
    <3>1. call'[t].op = "undo"
      BY <2>3 DEF MakeCall
    <3>2. n \in Nat /\ n # 0 /\ NthParent(fs[t].commit, n) # None
      BY <1>1, <2>3, BoundAssumption DEF CommitId, None
    <3>3. NthParent(fs[t].commit, n) \in AncestorsIn(commits, fs[t].commit)
      BY <1>1, <3>2, NthParentAncestor DEF ParentsOK
    <3>4. QED
      BY <2>1, <2>3, <3>1, <3>3 DEF TargetOK
  <2>4. ASSUME NEW n \in 1 .. MaxBack, fs[t].ref \in Branch,
               call'[t] = MakeCall("redo", fs[t].ref, EmptyTree, "redo:", <<>>),
               target'[t] = RedoScan(reflog[fs[t].ref], fs[t].commit, n).cur,
               RedoScan(reflog[fs[t].ref], fs[t].commit, n).found = n
        PROVE  TargetOK(t)'
    <3> DEFINE log == reflog[fs[t].ref]
               scan == RedoScan(log, fs[t].commit, n)
    <3>1. call'[t].op = "redo" /\ call'[t].ref = fs[t].ref
      BY <2>4 DEF MakeCall
    <3>2. n \in Nat /\ n # 0 /\ fs[t].commit \in Nat
      BY <1>1, BoundAssumption
    <3>3. log \in Seq(LogEntry) /\ Chain(log, refs[fs[t].ref])
      BY <2>4 DEF TypeOK, LogsOK, Ref
    <3> HIDE DEF log
    <3>4. scan.found # 0 => \E i \in 1 .. Len(log) : log[i].new = scan.cur
      BY <3>2, <3>3, ScanStaysInPast, Zenon
    <3> HIDE DEF scan
    <3>5. scan.found = n /\ target'[t] = scan.cur
      BY <2>4, Zenon DEF scan, log
    <3>6. target'[t] \in PastIn(log)
      BY <3>2, <3>4, <3>5 DEF PastIn
    <3>7. QED
      BY <2>1, <3>1, <3>6 DEF TargetOK, log
  <2>5. QED
    BY <1>6, <2>2, <2>3, <2>4, Zenon DEF Begins
<1>7. CASE BuildCommit(t)
  <2> DEFINE c == [parents |-> (IF fs[t].commit = None THEN <<>> ELSE <<fs[t].commit>>)
                               \o call[t].extra,
                   tree |-> RebuildTree(TreeOf(fs[t].commit), call[t].change),
                   msg |-> call[t].msg]
  <2>1. c \in Commit
    BY BuiltCommitType
  <2>2. PICK id \in WriteCommit(c) : /\ commits' = Stored(id, c)
                                     /\ target' = [target EXCEPT ![t] = id]
    BY <1>7 DEF BuildCommit
  <2>3. c.tree = RebuildTree(TreeOf(fs[t].commit), call[t].change)
    OBVIOUS
  <2> HIDE DEF c
  <2>4. commits'[target'[t]] = c
    BY <2>1, <2>2, StoredType DEF TypeOK
  <2>5. pc[t] = "build" /\ call' = call /\ fs' = fs /\ call[t].op = "commit"
    BY <1>7 DEF BuildCommit, CallOK
  <2>6. /\ call'[t].op = "commit" => call'[t].change \in Changes[t]
        /\ call'[t].op = "undo" => target'[t] \in AncestorsIn(commits', fs'[t].commit)
        /\ call'[t].op = "redo" => target'[t] \in PastIn(reflog'[call'[t].ref])
    BY <1>2, <2>5, KeepsTarget DEF MovingPc, CheckedPc
  <2>7. commits'[target'[t]].tree = RebuildTree(TreeOf(fs[t].commit)', call'[t].change)
    BY <1>3, <2>3, <2>4, <2>5
  <2>8. QED
    BY <2>6, <2>7 DEF TargetOK
<1>8. CASE LookupRef(t) /\ pc'[t] = "update"
  <2>1. /\ pc[t] = "lookup" /\ call'[t] = call[t] /\ target'[t] = target[t]
        /\ fs' = fs /\ commits' = commits
    <3>1. ~Leave(t, "GitError")
      BY <1>8 DEF Leave, TypeOK
    <3>2. QED
      BY <1>8, <3>1 DEF LookupRef
  <2>2. /\ call'[t].op = "commit" => call'[t].change \in Changes[t]
        /\ call'[t].op = "undo" => target'[t] \in AncestorsIn(commits', fs'[t].commit)
        /\ call'[t].op = "redo" => target'[t] \in PastIn(reflog'[call'[t].ref])
    BY <1>2, <2>1, KeepsTarget DEF MovingPc, CheckedPc
  <2>3. QED
    BY <1>3, <2>1, <2>2 DEF TargetOK
<1>9. QED
  BY <1>4, <1>5, <1>6, <1>7, <1>8, ThreadSteps

-----------------------------------------------------------------------------
(* The refinement.                                                         *)

RefinementInv ==
    /\ TypeOK /\ CallOK /\ LockOwnership /\ CheckStillValid /\ HistoryOK
    /\ LogsOK /\ ParentsOK
    /\ \A t \in Thread : TargetOK(t)

(* A new store satisfies it.                                               *)
LEMMA InitRefinementInv == Init => RefinementInv
<1> SUFFICES ASSUME Init PROVE RefinementInv
  OBVIOUS
<1>1. TypeOK /\ LockOwnership /\ CheckStillValid /\ LogsOK
  BY InitTypeOK, InitLockOwnership, InitCheckStillValid, InitLogs
<1>2. CallOK /\ \A t \in Thread : TargetOK(t)
  BY DEF Init, CallOK, TargetOK, MovingPc, CheckedPc
<1>3. HistoryOK
  <2>1. \A r \in Ref : \A i \in 1 .. Len(reflog[r]) :
           reflog[r][i] = [old |-> None, new |-> 1, msg |-> "user"]
    BY DEF Init
  <2>2. QED
    BY <2>1 DEF Init, HistoryOK, BuiltOnSnapshot, ReflogExtends, CommitId, Ref
<1>4. ParentsOK
  <2>1. Len(commits) = 1 /\ commits[1].parents = <<>>
    BY DEF Init
  <2>2. ParentsFirst(commits)
    BY <2>1 DEF ParentsFirst, ParentOf, None
  <2>3. QED
    BY <2>2 DEF Init, ParentsOK
<1>5. QED
  BY <1>1, <1>2, <1>3, <1>4 DEF RefinementInv

(* Every step preserves it.                                                *)
LEMMA NextRefinementInv ==
    ASSUME Ops \cap RefDictOp = {}, RefinementInv, [Next]_vars
    PROVE  RefinementInv'
<1>1. TypeOK' /\ CallOK' /\ LockOwnership' /\ CheckStillValid' /\ HistoryOK' /\ LogsOK'
  BY NextTypeOK, NextCallOK, NextLockOwnership, NextCheckStillValid, NextHistoryOK, NextLogsOK
  DEF RefinementInv, Serialized
<1>2. ParentsOK'
  BY NextParentsOK DEF RefinementInv
<1>3. \A t \in Thread : TargetOK(t)'
  BY <1>2, NextTargetOK DEF RefinementInv
<1>4. QED
  BY <1>1, <1>2, <1>3 DEF RefinementInv

(* A new store is a new SnapshotStore.                                     *)
LEMMA InitPromise == Init => Promise!Init
<1> SUFFICES ASSUME Init PROVE Promise!Init
  OBVIOUS
<1>1. InitBranch \in Branch /\ Branch \subseteq Ref /\ NoRef \notin Branch
  BY NameAssumption DEF Ref
<1>2. [b \in Branch |-> refs[b]] = [b \in Branch |-> IF b = InitBranch THEN 1 ELSE 0]
  BY <1>1 DEF Init, None
<1>3. \A b \in Branch : PastOf(b) = IF b = InitBranch THEN {1} ELSE {}
  <2>1. \A b \in Branch : reflog[b] = IF b = InitBranch
                                      THEN <<[old |-> None, new |-> 1, msg |-> "user"]>>
                                      ELSE <<>>
    BY <1>1 DEF Init
  <2>2. QED
    BY <2>1, SMTT(20) DEF PastOf
<1>4. \A t \in Thread : SnapOf(t) = [ref |-> NoRef, commit |-> 0]
  BY <1>1 DEF Init, SnapOf, NoFs, None
<1>5. QED
  BY <1>2, <1>3, <1>4 DEF Init, Promise!Init, EmptyTree

(* A step that writes no reference is private to a thread.                 *)
LEMMA PrivateStep ==
    ASSUME TypeOK, TypeOK', CommitsGrow, UNCHANGED <<refs, reflog>>
    PROVE  Promise!Private
<1>1. SubSeq(commits', 1, Len(commits)) = commits
  BY DEF TypeOK, CommitsGrow
<1>2. \A t \in Thread : SnapOf(t)' \in [ref : Branch \cup {NoRef}, commit : 0 .. Len(commits')]
  BY DEF TypeOK, SnapOf
<1>3. \A b \in Branch : PastOf(b)' = PastOf(b)
  BY DEF PastOf
<1>4. QED
  BY <1>1, <1>2, <1>3 DEF Promise!Private, CommitsGrow

(* A step that moves a branch swaps it for the thread's target.            *)
LEMMA SwapStep ==
    ASSUME RefinementInv, NEW t \in Thread, Moved(t), NEW c, c = target[t]
    PROVE  Promise!Swap(t, c)
<1> DEFINE b == fs[t].ref
<1>1. b \in Branch /\ b = call[t].ref /\ b \in Ref /\ c # None /\ pc[t] \in CheckedPc
  BY DEF RefinementInv, Moved, CallOK, CheckedPc, Ref
<1>2. SnapOf(t) = [ref |-> b, commit |-> fs[t].commit]
  BY <1>1 DEF SnapOf
<1>3. refs[b] \in {0, fs[t].commit}
  BY <1>1 DEF RefinementInv, CheckStillValid, None
<1>4. refs' = [refs EXCEPT ![b] = c] /\ refs \in [Ref -> Nat]
  BY <1>1 DEF Moved, WriteRef, RefinementInv, TypeOK
<1>5. \A a \in Branch : a \in Ref /\ refs'[a] = IF a = b THEN c ELSE refs[a]
  BY <1>1, <1>4 DEF Ref
<1>6. \A a \in Branch : PastOf(a)' = IF a = b THEN PastOf(a) \cup {c} ELSE PastOf(a)
  <2> DEFINE e == [old |-> refs[b], new |-> c, msg |-> call[t].msg]
  <2>1. \A a \in Branch : a # b => reflog'[a] = reflog[a]
    BY <1>1, <1>5 DEF Moved, WriteRef, RefinementInv, TypeOK
  <2>2. reflog[b] \in Seq(LogEntry) /\ Chain(reflog[b], refs[b]) /\ e.new = c
    BY <1>1 DEF RefinementInv, TypeOK, LogsOK
  <2> HIDE DEF e
  <2>3. CASE refs[b] = c
    <3>1. reflog' = reflog
      BY <1>1, <2>3 DEF Moved, WriteRef
    <3>2. reflog[b] # <<>> /\ reflog[b][Len(reflog[b])].new = c
      BY <1>1, <2>2, <2>3 DEF Chain
    <3>3. Len(reflog[b]) \in 1 .. Len(reflog[b])
      BY <2>2, <3>2
    <3>4. c \in PastOf(b)
      BY <3>2, <3>3 DEF PastOf
    <3>5. \A a \in Branch : PastOf(a)' = PastOf(a)
      BY <3>1 DEF PastOf
    <3>6. QED
      BY <3>4, <3>5
  <2>4. CASE refs[b] # c
    <3>1. reflog'[b] = Append(reflog[b], e)
      BY <1>1, <2>4 DEF Moved, WriteRef, RefinementInv, TypeOK, e
    <3>2. /\ Len(reflog[b]) \in Nat /\ Len(reflog'[b]) = Len(reflog[b]) + 1
          /\ reflog'[b][Len(reflog[b]) + 1] = e
          /\ \A i \in 1 .. Len(reflog[b]) : reflog'[b][i] = reflog[b][i]
      BY <2>2, <3>1
    <3>3. {reflog'[b][i].new : i \in 1 .. Len(reflog'[b])} = PastOf(b) \cup {c}
      <4>1. \A i \in 1 .. Len(reflog'[b]) : i \in 1 .. Len(reflog[b]) \/ i = Len(reflog[b]) + 1
        BY <3>2
      <4>2. \A i \in 1 .. Len(reflog[b]) : i \in 1 .. Len(reflog'[b])
        BY <3>2
      <4>3. Len(reflog[b]) + 1 \in 1 .. Len(reflog'[b])
        BY <3>2
      <4>4. QED
        BY <2>2, <3>2, <4>1, <4>2, <4>3 DEF PastOf
    <3>4. ASSUME NEW a \in Branch PROVE PastOf(a)' = IF a = b THEN PastOf(a) \cup {c} ELSE PastOf(a)
      <4>1. CASE a = b
        BY <3>3, <4>1, ZenonT(60) DEF PastOf
      <4>2. CASE a # b
        BY <2>1, <4>2 DEF PastOf
      <4>3. QED
        BY <4>1, <4>2
    <3>5. QED
      BY <3>4
  <2>5. QED
    BY <2>3, <2>4
<1>7. \A u \in Thread : SnapOf(u)' = IF u = t THEN [SnapOf(t) EXCEPT !.commit = c] ELSE SnapOf(u)
  <2>1. fs' = [fs EXCEPT ![t] = [ref |-> b, commit |-> c]] /\ fs \in [Thread -> Snapshot]
    BY DEF Moved, RefinementInv, TypeOK
  <2>2. \A u \in Thread : fs'[u] = IF u = t THEN [ref |-> b, commit |-> c] ELSE fs[u]
    BY <2>1
  <2>3. ASSUME NEW u \in Thread, u # t PROVE SnapOf(u)' = SnapOf(u)
    BY <2>2, <2>3 DEF SnapOf
  <2>4. SnapOf(t)' = [ref |-> b, commit |-> c]
    BY <1>1, <2>2 DEF SnapOf
  <2>5. [SnapOf(t) EXCEPT !.commit = c] = [ref |-> b, commit |-> c]
    BY <1>2
  <2>6. QED
    BY <2>3, <2>4, <2>5
<1> DEFINE tip == [a \in Branch |-> refs[a]]
           past == [a \in Branch |-> PastOf(a)]
           snap == [u \in Thread |-> SnapOf(u)]
<1>8. snap[t].ref = b /\ snap[t].commit = fs[t].commit
  BY <1>2
<1>9. tip[b] \in {0, snap[t].commit}
  BY <1>1, <1>3, <1>8
<1>10. tip' = [tip EXCEPT ![b] = c]
  BY <1>1, <1>5
<1>11. past' = [past EXCEPT ![b] = @ \cup {c}]
  BY <1>1, <1>6
<1>12. snap' = [snap EXCEPT ![t].commit = c]
  BY <1>7
<1>13. commits' = commits
  BY DEF Moved
<1>14. QED
  BY <1>1, <1>8, <1>9, <1>10, <1>11, <1>12, <1>13 DEF Promise!Swap

(* ... and the target is one SnapshotStore allows.                         *)
LEMMA MoveStep ==
    ASSUME RefinementInv, NEW t \in Thread, Moved(t)
    PROVE  Promise!Extend(t) \/ Promise!Rewind(t) \/ Promise!Return(t)
<1> PICK c : c = target[t]
  OBVIOUS
<1>1. Promise!Swap(t, c)
  BY SwapStep
<1>2. /\ pc[t] = "update" /\ pc[t] \in MovingPc /\ call[t].op \in LockingOp
      /\ fs[t].ref \in Branch /\ call[t].ref = fs[t].ref
      /\ c \in 1 .. Len(commits)
  BY DEF Moved, RefinementInv, CallOK, TypeOK, MovingPc, CheckedPc, None
<1>3. [u \in Thread |-> SnapOf(u)][t] = [ref |-> fs[t].ref, commit |-> fs[t].commit]
  BY <1>2 DEF SnapOf
<1>4. /\ [u \in Thread |-> SnapOf(u)][t].ref = fs[t].ref
       /\ [u \in Thread |-> SnapOf(u)][t].commit = fs[t].commit
  BY <1>3
<1>5. TargetOK(t)
  BY DEF RefinementInv
<1>6. CASE call[t].op = "commit"
  <2>1. fs[t].commit # 0 => Promise!FirstParent(c) = fs[t].commit
    BY <1>2, <1>6 DEF RefinementInv, HistoryOK, BuiltOnSnapshot, FirstParent,
                      Promise!FirstParent, None
  <2>2. /\ call[t].change \in Changes[t]
        /\ commits[c].tree = RebuildTree(TreeOf(fs[t].commit), call[t].change)
    BY <1>2, <1>5, <1>6 DEF TargetOK
  <2>3. commits[c].tree = Promise!Applied(Promise!TreeOf(fs[t].commit), call[t].change)
    BY <2>2 DEF Promise!Applied, Promise!TreeOf, RebuildTree, TreeOf, EmptyTree, None
  <2>4. c \in Promise!CommitId
    BY <1>2 DEF Promise!CommitId
  <2>5. Promise!Extend(t)
    BY <1>1, <1>4, <2>1, <2>2, <2>3, <2>4, Zenon DEF Promise!Extend
  <2>6. QED
    BY <2>5
<1>7. CASE call[t].op = "undo"
  <2>1. c \in AncestorsIn(commits, fs[t].commit)
    BY <1>2, <1>5, <1>7 DEF TargetOK
  <2>2. \A d : Promise!Ancestors(d) = AncestorsIn(commits, d)
    BY Zenon DEF Promise!Ancestors, AncestorsIn, Promise!FirstParent, ParentOf, None
  <2>3. Promise!Rewind(t)
    BY <1>1, <1>4, <2>1, <2>2, Zenon DEF Promise!Rewind
  <2>4. QED
    BY <2>3
<1>8. CASE call[t].op = "redo"
  <2>1. c \in PastOf(fs[t].ref)
    BY <1>2, <1>5, <1>8 DEF TargetOK, PastIn, PastOf
  <2>2. [b \in Branch |-> PastOf(b)][fs[t].ref] = PastOf(fs[t].ref)
    BY <1>2
  <2>3. \E d \in PastOf(fs[t].ref) : Promise!Swap(t, d)
    BY <1>1, <2>1, Zenon
  <2>4. \E d \in [b \in Branch |-> PastOf(b)][[u \in Thread |-> SnapOf(u)][t].ref] : Promise!Swap(t, d)
    BY <1>4, <2>2, <2>3, Zenon
  <2>5. Promise!Return(t)
    BY <1>2, <1>4, <2>4 DEF Promise!Return
  <2>6. QED
    BY <2>5
<1>9. QED
  BY <1>2, <1>6, <1>7, <1>8 DEF LockingOp

(* The steps that commit_changes, undo and redo take under vost.lock amount *)
(* to atomic swaps of the branch from the snapshot's commit: a store that  *)
(* is used without RefDict::set and RefDict::del implements SnapshotStore. *)
THEOREM Refinement ==
    ASSUME Ops \cap RefDictOp = {}
    PROVE  Spec => AtomicSwaps
<1>1. Init => Promise!Init
  BY InitPromise
<1>2. RefinementInv /\ RefinementInv' /\ [Next]_vars => [Promise!Next]_(Promise!vars)
  <2> SUFFICES ASSUME RefinementInv, RefinementInv', [Next]_vars PROVE Promise!Next
    OBVIOUS
  <2>1. CASE UNCHANGED <<refs, reflog>>
    <3>1. Promise!Private
      BY <2>1, PrivateStep, NextCommitsGrow DEF RefinementInv
    <3>2. QED
      BY <3>1 DEF Promise!Next
  <2>2. ASSUME NEW t \in Thread, Moved(t) PROVE Promise!Next
    BY <2>2, MoveStep DEF Promise!Next
  <2>3. \A t \in Thread : ~Assigned(t) /\ ~Deleted(t)
    BY DEF Assigned, Deleted, RefinementInv, CallOK, RefDictOp
  <2>4. QED
    BY <2>1, <2>2, <2>3, RefMoves DEF RefinementInv
<1>3. RefinementInv /\ [Next]_vars => RefinementInv'
  BY NextRefinementInv
<1>4. QED
  BY <1>1, <1>2, <1>3, InitRefinementInv, PTL DEF Spec, AtomicSwaps, Promise!Spec

-----------------------------------------------------------------------------
(* What Fs::log returns.                                                   *)

LogState == [cur : 0 .. Len(commits), skipped : Nat, found : Seq(Nat)]

(* A round, or nothing after the last one.                                 *)
LogStep(opts, s) == IF s.cur = None THEN s ELSE LogRound(opts, s)

(* Adding to the end of a sequence.                                        *)
LEMMA AppendIs ==
    ASSUME NEW s \in Seq(Nat), NEW e \in Nat, NEW r, r = Append(s, e)
    PROVE  /\ r \in Seq(Nat) /\ r # <<>>
           /\ Len(s) \in Nat /\ Len(r) = Len(s) + 1
           /\ r[Len(s) + 1] = e
           /\ \A i \in 1 .. Len(s) : r[i] = s[i]
           /\ r[1] = IF s = <<>> THEN e ELSE s[1]
<1>1. /\ r \in Seq(Nat)
      /\ Len(s) \in Nat /\ Len(r) = Len(s) + 1
      /\ r[Len(s) + 1] = e
      /\ \A i \in 1 .. Len(s) : r[i] = s[i]
  OBVIOUS
<1>2. s = <<>> <=> Len(s) = 0
  OBVIOUS
<1>3. Len(s) # 0 => 1 \in 1 .. Len(s)
  BY <1>1
<1>4. r # <<>>
  BY <1>1
<1>5. QED
  BY <1>1, <1>2, <1>3, <1>4

(* A round in terms of the fields.                                         *)
LEMMA LogRoundIs ==
    ASSUME ParentsFirst(commits), NEW opts, NEW s \in LogState, s.cur # None,
           NEW r, r = LogRound(opts, s)
    PROVE  /\ r \in LogState
           /\ FirstParent(s.cur) \in 0 .. Len(commits) /\ FirstParent(s.cur) < s.cur
           /\ ~Matches(opts, s.cur) =>
                 r.cur = FirstParent(s.cur) /\ r.skipped = s.skipped /\ r.found = s.found
           /\ Matches(opts, s.cur) /\ "skip" \in DOMAIN opts /\ s.skipped < opts.skip =>
                 /\ r.cur = FirstParent(s.cur) /\ r.skipped = s.skipped + 1
                 /\ r.found = s.found
           /\ Matches(opts, s.cur) /\ ~("skip" \in DOMAIN opts /\ s.skipped < opts.skip) =>
                 /\ r.skipped = s.skipped
                 /\ r.found = Append(s.found, s.cur)
                 /\ r.cur = IF "limit" \in DOMAIN opts /\ Len(r.found) >= opts.limit
                            THEN None ELSE FirstParent(s.cur)
<1> DEFINE next == FirstParent(s.cur)
           matches == Matches(opts, s.cur)
           skips == "skip" \in DOMAIN opts /\ s.skipped < opts.skip
           full == "limit" \in DOMAIN opts /\ Len(Append(s.found, s.cur)) >= opts.limit
<1>1. s.cur \in 1 .. Len(commits)
  BY DEF LogState, None, ParentsFirst
<1>2. next \in 0 .. Len(commits) /\ next < s.cur
  BY <1>1 DEF ParentsFirst, ParentOf, FirstParent
<1>3. Append(s.found, s.cur) \in Seq(Nat)
  BY <1>1 DEF LogState, ParentsFirst
<1>4. r = IF ~matches THEN [s EXCEPT !.cur = next]
          ELSE IF skips THEN [s EXCEPT !.cur = next, !.skipped = @ + 1]
          ELSE [s EXCEPT !.found = Append(s.found, s.cur), !.cur = IF full THEN None ELSE next]
  BY DEF LogRound
<1> HIDE DEF next, matches, skips, full
<1>5. CASE ~matches
  <2>1. r = [s EXCEPT !.cur = next]
    BY <1>4, <1>5
  <2>2. r \in LogState /\ r.cur = next /\ r.skipped = s.skipped /\ r.found = s.found
    BY <2>1, <1>2 DEF LogState
  <2>3. QED
    BY <1>2, <1>5, <2>2 DEF next, matches
<1>6. CASE matches /\ skips
  <2>1. r = [s EXCEPT !.cur = next, !.skipped = s.skipped + 1]
    BY <1>4, <1>6
  <2>2. s.skipped + 1 \in Nat
    BY DEF LogState
  <2> DEFINE more == s.skipped + 1
  <2> HIDE DEF more
  <2>3. r \in LogState /\ r.cur = next /\ r.skipped = more /\ r.found = s.found
    BY <2>1, <2>2, <1>2 DEF LogState, more
  <2>4. QED
    BY <1>2, <1>6, <2>3 DEF next, matches, skips, more
<1>7. CASE matches /\ ~skips
  <2>1. r = [s EXCEPT !.found = Append(s.found, s.cur), !.cur = IF full THEN None ELSE next]
    BY <1>4, <1>7
  <2>2. (IF full THEN None ELSE next) \in 0 .. Len(commits)
    BY <1>2 DEF None, ParentsFirst
  <2>3. /\ r \in LogState /\ r.cur = IF full THEN None ELSE next
        /\ r.skipped = s.skipped /\ r.found = Append(s.found, s.cur)
    BY <2>1, <2>2, <1>3 DEF LogState
  <2>4. QED
    BY <1>2, <1>7, <2>3 DEF next, matches, skips, full
<1>8. QED
  BY <1>5, <1>6, <1>7

(* The log is the iteration of LogStep.                                    *)
LEMMA LogIs ==
    ASSUME ParentsFirst(commits), NEW opts, NEW c \in 0 .. Len(commits)
    PROVE  \E s \in [0 .. Len(commits) -> LogState] :
              /\ s[0] = [cur |-> c, skipped |-> 0, found |-> <<>>]
              /\ \A i \in 1 .. Len(commits) : s[i] = LogStep(opts, s[i-1])
              /\ Log(opts, c) = s[Len(commits)].found
<1> DEFINE L == Len(commits)
           first == [cur |-> c, skipped |-> 0, found |-> <<>>]
           prev == [i \in 1 .. L |-> i - 1]
           step == [i \in 1 .. L |-> [x \in LogState |-> LogStep(opts, x)]]
           body(f) == [i \in 0 .. L |-> IF i = 0 THEN first ELSE LogStep(opts, f[i-1])]
           s == CHOOSE f : f = body(f)
<1>1. L \in Nat
  BY DEF ParentsFirst
<1>2. ASSUME NEW x \in LogState PROVE LogStep(opts, x) \in LogState
  BY LogRoundIs DEF LogStep
<1>3. Log(opts, c) = s[L].found
  BY ZenonT(30) DEF Log, LogStep
<1>4. IsRecursion(L, LogState, first, prev, step)
  <2>1. first \in LogState
    BY DEF LogState
  <2>2. prev \in [1 .. L -> Nat] /\ \A i \in 1 .. L : prev[i] < i
    BY <1>1
  <2>3. step \in [1 .. L -> [LogState -> LogState]]
    BY <1>2
  <2>4. QED
    BY <1>1, <2>1, <2>2, <2>3 DEF IsRecursion
<1> HIDE DEF L, first, s
<1>5. \E f : f = body(f)
  <2> HIDE DEF prev, step
  <2>1. PICK f : Solves(f, L, LogState, first, prev, step)
    BY <1>4, Recursion
  <2>2. /\ f \in [0 .. L -> LogState] /\ f[0] = first
        /\ \A i \in 1 .. L : f[i] = step[i][f[prev[i]]]
    BY <2>1 DEF Solves
  <2>3. ASSUME NEW i \in 1 .. L PROVE f[i] = LogStep(opts, f[i-1])
    <3>1. prev[i] = i - 1 /\ i - 1 \in 0 .. L
      BY <1>1 DEF prev
    <3>2. f[i-1] \in LogState
      BY <2>2, <3>1
    <3>3. QED
      BY <2>2, <3>1, <3>2 DEF step
  <2>4. \A i \in 0 .. L : i = 0 \/ i \in 1 .. L
    BY <1>1
  <2>5. f = body(f)
    BY <2>2, <2>3, <2>4
  <2>6. QED
    BY <2>5
<1>6. s = body(s)
  <2> HIDE DEF body
  <2>1. QED
    BY <1>5 DEF s
<1>7. /\ \A i \in 1 .. L : s[i] = LogStep(opts, s[i-1])
      /\ s[0] = first
  <2>1. \A i \in 0 .. L : s[i] = IF i = 0 THEN first ELSE LogStep(opts, s[i-1])
    BY <1>6
  <2>2. QED
    BY <1>1, <2>1
<1>8. s \in [0 .. L -> LogState]
  <2> DEFINE T == {i \in 0 .. L : s[i] \in LogState}
  <2>1. 0 \in T
    BY <1>1, <1>4, <1>7 DEF IsRecursion
  <2>2. ASSUME NEW k \in 0 .. L, k < L, k \in T PROVE k + 1 \in T
    <3>1. k + 1 \in 1 .. L /\ (k + 1) - 1 = k
      BY <1>1, <2>2
    <3>2. s[k + 1] = LogStep(opts, s[k])
      BY <1>7, <3>1
    <3>3. QED
      BY <1>2, <2>2, <3>1, <3>2
  <2> HIDE DEF T
  <2>3. 0 .. L \subseteq T
    BY <1>1, <2>1, <2>2, InductionUpTo
  <2>4. \A i \in 0 .. L : s[i] \in LogState
    BY <2>3 DEF T
  <2>5. s = [i \in 0 .. L |-> s[i]]
    BY <1>6
  <2>6. QED
    BY <2>4, <2>5
<1>9. QED
  BY <1>3, <1>7, <1>8 DEF L, first

(* The path filter lets those commits pass that change the path.           *)
LEMMA PathMatchIs ==
    ASSUME NEW p, NEW c
    PROVE  Matches([path |-> p], c) <=> TreeOf(c)[p] # TreeOf(FirstParent(c))[p]
BY DEF Matches

(* As long as no commit is found the path has the content it had at the    *)
(* start; afterwards the first one found has it.                           *)
LEMMA LogExplains ==
    ASSUME ParentsFirst(commits), NEW c \in 1 .. Len(commits), NEW p \in Path
    PROVE  LET log == Log([path |-> p], c)
           IN TreeOf(c)[p] = IF log = <<>> THEN NoData ELSE TreeOf(log[1])[p]
<1> DEFINE L == Len(commits)
           opts == [path |-> p]
           Explains(s) == /\ s.found = <<>> => TreeOf(s.cur)[p] = TreeOf(c)[p]
                          /\ s.found # <<>> => TreeOf(s.found[1])[p] = TreeOf(c)[p]
<1>1. L \in Nat /\ c \in 0 .. L
  BY DEF ParentsFirst
<1>2. PICK s \in [0 .. L -> LogState] :
         /\ s[0] = [cur |-> c, skipped |-> 0, found |-> <<>>]
         /\ \A i \in 1 .. L : s[i] = LogStep(opts, s[i-1])
         /\ Log(opts, c) = s[L].found
  BY <1>1, LogIs
<1> DEFINE T == {i \in 0 .. L : Explains(s[i]) /\ (s[i].cur = None \/ s[i].cur <= c - i)}
<1>3. 0 \in T
  BY <1>1, <1>2
<1>4. ASSUME NEW k \in 0 .. L, k < L, k \in T PROVE k + 1 \in T
  <2>1. k + 1 \in 0 .. L /\ k + 1 \in 1 .. L /\ (k + 1) - 1 = k
    BY <1>1, <1>4
  <2>2. s[k + 1] = LogStep(opts, s[k])
    BY <1>2, <2>1
  <2>3. CASE s[k].cur = None
    BY <1>4, <2>1, <2>2, <2>3 DEF LogStep
  <2>4. CASE s[k].cur # None
    <3> DEFINE x == s[k]
               r == s[k + 1]
    <3>1. x \in LogState /\ r = LogRound(opts, x) /\ x.cur <= c - k
      BY <1>2, <1>4, <2>2, <2>4 DEF LogStep
    <3>2. "skip" \notin DOMAIN opts /\ "limit" \notin DOMAIN opts
      OBVIOUS
    <3>3. Matches(opts, x.cur) <=> TreeOf(x.cur)[p] # TreeOf(FirstParent(x.cur))[p]
      BY PathMatchIs
    <3>4. Explains(x)
      BY <1>4
    <3> HIDE DEF x, r, opts
    <3>5. /\ FirstParent(x.cur) < x.cur /\ FirstParent(x.cur) \in 0 .. L
          /\ r.cur = FirstParent(x.cur)
          /\ ~Matches(opts, x.cur) => r.found = x.found
          /\ Matches(opts, x.cur) => r.found = Append(x.found, x.cur)
      BY <2>4, <3>1, <3>2, LogRoundIs DEF x
    <3>6. r.cur <= c - (k + 1)
      BY <1>1, <3>1, <3>5 DEF LogState
    <3>7. Explains(r)
      <4>1. CASE ~Matches(opts, x.cur)
        BY <3>3, <3>4, <3>5, <4>1
      <4>2. CASE Matches(opts, x.cur)
        <5>1. x.found \in Seq(Nat) /\ x.cur \in Nat
          BY <1>1, <3>1 DEF LogState
        <5>2. r.found # <<>> /\ r.found[1] = IF x.found = <<>> THEN x.cur ELSE x.found[1]
          <6>1. r.found = Append(x.found, x.cur)
            BY <3>5, <4>2
          <6> DEFINE before == x.found
                     after == r.found
                     new == x.cur
          <6> HIDE DEF Explains, before, after, new
          <6>2. before \in Seq(Nat) /\ new \in Nat /\ after = Append(before, new)
            BY <5>1, <6>1 DEF before, after, new
          <6>3. after # <<>> /\ after[1] = IF before = <<>> THEN new ELSE before[1]
            BY <6>2, AppendIs
          <6>4. QED
            BY <6>3 DEF before, after, new
        <5>3. QED
          BY <3>4, <5>2
      <4>3. QED
        BY <4>1, <4>2
    <3>8. QED
      BY <2>1, <3>6, <3>7 DEF r
  <2>5. QED
    BY <2>3, <2>4
<1> HIDE DEF T
<1>5. 0 .. L \subseteq T
  BY <1>1, <1>3, <1>4, InductionUpTo
<1>6. Explains(s[L]) /\ (s[L].cur = None \/ s[L].cur <= c - L) /\ s[L] \in LogState
  BY <1>1, <1>2, <1>5 DEF T
<1>7. s[L].cur = None
  BY <1>1, <1>6 DEF LogState, None
<1>8. TreeOf(None)[p] = NoData
  BY DEF TreeOf, EmptyTree
<1>9. QED
  BY <1>2, <1>6, <1>7, <1>8

(* The options of LogPagesAddUp and those of a page with them.             *)
PlainOptions(c) == {LogAll, [match |-> "user"], [before |-> c - 1]} \cup {[path |-> p] : p \in Path}

(* The filters are the same for a page.                                    *)
LEMMA PageOptions ==
    ASSUME NEW c, NEW opts \in PlainOptions(c), NEW k, NEW n,
           NEW page, page = PageOf(opts, k, n)
    PROVE  /\ "skip" \notin DOMAIN opts /\ "limit" \notin DOMAIN opts
           /\ "skip" \in DOMAIN page /\ "limit" \in DOMAIN page
           /\ page.skip = k /\ page.limit = n
           /\ \A d : Matches(page, d) <=> Matches(opts, d)
<1>1. DOMAIN opts \in {{}, {"match"}, {"before"}, {"path"}}
  BY DEF PlainOptions, LogAll
<1>2. /\ DOMAIN page = DOMAIN opts \cup {"skip", "limit"}
      /\ \A o \in DOMAIN opts : page[o] = opts[o]
      /\ page["skip"] = k /\ page["limit"] = n
  BY <1>1 DEF PageOf
<1>3. QED
  BY <1>1, <1>2 DEF Matches

(* A page that is being filled, beside the whole log so far: it has what   *)
(* the log has after the first k entries, and at most n of them.           *)
PageFits(page, whole, k, n) ==
    /\ page \in Seq(Nat) /\ whole \in Seq(Nat) /\ Len(page) \in Nat /\ Len(whole) \in Nat
    /\ Len(page) = IF Len(whole) <= k THEN 0
                   ELSE IF Len(whole) <= k + n THEN Len(whole) - k ELSE n
    /\ \A i \in 1 .. Len(page) : page[i] = whole[k + i]

(* The two loops after the same number of rounds.  They are at the same    *)
(* commit until the page is full.                                          *)
Alongside(p, w, k, n) ==
    /\ PageFits(p.found, w.found, k, n)
    /\ p.skipped = IF Len(w.found) <= k THEN Len(w.found) ELSE k
    /\ \/ p.cur = w.cur /\ (p.cur = None \/ Len(w.found) < k + n)
       \/ p.cur = None /\ Len(w.found) >= k + n

(* One round keeps them alongside.                                         *)
LEMMA AlongsideStep ==
    ASSUME ParentsFirst(commits), NEW c, NEW opts \in PlainOptions(c),
           NEW k \in Nat, NEW n \in Nat, n # 0,
           NEW p \in LogState, NEW w \in LogState, Alongside(p, w, k, n),
           NEW p2, p2 = LogStep(PageOf(opts, k, n), p), NEW w2, w2 = LogStep(opts, w)
    PROVE  Alongside(p2, w2, k, n)
<1> DEFINE page == PageOf(opts, k, n)
<1>1. /\ "skip" \notin DOMAIN opts /\ "limit" \notin DOMAIN opts
      /\ "skip" \in DOMAIN page /\ "limit" \in DOMAIN page
      /\ page.skip = k /\ page.limit = n
      /\ \A d : Matches(page, d) <=> Matches(opts, d)
  BY PageOptions
<1> HIDE DEF page
<1>2. /\ w.found \in Seq(Nat) /\ w.cur \in Nat /\ Len(w.found) \in Nat
      /\ p.found \in Seq(Nat) /\ p.cur \in Nat /\ Len(p.found) \in Nat /\ p.skipped \in Nat
  BY DEF LogState, ParentsFirst
<1>3. CASE w.cur = None
  BY <1>3 DEF LogStep, Alongside
<1>4. CASE w.cur # None
  <2>1. w2 = LogRound(opts, w)
    BY <1>4 DEF LogStep
  <2>2. /\ ~Matches(opts, w.cur) => w2.cur = FirstParent(w.cur) /\ w2.found = w.found
        /\ Matches(opts, w.cur) => w2.cur = FirstParent(w.cur) /\ w2.found = Append(w.found, w.cur)
    BY <1>1, <1>4, <2>1, LogRoundIs
  <2>3. CASE ~Matches(opts, w.cur)
    <3>1. CASE p.cur = None
      <4>1. p2 = p /\ Len(w.found) >= k + n
        BY <1>4, <3>1 DEF LogStep, Alongside
      <4>2. QED
        BY <2>2, <2>3, <3>1, <4>1 DEF Alongside
    <3>2. CASE p.cur # None
      <4>1. p.cur = w.cur /\ Len(w.found) < k + n /\ p2 = LogRound(page, p)
        BY <3>2 DEF LogStep, Alongside, page
      <4>2. p2.cur = FirstParent(p.cur) /\ p2.skipped = p.skipped /\ p2.found = p.found
        BY <1>1, <2>3, <3>2, <4>1, LogRoundIs
      <4>3. QED
        BY <2>2, <2>3, <4>1, <4>2 DEF Alongside
    <3>3. QED
      BY <3>1, <3>2
  <2>4. CASE Matches(opts, w.cur)
    <3> DEFINE W == w.found
               W2 == w2.found
               P == p.found
               P2 == p2.found
    <3>1. /\ W2 \in Seq(Nat) /\ Len(W2) = Len(W) + 1
          /\ W2[Len(W) + 1] = w.cur
          /\ \A i \in 1 .. Len(W) : W2[i] = W[i]
      <4>1. W2 = Append(W, w.cur)
        BY <2>2, <2>4
      <4> HIDE DEF W2
      <4>2. QED
        BY <1>2, <4>1, AppendIs
    <3>2. PageFits(P, W, k, n)
      BY DEF Alongside
    <3>3. CASE p.cur = None
      <4>1. p2 = p /\ Len(W) >= k + n
        BY <1>4, <3>3 DEF LogStep, Alongside
      <4> HIDE DEF W, W2, P, P2
      <4>2. PageFits(P, W2, k, n)
        <5>1. P \in Seq(Nat) /\ Len(P) = n /\ \A i \in 1 .. Len(P) : P[i] = W[k + i]
          BY <1>2, <3>2, <4>1 DEF PageFits, W, P
        <5>2. Len(W) \in Nat
          BY <1>2 DEF W
        <5>3. \A i \in 1 .. n : k + i \in 1 .. Len(W)
          BY <4>1, <5>2
        <5>4. \A i \in 1 .. n : P[i] = W2[k + i]
          BY <3>1, <5>1, <5>3
        <5>5. QED
          BY <3>1, <4>1, <5>1, <5>2, <5>4 DEF PageFits
      <4>3. p.skipped = k
        BY <1>2, <4>1 DEF Alongside, W
      <4>4. QED
        <5>1. Len(w2.found) >= k + n /\ Len(w2.found) > k
          <6>1. Len(W2) >= k + n /\ Len(W2) > k
            <7>1. Len(W) \in Nat
              BY <1>2 DEF W
            <7>2. QED
              BY <3>1, <4>1, <7>1
          <6>2. QED
            BY <6>1 DEF W2
        <5>2. p2.skipped = IF Len(w2.found) <= k THEN Len(w2.found) ELSE k
          BY <1>2, <3>1, <4>1, <4>3, <5>1 DEF W, W2
        <5>3. PageFits(p2.found, w2.found, k, n) /\ p2.cur = None
          BY <3>3, <4>1, <4>2 DEF P, W2
        <5>4. QED
          BY <5>1, <5>2, <5>3 DEF Alongside
    <3>4. CASE p.cur # None
      <4>1. p.cur = w.cur /\ Len(W) < k + n /\ p2 = LogRound(page, p) /\ Matches(page, p.cur)
        BY <1>1, <2>4, <3>4 DEF LogStep, Alongside, page
      <4>2. p.skipped = IF Len(W) <= k THEN Len(W) ELSE k
        BY DEF Alongside
      <4>3. CASE Len(W) < k
        <5>1. p2.cur = FirstParent(p.cur) /\ p2.skipped = p.skipped + 1 /\ P2 = P
          <6>1. p.skipped < k
            BY <1>2, <4>2, <4>3
          <6>2. "skip" \in DOMAIN page /\ p.skipped < page.skip
            BY <1>1, <6>1
          <6>3. QED
            BY <3>4, <4>1, <6>2, LogRoundIs
        <5> HIDE DEF W, W2, P, P2
        <5>2. PageFits(P, W2, k, n)
          BY <1>2, <3>1, <3>2, <4>3 DEF PageFits, W, P
        <5>3. QED
          BY <1>2, <2>2, <2>4, <3>1, <4>1, <4>2, <4>3, <5>1, <5>2 DEF Alongside, W, W2, P, P2
      <4>4. CASE Len(W) >= k
        <5>1. /\ p2.skipped = p.skipped /\ P2 = Append(P, p.cur)
              /\ p2.cur = IF Len(P2) >= n THEN None ELSE FirstParent(p.cur)
          <6>1. ~(p.skipped < k)
            BY <1>2, <4>2, <4>4
          <6>2. ~(p.skipped < page.skip) /\ page.limit = n
            BY <1>1, <6>1
          <6>3. /\ p2.skipped = p.skipped /\ p2.found = Append(p.found, p.cur)
                /\ p2.cur = IF "limit" \in DOMAIN page /\ Len(p2.found) >= page.limit
                            THEN None ELSE FirstParent(p.cur)
            BY <3>4, <4>1, <6>2, LogRoundIs
          <6>4. QED
            BY <1>1, <6>2, <6>3
        <5>2. /\ P2 \in Seq(Nat) /\ Len(P2) = Len(P) + 1
              /\ P2[Len(P) + 1] = p.cur
              /\ \A i \in 1 .. Len(P) : P2[i] = P[i]
          <6> HIDE DEF P2
          <6>1. QED
            BY <1>2, <5>1, AppendIs
        <5> HIDE DEF W, W2, P, P2
        <5>3. Len(P) = Len(W) - k /\ Len(P) \in Nat /\ Len(W) \in Nat
          BY <1>2, <3>2, <4>1, <4>4 DEF PageFits, W, P
        <5>4. PageFits(P2, W2, k, n)
          <6>1. Len(P2) = Len(W2) - k /\ Len(W2) <= k + n /\ Len(W2) > k
            BY <3>1, <4>1, <4>4, <5>2, <5>3
          <6>2. ASSUME NEW i \in 1 .. Len(P2) PROVE P2[i] = W2[k + i]
            <7>1. CASE i = Len(P) + 1
              <8>1. k + i = Len(W) + 1
                BY <5>3, <7>1
              <8>2. QED
                BY <3>1, <4>1, <5>2, <5>3, <7>1, <8>1
            <7>2. CASE i # Len(P) + 1
              <8>1. i \in 1 .. Len(P) /\ k + i \in 1 .. Len(W)
                <9>1. i \in 1 .. Len(P) + 1
                  BY <5>2
                <9>2. i \in Nat /\ 1 <= i /\ i <= Len(P)
                  BY <5>3, <7>2, <9>1
                <9>3. k + i <= Len(W) /\ 1 <= k + i /\ k + i \in Nat
                  BY <5>3, <9>2
                <9>4. QED
                  BY <5>3, <9>2, <9>3
              <8>2. P2[i] = P[i] /\ W2[k + i] = W[k + i]
                BY <3>1, <5>2, <5>3, <7>2, <8>1
              <8>3. P[i] = W[k + i]
                BY <3>2, <8>1 DEF PageFits
              <8>4. QED
                BY <8>2, <8>3
            <7>3. QED
              BY <7>1, <7>2
          <6>3. QED
            <7>1. ~(Len(W2) <= k) /\ Len(W2) \in Nat /\ Len(P2) \in Nat
              <8>1. Len(W2) \in Nat
                BY <3>1, <5>3
              <8>2. Len(P2) \in Nat
                BY <5>2, <5>3
              <8>3. QED
                BY <6>1, <8>1, <8>2
            <7>2. QED
              BY <3>1, <5>2, <6>1, <6>2, <7>1 DEF PageFits
        <5>5. p2.skipped = k
          BY <1>2, <4>2, <4>4, <5>1, <5>3 DEF W
        <5>6. Len(P2) >= n <=> Len(W2) >= k + n
          BY <3>1, <5>2, <5>3
        <5>7. QED
          <6>1. /\ PageFits(p2.found, w2.found, k, n)
                /\ p2.skipped = IF Len(w2.found) <= k THEN Len(w2.found) ELSE k
            BY <3>1, <4>4, <5>3, <5>4, <5>5 DEF W2, P2
          <6>2. w2.cur = FirstParent(p.cur)
            BY <2>2, <2>4, <4>1
          <6>3. CASE Len(W2) >= k + n
            BY <5>1, <5>6, <6>1, <6>3 DEF Alongside, W2
          <6>4. CASE ~(Len(W2) >= k + n)
            <7>1. Len(w2.found) < k + n
              BY <3>1, <5>3, <6>4 DEF W2
            <7>2. QED
              BY <5>1, <5>6, <6>1, <6>2, <6>4, <7>1 DEF Alongside
          <6>5. QED
            BY <6>3, <6>4
      <4>5. QED
        BY <1>2, <4>3, <4>4
    <3>5. QED
      BY <3>3, <3>4
  <2>5. QED
    BY <2>3, <2>4
<1>5. QED
  BY <1>3, <1>4

(* Every page is a piece of the log.                                       *)
LEMMA LogPages ==
    ASSUME ParentsFirst(commits), NEW c \in 1 .. Len(commits), NEW opts \in PlainOptions(c),
           NEW k \in 0 .. Len(Log(opts, c)), NEW n \in Nat, n # 0
    PROVE  LET whole == Log(opts, c)
               upto(m) == IF m < Len(whole) THEN m ELSE Len(whole)
           IN Log(PageOf(opts, k, n), c) = SubSeq(whole, k + 1, upto(k + n))
<1> DEFINE L == Len(commits)
           page == PageOf(opts, k, n)
           start == [cur |-> c, skipped |-> 0, found |-> <<>>]
<1>1. L \in Nat /\ c \in 0 .. L
  BY DEF ParentsFirst
<1>2. PICK w \in [0 .. L -> LogState] :
         /\ w[0] = start
         /\ \A i \in 1 .. L : w[i] = LogStep(opts, w[i-1])
         /\ Log(opts, c) = w[L].found
  BY <1>1, LogIs
<1>3. PICK p \in [0 .. L -> LogState] :
         /\ p[0] = start
         /\ \A i \in 1 .. L : p[i] = LogStep(page, p[i-1])
         /\ Log(page, c) = p[L].found
  BY <1>1, LogIs
<1>4. w[L] \in LogState /\ w[L].found \in Seq(Nat) /\ k \in Nat
  BY <1>1, <1>2 DEF LogState
<1> HIDE DEF page
<1> DEFINE T == {i \in 0 .. L : Alongside(p[i], w[i], k, n)}
<1>5. 0 \in T
  <2>1. <<>> \in Seq(Nat) /\ Len(<<>>) = 0
    OBVIOUS
  <2>2. PageFits(<<>>, <<>>, k, n)
    BY <1>4, <2>1 DEF PageFits
  <2>3. Alongside(start, start, k, n)
    BY <1>4, <2>1, <2>2 DEF Alongside
  <2> HIDE DEF start
  <2>4. QED
    BY <1>1, <1>2, <1>3, <2>3
<1>6. ASSUME NEW i \in 0 .. L, i < L, i \in T PROVE i + 1 \in T
  <2>1. i + 1 \in 0 .. L /\ i + 1 \in 1 .. L /\ (i + 1) - 1 = i
    BY <1>1, <1>6
  <2>2. w[i + 1] = LogStep(opts, w[i]) /\ p[i + 1] = LogStep(page, p[i])
    BY <1>2, <1>3, <2>1
  <2>3. w[i] \in LogState /\ p[i] \in LogState /\ Alongside(p[i], w[i], k, n)
    BY <1>2, <1>3, <1>6
  <2>4. Alongside(p[i + 1], w[i + 1], k, n)
    BY <1>4, <2>2, <2>3, AlongsideStep DEF page
  <2>5. QED
    BY <2>1, <2>4
<1> HIDE DEF T
<1>7. 0 .. L \subseteq T
  BY <1>1, <1>5, <1>6, InductionUpTo
<1> DEFINE whole == w[L].found
           piece == p[L].found
           last == IF k + n < Len(whole) THEN k + n ELSE Len(whole)
<1>8. PageFits(piece, whole, k, n)
  BY <1>1, <1>7 DEF T, Alongside
<1>9. k <= Len(whole)
  BY <1>2
<1> HIDE DEF whole, piece
<1>10. /\ piece \in Seq(Nat) /\ Len(piece) = last - k /\ last \in Nat /\ Len(piece) \in Nat
       /\ \A i \in 1 .. Len(piece) : piece[i] = whole[k + i]
  <2>1. /\ piece \in Seq(Nat) /\ Len(piece) \in Nat /\ Len(whole) \in Nat
        /\ \A i \in 1 .. Len(piece) : piece[i] = whole[k + i]
    BY <1>8 DEF PageFits
  <2>2. Len(piece) = IF Len(whole) <= k THEN 0
                     ELSE IF Len(whole) <= k + n THEN Len(whole) - k ELSE n
    BY <1>8 DEF PageFits
  <2> DEFINE len == Len(whole)
             short == Len(piece)
  <2> HIDE DEF len, short
  <2>3. len \in Nat /\ short \in Nat /\ k <= len
        /\ short = IF len <= k THEN 0 ELSE IF len <= k + n THEN len - k ELSE n
    BY <1>9, <2>1, <2>2 DEF len, short
  <2>4. short = (IF k + n < len THEN k + n ELSE len) - k
    BY <1>4, <2>3
  <2>5. last = IF k + n < len THEN k + n ELSE len
    BY DEF len
  <2> HIDE DEF last
  <2>6. last \in Nat /\ short = last - k
    BY <1>4, <2>3, <2>4, <2>5
  <2>7. QED
    BY <2>1, <2>6 DEF short
<1>11. piece = [i \in 1 .. Len(piece) |-> piece[i]]
  BY <1>10
<1>12. SubSeq(whole, k + 1, last) = [i \in 1 .. last - k |-> whole[k + i]]
  BY <1>4, <1>8, <1>9 DEF PageFits
<1>13. piece = SubSeq(whole, k + 1, last)
  BY <1>10, <1>11, <1>12
<1>14. QED
  BY <1>2, <1>3, <1>13 DEF whole, piece, page

(* The invariant that the theorems about logs need.                        *)
LogInv == TypeOK /\ CallOK /\ ParentsOK

(* It holds in every behaviour.                                            *)
LEMMA LogInvariant == Spec => []LogInv
<1>1. Init => LogInv
  <2> SUFFICES ASSUME Init PROVE LogInv
    OBVIOUS
  <2>1. TypeOK
    BY InitTypeOK
  <2>2. CallOK
    BY DEF Init, CallOK, CheckedPc
  <2>3. Len(commits) = 1 /\ commits[1].parents = <<>>
    BY DEF Init
  <2>4. ParentsFirst(commits)
    BY <2>3 DEF ParentsFirst, ParentOf, None
  <2>5. QED
    BY <2>1, <2>2, <2>4 DEF Init, ParentsOK, LogInv
<1>2. LogInv /\ [Next]_vars => LogInv'
  BY NextTypeOK, NextCallOK, NextParentsOK DEF LogInv
<1>3. QED
  BY <1>1, <1>2, PTL DEF Spec

(* A commit that a thread can ask the log of is a stored one.              *)
LEMMA LoggedStored ==
    ASSUME LogInv, NEW c \in Logged
    PROVE  c \in 1 .. Len(commits) /\ ParentsFirst(commits)
<1>1. PICK t \in Thread : c = fs[t].commit /\ c # None
  BY DEF Logged
<1>2. c \in 0 .. Len(commits)
  BY <1>1 DEF LogInv, TypeOK
<1>3. ParentsFirst(commits)
  BY DEF LogInv, ParentsOK
<1>4. QED
  BY <1>1, <1>2, <1>3 DEF None, ParentsFirst

(* Whatever commits, merges, squashes, undos and redos made the history of *)
(* a snapshot, the newest commit in the log of a path has the path's       *)
(* content (Fs::log with a path).                                          *)
THEOREM LogsExplainPaths == Spec => []LogExplainsPath
<1>1. LogInv => LogExplainsPath
  BY LoggedStored, LogExplains DEF LogExplainsPath
<1>2. QED
  BY <1>1, LogInvariant, PTL

(* However long the history and whatever the filter, the pages of a log    *)
(* (skip and limit of Fs::log) are consecutive pieces of it.               *)
THEOREM LogPagesAreExact == Spec => []LogPagesAddUp
<1>1. LogInv => LogPagesAddUp
  <2> SUFFICES ASSUME LogInv, NEW c \in Logged, NEW opts \in PlainOptions(c),
                      NEW k \in 0 .. Len(Log(opts, c)), NEW n \in 1 .. 2
               PROVE  Log(PageOf(opts, k, n), c) =
                         SubSeq(Log(opts, c), k + 1,
                                IF k + n < Len(Log(opts, c)) THEN k + n ELSE Len(Log(opts, c)))
    BY Zenon DEF LogPagesAddUp, PlainOptions
  <2>1. c \in 1 .. Len(commits) /\ ParentsFirst(commits)
    BY LoggedStored
  <2>2. n \in Nat /\ n # 0
    OBVIOUS
  <2>3. QED
    BY <2>1, <2>2, LogPages, Zenon
<1>2. QED
  BY <1>1, LogInvariant, PTL
=============================================================================
