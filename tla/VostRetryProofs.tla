--------------------------- MODULE VostRetryProofs ---------------------------
(***************************************************************************)
(* retry_write loses no increment and gives up only when overtaken, for    *)
(* every number of threads, processes and retries, while other references  *)
(* are set, deleted and undone without vost.lock.                          *)
(***************************************************************************)
EXTENDS VostRetry, VostStoreProofs

-----------------------------------------------------------------------------
(* The inductive invariant.                                                *)

(* The text and the number of a commit's counter, of the commits cs.       *)
TextIn(cs, c) == IF c = None THEN NoData ELSE cs[c].tree[Counter]
ValueIn(cs, c) ==
    IF TextIn(cs, c) = NoData THEN 0 ELSE CHOOSE n \in DOMAIN Text : Text[n] = TextIn(cs, c)

(* A commit's counter shows one of the numbers counted so far.             *)
Shows(cs, c, n) == TextIn(cs, c) = IF n = 0 THEN NoData ELSE Text[n]
CountsOK == \A c \in CommitId : \E n \in 0 .. ncalls : Shows(commits, c, n)

(* The branch's counter is the number of its movements since its creation. *)
MainOK ==
    /\ refs[InitBranch] # None
    /\ Len(reflog[InitBranch]) = ValueIn(commits, refs[InitBranch]) + 1

(* A call of retry_write's function: it commits the successor of what its  *)
(* snapshot shows, and from the stale check to the update the branch is at *)
(* that snapshot.                                                          *)
IncrementOK(t) ==
    /\ retry[t].phase = "call"
    /\ call[t].op = "commit" /\ call[t].ref = InitBranch
    /\ call[t].change = CounterTo(Text[ValueIn(commits, fs[t].commit) + 1])
    /\ ValueIn(commits, fs[t].commit) < ncalls
    /\ pc[t] \in CheckedPc => refs[InitBranch] = fs[t].commit
    /\ pc[t] \in {"lookup", "update"} => ValueIn(commits, target[t]) = ValueIn(commits, fs[t].commit) + 1
    /\ pc[t] = "update" => existing[t] = refs[InitBranch]

(* Whoever does not retry keeps off the branch.                            *)
ThreadOK(t) ==
    /\ pc[t] \in {"set", "del"} => t \notin Retrier /\ call[t].ref # InitBranch
    /\ t \notin Retrier =>
          /\ fs[t].ref # InitBranch
          /\ pc[t] \in MovingPc => call[t].op # "commit"
    /\ t \in Retrier /\ pc[t] \in MovingPc => IncrementOK(t)

(* The snapshot t got in this round, or the commit made of it, has been    *)
(* overtaken.                                                              *)
Overtaken(t) ==
    \/ retry[t].phase = "sleep"
    \/ /\ retry[t].phase = "write" \/ (retry[t].phase = "call" /\ pc[t] \in {"flock", "check"})
       /\ fs[t].commit # refs[InitBranch]
    \/ retry[t].phase = "call" /\ pc[t] \in {"unlock", "idle"} /\ res[t] = "stale"

(* A loop has seen at least as many movements as it has failed.            *)
LoopOK(t) ==
    /\ retry[t].phase # "call" => pc[t] = "idle"
    /\ retry[t].phase \in {"write", "call"} => fs[t].ref = InitBranch
    /\ retry[t].phase # "none" =>
          /\ Len(reflog[InitBranch]) >= retry[t].since + retry[t].attempt
          /\ Overtaken(t) => Len(reflog[InitBranch]) >= retry[t].since + retry[t].attempt + 1

Loop == [phase : {"none", "get", "write", "call", "sleep"}, attempt : Nat, since : Nat]
Tally == [begun : Nat, ok : Nat]

RetryInv ==
    /\ TypeOK /\ CallOK /\ LockOwnership
    /\ retry \in [Retrier -> Loop] /\ done \in [Retrier -> Tally]
    /\ CountsOK /\ MainOK
    /\ \A t \in Thread : ThreadOK(t)
    /\ \A t \in Retrier : LoopOK(t)

(* t is about to report a success; what it has reported, with that.        *)
Due(t) == retry[t].phase = "call" /\ pc[t] \in {"unlock", "idle"} /\ res[t] = "ok"
Credit(t) == done[t].ok + (IF Due(t) THEN 1 ELSE 0)

(* The number of successes that a table of the threads reports.            *)
Reported(d) == Total(LAMBDA t : d[t].ok)

Credits == [t \in Retrier |-> [ok |-> Credit(t)]]

CreditsOK == Reported(Credits) <= Len(reflog[InitBranch]) - 1

-----------------------------------------------------------------------------
(* Sums over the threads.                                                  *)

(* What MapThenSumSet computes of a finite set is a sum.                   *)
LEMMA ReportedIsSum ==
    ASSUME NEW d, NEW f \in [Retrier -> Nat], \A t \in Retrier : f[t] = d[t].ok,
           IsFiniteSet(Retrier)
    PROVE  \E sum : IsSum(sum, f, Retrier) /\ Reported(d) = sum[Retrier]
<1> DEFINE body(sum) == [s \in SUBSET Retrier |->
                           IF s = {} THEN 0 ELSE d[Chosen(s)].ok + sum[s \ {Chosen(s)}]]
           it == CHOOSE sum : sum = body(sum)
<1>1. Reported(d) = it[Retrier]
  BY Zenon DEF Reported, Total, MapThenSumSet, MapThenFoldSet, Chosen
<1>2. \A sum : (sum = body(sum)) <=> IsSum(sum, f, Retrier)
  <2> SUFFICES ASSUME NEW sum
               PROVE  body(sum) = [s \in SUBSET Retrier |-> IF s = {} THEN 0
                                     ELSE f[Chosen(s)] + sum[s \ {Chosen(s)}]]
    BY DEF IsSum
  <2>1. \A s \in SUBSET Retrier : s # {} => Chosen(s) \in Retrier
    BY DEF Chosen
  <2>2. QED
    BY <2>1
<1>3. \E sum : IsSum(sum, f, Retrier)
  BY SumExists
<1> HIDE DEF body
<1>4. \E sum : sum = body(sum)
  BY <1>2, <1>3, Zenon
<1>5. it = body(it)
  BY <1>4, Zenon
<1>6. IsSum(it, f, Retrier)
  BY <1>2, <1>5, Zenon
<1>7. QED
  BY <1>1, <1>6, Zenon

(* A table that exceeds another by at most d, for one thread only, reports *)
(* at most d more.                                                         *)
LEMMA ReportedAtMost ==
    ASSUME NEW a, NEW b, NEW t, NEW d \in Nat,
           \A u \in Retrier : /\ a[u].ok \in Nat /\ b[u].ok \in Nat
                              /\ b[u].ok <= a[u].ok + (IF u = t THEN d ELSE 0)
    PROVE  /\ Reported(a) \in Nat /\ Reported(b) \in Nat
           /\ Reported(b) <= Reported(a) + d
<1> DEFINE f == [u \in Retrier |-> a[u].ok]
           g == [u \in Retrier |-> b[u].ok]
<1>1. /\ f \in [Retrier -> Nat] /\ \A u \in Retrier : f[u] = a[u].ok
      /\ g \in [Retrier -> Nat] /\ \A u \in Retrier : g[u] = b[u].ok
  OBVIOUS
<1>2. IsFiniteSet(Retrier)
  BY RetryAssumption
<1> HIDE DEF f, g
<1>3. PICK sumf : IsSum(sumf, f, Retrier) /\ Reported(a) = sumf[Retrier]
  BY <1>1, <1>2, ReportedIsSum
<1>4. PICK sumg : IsSum(sumg, g, Retrier) /\ Reported(b) = sumg[Retrier]
  BY <1>1, <1>2, ReportedIsSum
<1>5. AtMost(g, f, Retrier, t, d)
  BY <1>1 DEF AtMost
<1>6. sumf[Retrier] \in Nat /\ sumg[Retrier] \in Nat /\ sumg[Retrier] <= sumf[Retrier] + d
  BY <1>1, <1>2, <1>3, <1>4, <1>5, SumAtMost, Zenon
<1>7. QED
  BY <1>3, <1>4, <1>6

-----------------------------------------------------------------------------
(* What commits show.                                                      *)

(* The value the function reads of a commit.                               *)
LEMMA ValueIsIn == ASSUME NEW c PROVE Value(c) = ValueIn(commits, c)
<1>1. Counter \in Path
  BY RetryAssumption
<1>2. TreeOf(c)[Counter] = TextIn(commits, c)
  BY <1>1 DEF TreeOf, TextIn, EmptyTree
<1>3. QED
  BY <1>2 DEF Value, ValueIn

(* Different numbers have different texts, and none is that of an empty    *)
(* counter.                                                                *)
LEMMA ShownValue ==
    ASSUME NEW cs, NEW c, NEW n \in 0 .. Len(Text), Shows(cs, c, n)
    PROVE  ValueIn(cs, c) = n
<1>1. CASE n = 0
  BY <1>1 DEF Shows, ValueIn
<1>2. CASE n # 0
  <2>1. n \in DOMAIN Text /\ Text[n] # NoData /\ TextIn(cs, c) = Text[n]
    BY <1>2, RetryAssumption DEF Shows
  <2>2. \A m \in DOMAIN Text : Text[m] = TextIn(cs, c) => m = n
    BY <2>1, RetryAssumption
  <2>3. (CHOOSE m \in DOMAIN Text : Text[m] = TextIn(cs, c)) = n
    BY <2>1, <2>2
  <2>4. QED
    BY <2>1, <2>3 DEF ValueIn
<1>3. QED
  BY <1>1, <1>2

(* Every stored commit, and no commit, shows a number counted so far.      *)
LEMMA CountedValue ==
    ASSUME TypeOK, CountsOK, NEW c \in 0 .. Len(commits)
    PROVE  ValueIn(commits, c) \in 0 .. ncalls /\ Shows(commits, c, ValueIn(commits, c))
<1>1. PICK n \in 0 .. ncalls : Shows(commits, c, n)
  <2>1. CASE c = 0
    BY <2>1 DEF Shows, TextIn, None, TypeOK
  <2>2. CASE c # 0
    BY <2>2 DEF CountsOK, CommitId, TypeOK
  <2>3. QED
    BY <2>1, <2>2
<1>2. n \in 0 .. Len(Text)
  BY RetryAssumption, BoundAssumption DEF TypeOK
<1>3. QED
  BY <1>1, <1>2, ShownValue

(* Stored commits keep showing it.                                         *)
LEMMA KeepsValue ==
    ASSUME TypeOK, CommitsGrow, NEW c \in 0 .. Len(commits)
    PROVE  /\ TextIn(commits', c) = TextIn(commits, c)
           /\ ValueIn(commits', c) = ValueIn(commits, c)
<1>1. TextIn(commits', c) = TextIn(commits, c)
  BY DEF TextIn, CommitsGrow, None
<1>2. QED
  BY <1>1 DEF ValueIn

-----------------------------------------------------------------------------
(* The steps of the store that retry_write and the others take.            *)

Uses(t) ==
    \/ \E r \in Ref : RefDictGet(t, r) \/ RefDictSet(t, r) \/ RefDictDel(t, r)
    \/ \E c \in CommitId : FsOfHash(t, c)
    \/ \E change \in Changes[t] : CommitChanges(t, change, "user", <<>>)
    \/ Undo(t, 1)
    \/ Proceed(t) \/ GitFailure(t)

(* Adding one to what a snapshot shows is one of the thread's changes.     *)
LEMMA IncrementIsChange ==
    ASSUME RetryInv, NEW t \in Retrier, WriteFile(t)
    PROVE  /\ ncalls < MaxCalls
           /\ ValueIn(commits, fs[t].commit) \in 0 .. ncalls
           /\ CounterTo(Text[Value(fs[t].commit) + 1]) \in Changes[t]
           /\ CounterTo(Text[Value(fs[t].commit) + 1])
                 = CounterTo(Text[ValueIn(commits, fs[t].commit) + 1])
<1>1. t \in Thread /\ fs[t].commit \in 0 .. Len(commits) /\ ncalls \in Nat
  BY RetryAssumption DEF RetryInv, TypeOK
<1>2. ncalls < MaxCalls
  BY DEF WriteFile, CommitChanges, Start
<1>3. ValueIn(commits, fs[t].commit) \in 0 .. ncalls
  BY <1>1, CountedValue DEF RetryInv
<1>4. Value(fs[t].commit) = ValueIn(commits, fs[t].commit)
  BY ValueIsIn
<1>5. Value(fs[t].commit) + 1 \in DOMAIN Text
  BY <1>1, <1>2, <1>3, <1>4, RetryAssumption, BoundAssumption
<1>6. CounterTo(Text[Value(fs[t].commit) + 1]) \in Changes[t]
  BY <1>5, RetryAssumption
<1>7. QED
  BY <1>2, <1>3, <1>4, <1>6

(* Every step is one of the store's, and of one thread or a crash.         *)
LEMMA StoreStep ==
    ASSUME RetryInv, [RetryNext]_retryVars
    PROVE  /\ [Next]_vars
           /\ \/ \E t \in Thread : Uses(t)
              \/ \E h \in Handle : Crash(h)
              \/ UNCHANGED vars
<1>1. ASSUME NEW t \in Thread, Uses(t) PROVE Next
  <2>1. "user" \in Message /\ <<>> \in ExtraParents /\ 1 \in 1 .. MaxBack
    BY RetryAssumption, BoundAssumption DEF ExtraParents
  <2>2. QED
    BY <1>1, <2>1 DEF Uses, Next, Snapshots, Calls
<1>2. ASSUME NEW t \in Retrier, BeginRetry(t) \/ RetryStep(t)
      PROVE  Uses(t) \/ UNCHANGED vars
  <2>1. CASE WriteFile(t)
    BY <2>1, IncrementIsChange DEF WriteFile, Uses
  <2>2. CASE GetBranch(t)
    BY <2>2, NameAssumption DEF GetBranch, Uses, Ref
  <2>3. QED
    BY <1>2, <2>1, <2>2 DEF RetryStep, BeginRetry, Returns, Wakes
<1>3. ASSUME NEW t \in Thread, Others(t) PROVE Uses(t)
  BY <1>3 DEF Others, Uses
<1>4. ASSUME NEW t \in Thread, Proceed(t) \/ GitFailure(t) PROVE Uses(t)
  BY <1>4 DEF Uses
<1>5. Retrier \subseteq Thread
  BY RetryAssumption
<1>6. \/ \E t \in Thread : Uses(t)
      \/ \E h \in Handle : Crash(h)
      \/ UNCHANGED vars
  BY <1>2, <1>3, <1>4, <1>5 DEF RetryNext, RetryCrash, retryVars
<1>7. QED
  BY <1>1, <1>6 DEF Next

(* The call of every other thread is where it was.                         *)
Still(u) ==
    /\ pc'[u] = pc[u] /\ call'[u] = call[u] /\ target'[u] = target[u]
    /\ existing'[u] = existing[u] /\ fs'[u] = fs[u] /\ res'[u] = res[u]

(* A step of one thread leaves the others' calls alone.                    *)
LEMMA OneActs ==
    ASSUME TypeOK, NEW t \in Thread, Uses(t), NEW u \in Thread, u # t
    PROVE  Still(u)
<1>1. ASSUME NEW r, Return(t, r) \/ Leave(t, r), fs'[u] = fs[u] PROVE Still(u)
  BY <1>1 DEF TypeOK, Return, Leave, Still
<1>2. ASSUME NEW r \in Ref, RefDictGet(t, r) PROVE Still(u)
  BY <1>1, <1>2 DEF TypeOK, RefDictGet
<1>3. ASSUME NEW c, FsOfHash(t, c) PROVE Still(u)
  BY <1>1, <1>3 DEF TypeOK, FsOfHash
<1>4. ASSUME NEW r \in Ref, RefDictSet(t, r) \/ RefDictDel(t, r) PROVE Still(u)
  BY <1>1, <1>4 DEF TypeOK, RefDictSet, RefDictDel, Goto, Still
<1>5. ASSUME NEW change, CommitChanges(t, change, "user", <<>>) PROVE Still(u)
  BY <1>5 DEF TypeOK, CommitChanges, Goto, Still
<1>6. ASSUME Undo(t, 1) PROVE Still(u)
  <2>1. CASE Return(t, "NotFound")
    BY <1>1, <1>6, <2>1 DEF Undo
  <2>2. CASE /\ Goto(t, "flock")
             /\ \E x : call' = [call EXCEPT ![t] = x]
             /\ \E x : target' = [target EXCEPT ![t] = x]
             /\ UNCHANGED <<existing, res>>
    BY <1>6, <2>2 DEF TypeOK, Undo, Goto, Still
  <2>3. QED
    BY <1>6, <2>1, <2>2, Zenon DEF Undo
<1>7. ASSUME Proceed(t) PROVE Still(u)
  <2>1. CASE AcquireRepoLock(t) \/ ReleaseRepoLock(t)
    BY <2>1 DEF TypeOK, AcquireRepoLock, ReleaseRepoLock, Goto, Still
  <2>2. CASE TimeOutRepoLock(t) \/ RefDictCreate(t) \/ RefDictDelete(t)
    BY <1>1, <2>2 DEF TimeOutRepoLock, RefDictCreate, RefDictDelete
  <2>3. CASE StaleCheck(t)
    BY <1>1, <2>3 DEF TypeOK, StaleCheck, Goto, Still
  <2>4. CASE BuildCommit(t)
    <3>1. \E id : target' = [target EXCEPT ![t] = id]
      BY <2>4 DEF BuildCommit
    <3>2. target'[u] = target[u]
      BY <3>1 DEF TypeOK
    <3>3. QED
      BY <2>4, <3>2 DEF TypeOK, BuildCommit, Goto, Still
  <2>5. CASE LookupRef(t)
    BY <1>1, <2>5 DEF TypeOK, LookupRef, Goto, Still
  <2>6. CASE UpdateRef(t)
    <3>1. fs'[u] = fs[u]
      BY <2>6 DEF TypeOK, UpdateRef
    <3>2. QED
      BY <1>1, <2>6, <3>1 DEF UpdateRef
  <2>7. QED
    BY <1>7, <2>1, <2>2, <2>3, <2>4, <2>5, <2>6 DEF Proceed
<1>8. ASSUME GitFailure(t) PROVE Still(u)
  BY <1>1, <1>8 DEF GitFailure
<1>9. QED
  BY <1>2, <1>3, <1>4, <1>5, <1>6, <1>7, <1>8 DEF Uses

(* The branch stays, or a retrier moves it from its snapshot's commit to   *)
(* one that shows the next number.                                         *)
Stays == refs'[InitBranch] = refs[InitBranch] /\ reflog'[InitBranch] = reflog[InitBranch]

Bumps(t) ==
    /\ pc[t] = "update" /\ commits' = commits
    /\ refs'[InitBranch] = target[t]
    /\ ValueIn(commits, target[t]) = ValueIn(commits, refs[InitBranch]) + 1
    /\ Len(reflog'[InitBranch]) = Len(reflog[InitBranch]) + 1
    /\ fs'[t] = [ref |-> fs[t].ref, commit |-> target[t]]

(* Only an increment moves the branch: whoever else holds a lock or none   *)
(* keeps to other references.                                              *)
LEMMA MainSteps ==
    ASSUME RetryInv, [Next]_vars
    PROVE  Stays \/ \E t \in Retrier : Bumps(t)
<1>1. InitBranch \in Ref /\ Retrier \subseteq Thread
  BY NameAssumption, RetryAssumption DEF Ref
<1>2. /\ refs \in [Ref -> 0 .. Len(commits)] /\ reflog \in [Ref -> Seq(LogEntry)]
      /\ fs \in [Thread -> Snapshot] /\ Len(commits) \in Nat
  BY DEF RetryInv, TypeOK
<1>3. ASSUME NEW r \in Ref, r # InitBranch, NEW c, NEW m, WriteRef(r, c, m) PROVE Stays
  BY <1>1, <1>2, <1>3 DEF WriteRef, Stays
<1>4. ASSUME NEW t \in Thread, Moved(t) PROVE Stays \/ (t \in Retrier /\ Bumps(t))
  <2>1. /\ pc[t] = "update" /\ pc[t] \in MovingPc /\ pc[t] \in CheckedPc
        /\ call[t].ref \in Branch /\ call[t].ref = fs[t].ref /\ ThreadOK(t)
    BY <1>4 DEF Moved, RetryInv, CallOK, MovingPc, CheckedPc
  <2>2. CASE t \notin Retrier
    BY <1>3, <1>4, <2>1, <2>2 DEF Moved, ThreadOK, Ref
  <2>3. CASE t \in Retrier
    <3>1. /\ call[t].ref = InitBranch /\ refs[InitBranch] = fs[t].commit
          /\ ValueIn(commits, target[t]) = ValueIn(commits, fs[t].commit) + 1
      BY <2>1, <2>3 DEF ThreadOK, IncrementOK
    <3>2. fs[t].commit \in 0 .. Len(commits) /\ ncalls \in Nat
      BY DEF RetryInv, TypeOK
    <3>3. ValueIn(commits, fs[t].commit) \in Nat
      BY <3>2, CountedValue DEF RetryInv
    <3>4. target[t] # refs[InitBranch]
      BY <3>1, <3>3
    <3>5. refs'[InitBranch] = target[t] /\ Len(reflog'[InitBranch]) = Len(reflog[InitBranch]) + 1
      BY <1>1, <1>2, <1>4, <3>1, <3>4 DEF Moved, WriteRef
    <3>6. QED
      BY <1>2, <1>4, <2>1, <2>3, <3>1, <3>5 DEF Moved, Bumps
  <2>4. QED
    BY <2>2, <2>3
<1>5. ASSUME NEW t \in Thread, Assigned(t) \/ Deleted(t) PROVE Stays
  <2>1. call[t].ref \in Ref /\ call[t].ref # InitBranch
    BY <1>5 DEF Assigned, Deleted, RetryInv, CallOK, ThreadOK
  <2>2. CASE Assigned(t)
    BY <1>3, <2>1, <2>2 DEF Assigned
  <2>3. CASE Deleted(t)
    BY <1>1, <1>2, <2>1, <2>3 DEF Deleted, Stays
  <2>4. QED
    BY <1>5, <2>2, <2>3
<1>6. QED
  BY <1>1, <1>4, <1>5, RefMoves DEF RetryInv, Stays

(* A commit that is made shows the successor of what its snapshot shows.   *)
LEMMA IncrementBuilt ==
    ASSUME RetryInv, NEW t \in Thread, BuildCommit(t)
    PROVE  /\ t \in Retrier
           /\ target'[t] \in 1 .. Len(commits')
           /\ Shows(commits', target'[t], ValueIn(commits, fs[t].commit) + 1)
           /\ \A c \in 1 .. Len(commits') : c \in CommitId \/ c = target'[t]
<1> DEFINE c == [parents |-> (IF fs[t].commit = None THEN <<>> ELSE <<fs[t].commit>>)
                             \o call[t].extra,
                 tree |-> RebuildTree(TreeOf(fs[t].commit), call[t].change),
                 msg |-> call[t].msg]
<1>1. c \in Commit
  BY BuiltCommitType DEF RetryInv
<1>2. pc[t] = "build" /\ call[t].op = "commit"
  BY DEF BuildCommit, RetryInv, CallOK
<1>3. t \in Retrier /\ IncrementOK(t)
  BY <1>2 DEF RetryInv, ThreadOK, MovingPc, CheckedPc
<1>4. ValueIn(commits, fs[t].commit) \in 0 .. ncalls /\ ncalls \in Nat
  <2>1. fs[t].commit \in 0 .. Len(commits) /\ ncalls \in Nat
    BY DEF RetryInv, TypeOK
  <2>2. QED
    BY <2>1, CountedValue DEF RetryInv
<1>5. c.tree[Counter] = Text[ValueIn(commits, fs[t].commit) + 1]
  BY <1>3, RetryAssumption DEF IncrementOK, RebuildTree, CounterTo
<1>6. PICK id \in WriteCommit(c) :
         commits' = Stored(id, c) /\ target' = [target EXCEPT ![t] = id]
  BY DEF BuildCommit
<1>7. target'[t] = id
  BY <1>6 DEF RetryInv, TypeOK
<1> HIDE DEF c
<1>8. id \in 1 .. Len(commits') /\ commits'[id] = c
  BY <1>1, <1>6, StoredType DEF RetryInv, TypeOK
<1>9. TextIn(commits', id) = Text[ValueIn(commits, fs[t].commit) + 1]
  BY <1>5, <1>8 DEF TextIn, None
<1>10. \A d \in 1 .. Len(commits') : d \in CommitId \/ d = id
  BY <1>6 DEF WriteCommit, Stored, CommitId, RetryInv, TypeOK
<1>11. QED
  BY <1>3, <1>4, <1>7, <1>8, <1>9, <1>10 DEF Shows

(* Whatever is stored shows a number counted so far, and the branch's      *)
(* counter keeps up with its movements.                                    *)
LEMMA CountsKept ==
    ASSUME RetryInv, [RetryNext]_retryVars
    PROVE  CommitsGrow /\ ncalls <= ncalls' /\ CountsOK' /\ MainOK'
<1>1. [Next]_vars
  BY StoreStep
<1>2. CommitsGrow
  BY <1>1, NextCommitsGrow DEF RetryInv
<1>3. ncalls \in Nat /\ ncalls <= ncalls'
  <2>1. ASSUME NEW t \in Thread, Uses(t) PROVE ncalls' = ncalls \/ ncalls' = ncalls + 1
    <3>1. CASE Proceed(t) \/ GitFailure(t)
      BY <3>1 DEF Proceed, AcquireRepoLock, TimeOutRepoLock, StaleCheck, BuildCommit, LookupRef,
         UpdateRef, ReleaseRepoLock, RefDictCreate, RefDictDelete, GitFailure
    <3>2. QED
      BY <2>1, <3>1 DEF Uses, RefDictGet, FsOfHash, CommitChanges, Undo, RefDictSet, RefDictDel, Start
  <2>2. ASSUME NEW h \in Handle, Crash(h) PROVE ncalls' = ncalls + 1
    BY <2>2 DEF Crash
  <2>3. ncalls' = ncalls \/ ncalls' = ncalls + 1
    BY <2>1, <2>2, StoreStep DEF vars
  <2>4. ncalls \in Nat
    BY DEF RetryInv, TypeOK
  <2>5. QED
    BY <2>3, <2>4
<1>4. \A c \in CommitId : \E n \in 0 .. ncalls' : Shows(commits', c, n)
  <2> SUFFICES ASSUME NEW c \in CommitId PROVE \E n \in 0 .. ncalls' : Shows(commits', c, n)
    OBVIOUS
  <2>1. PICK n \in 0 .. ncalls : Shows(commits, c, n)
    BY DEF RetryInv, CountsOK
  <2>2. TextIn(commits', c) = TextIn(commits, c)
    BY <1>2, KeepsValue DEF CommitId, RetryInv, TypeOK
  <2>3. n \in 0 .. ncalls'
    BY <1>1, <1>3, NextTypeOK DEF RetryInv, TypeOK
  <2>4. QED
    BY <2>1, <2>2, <2>3 DEF Shows
<1>5. CountsOK'
  <2>1. CASE commits' = commits
    BY <1>4, <2>1 DEF CountsOK, CommitId
  <2>2. ASSUME NEW t \in Thread, BuildCommit(t) PROVE CountsOK'
    <3>1. IncrementOK(t) /\ ncalls' = ncalls
      BY <2>2 DEF BuildCommit, RetryInv, CallOK, ThreadOK, MovingPc, CheckedPc
    <3>2. fs[t].commit \in 0 .. Len(commits)
      BY DEF RetryInv, TypeOK
    <3>3. ValueIn(commits, fs[t].commit) \in 0 .. ncalls
      BY <3>2, CountedValue DEF RetryInv
    <3>4. ValueIn(commits, fs[t].commit) + 1 \in 0 .. ncalls'
      BY <1>3, <3>1, <3>3 DEF IncrementOK
    <3>5. QED
      BY <1>4, <2>2, <3>4, IncrementBuilt DEF CountsOK, CommitId
  <2>3. commits' = commits \/ \E t \in Thread : BuildCommit(t)
    <3>1. ASSUME NEW t \in Thread, Uses(t) PROVE commits' = commits \/ BuildCommit(t)
      BY <3>1 DEF Uses, RefDictGet, FsOfHash, CommitChanges, Undo, RefDictSet, RefDictDel,
         Proceed, AcquireRepoLock, TimeOutRepoLock, StaleCheck, LookupRef, UpdateRef,
         ReleaseRepoLock, RefDictCreate, RefDictDelete, GitFailure
    <3>2. QED
      BY <3>1, StoreStep DEF Crash, vars
  <2>4. QED
    BY <2>1, <2>2, <2>3
<1>6. MainOK'
  <2>1. refs[InitBranch] \in 1 .. Len(commits)
    BY NameAssumption DEF RetryInv, TypeOK, MainOK, Ref, None
  <2>2. CASE Stays
    <3>1. ValueIn(commits', refs[InitBranch]) = ValueIn(commits, refs[InitBranch])
      BY <1>2, <2>1, KeepsValue DEF RetryInv, TypeOK
    <3>2. QED
      BY <2>2, <3>1 DEF Stays, MainOK, RetryInv
  <2>3. ASSUME NEW t \in Retrier, Bumps(t) PROVE MainOK'
    <3>1. target[t] # None
      BY <2>3, RetryAssumption DEF Bumps, RetryInv, CallOK
    <3>2. QED
      BY <2>3, <3>1 DEF Bumps, MainOK, RetryInv
  <2>4. QED
    BY <1>1, <2>2, <2>3, MainSteps
<1>7. QED
  BY <1>2, <1>3, <1>5, <1>6

-----------------------------------------------------------------------------
(* What a step does to the threads.                                        *)

(* A thread that does nothing while another acts: if the branch moves, it  *)
(* is not past its stale check, for the mover holds vost.lock.             *)
LEMMA Bystander ==
    ASSUME RetryInv, CommitsGrow, ncalls <= ncalls', ncalls' \in Nat, NEW u \in Thread, Still(u),
           u \in Retrier => retry'[u] = retry[u],
           Stays \/ \E t \in Retrier : Bumps(t)
    PROVE  ThreadOK(u)' /\ (u \in Retrier => LoopOK(u)')
<1>1. /\ ncalls \in Nat /\ Len(commits) \in Nat
      /\ fs[u].commit \in 0 .. Len(commits) /\ target[u] \in 0 .. Len(commits)
  BY DEF RetryInv, TypeOK
<1>2. /\ ValueIn(commits', fs[u].commit) = ValueIn(commits, fs[u].commit)
      /\ ValueIn(commits', target[u]) = ValueIn(commits, target[u])
  BY <1>1, KeepsValue DEF RetryInv
<1>3. ValueIn(commits, fs[u].commit) \in 0 .. ncalls
  BY <1>1, CountedValue DEF RetryInv
<1>4. Len(reflog[InitBranch]) \in Nat
  BY NameAssumption DEF RetryInv, TypeOK, Ref
<1>5. u \in Retrier => retry[u].since \in Nat /\ retry[u].attempt \in Nat
  BY DEF RetryInv, Loop
<1>6. CASE Stays
  <2>1. ThreadOK(u) => ThreadOK(u)'
    BY <1>1, <1>2, <1>3, <1>6 DEF Still, Stays, ThreadOK, IncrementOK
  <2>2. u \in Retrier /\ LoopOK(u) => LoopOK(u)'
    BY <1>6 DEF Still, Stays, LoopOK, Overtaken
  <2>3. QED
    BY <2>1, <2>2 DEF RetryInv
<1>7. ASSUME NEW t \in Retrier, Bumps(t) PROVE ThreadOK(u)' /\ (u \in Retrier => LoopOK(u)')
  <2>1. pc[u] \notin LockPc
    <3>1. CASE u = t
      <4>1. /\ pc[u] = "update" /\ fs[u].commit = target[u]
            /\ ValueIn(commits, target[u]) = ValueIn(commits, refs[InitBranch]) + 1
        BY <1>7, <3>1 DEF Bumps, Still
      <4>2. refs[InitBranch] = fs[u].commit
        BY <3>1, <4>1 DEF RetryInv, ThreadOK, IncrementOK, MovingPc, CheckedPc
      <4>3. QED
        BY <1>1, <1>3, <4>1, <4>2
    <3>2. CASE u # t
      BY <1>7, <3>2, RetryAssumption DEF Bumps, RetryInv, LockOwnership, LockPc
    <3>3. QED
      BY <3>1, <3>2
  <2>2. pc[u] \notin CheckedPc
    BY <2>1 DEF LockPc, CheckedPc
  <2>3. ThreadOK(u) => ThreadOK(u)'
    BY <1>1, <1>2, <1>3, <2>2 DEF Still, ThreadOK, IncrementOK, CheckedPc
  <2>4. u \in Retrier /\ LoopOK(u) => LoopOK(u)'
    <3> SUFFICES ASSUME u \in Retrier, LoopOK(u) PROVE LoopOK(u)'
      OBVIOUS
    <3> DEFINE seen == retry[u].since + retry[u].attempt
    <3>1. retry[u].phase # "none" =>
             Len(reflog'[InitBranch]) >= seen /\ Len(reflog'[InitBranch]) >= seen + 1
      BY <1>4, <1>5, <1>7 DEF Bumps, LoopOK
    <3>2. QED
      BY <3>1 DEF Still, LoopOK
  <2>5. QED
    BY <2>3, <2>4 DEF RetryInv
<1>8. QED
  BY <1>6, <1>7

(* A thread that does not retry stays off the branch.                      *)
LEMMA OthersStep ==
    ASSUME RetryInv, NEW t \in Thread, t \notin Retrier, Others(t) \/ Proceed(t) \/ GitFailure(t)
    PROVE  ThreadOK(t)'
<1>1. fs[t].ref # InitBranch /\ (pc[t] \in MovingPc => call[t].op # "commit")
  BY DEF RetryInv, ThreadOK
<1>2. /\ fs \in [Thread -> Snapshot] /\ call \in [Thread -> Call]
      /\ pc \in [Thread -> {"idle", "flock"} \cup LockPc \cup MutexPc]
  BY DEF RetryInv, TypeOK
<1>3. ASSUME pc'[t] \in {"idle", "unlock"}, fs'[t].ref # InitBranch PROVE ThreadOK(t)'
  BY <1>3 DEF ThreadOK, MovingPc, CheckedPc
<1>4. ASSUME fs' = fs, \E r : Return(t, r) \/ Leave(t, r) PROVE ThreadOK(t)'
  BY <1>1, <1>2, <1>3, <1>4 DEF Return, Leave
<1>5. NoRef # InitBranch
  BY NameAssumption DEF Ref
<1>6. ASSUME NEW c, FsOfHash(t, c) PROVE ThreadOK(t)'
  BY <1>2, <1>3, <1>5, <1>6 DEF FsOfHash, Return
<1>7. ASSUME NEW r \in Ref \ {InitBranch}, RefDictGet(t, r) PROVE ThreadOK(t)'
  BY <1>1, <1>2, <1>3, <1>7 DEF RefDictGet, Return
<1>8. ASSUME NEW r \in Ref \ {InitBranch}, RefDictSet(t, r) \/ RefDictDel(t, r) PROVE ThreadOK(t)'
  <2>1. \/ \E x : Return(t, x)
        \/ pc'[t] \in {"set", "del"} /\ call'[t].ref = r
    BY <1>2, <1>8 DEF RefDictSet, RefDictDel, Goto, MakeCall
  <2>2. fs' = fs
    BY <1>8 DEF RefDictSet, RefDictDel
  <2>3. CASE \E x : Return(t, x)
    BY <1>4, <2>2, <2>3
  <2>4. CASE pc'[t] \in {"set", "del"} /\ call'[t].ref = r
    BY <1>1, <1>8, <2>2, <2>4 DEF ThreadOK, MovingPc, CheckedPc
  <2>5. QED
    BY <2>1, <2>3, <2>4
<1>9. ASSUME Undo(t, 1) PROVE ThreadOK(t)'
  <2>1. fs' = fs
    BY <1>9 DEF Undo
  <2>2. \/ Return(t, "NotFound")
        \/ /\ Goto(t, "flock")
           /\ call' = [call EXCEPT ![t] = MakeCall("undo", fs[t].ref, EmptyTree, "undo:", <<>>)]
    BY <1>9, Zenon DEF Undo
  <2>3. CASE Return(t, "NotFound")
    BY <1>4, <2>1, <2>3
  <2>4. CASE pc'[t] = "flock" /\ call'[t].op = "undo"
    BY <1>1, <2>1, <2>4 DEF ThreadOK, MovingPc, CheckedPc
  <2>5. QED
    BY <1>2, <2>2, <2>3, <2>4 DEF Goto, MakeCall
<1>10. ASSUME fs' = fs, call' = call, pc[t] \in MovingPc, pc'[t] \in MovingPc PROVE ThreadOK(t)'
  BY <1>1, <1>10 DEF ThreadOK, MovingPc, CheckedPc
<1>11. CASE Proceed(t)
  <2>1. CASE AcquireRepoLock(t)
    BY <1>2, <1>10, <2>1 DEF AcquireRepoLock, Goto, MovingPc
  <2>2. CASE ReleaseRepoLock(t)
    BY <1>1, <1>2, <1>3, <2>2 DEF ReleaseRepoLock, Goto
  <2>3. CASE TimeOutRepoLock(t) \/ RefDictCreate(t) \/ RefDictDelete(t)
    BY <1>4, <2>3 DEF TimeOutRepoLock, RefDictCreate, RefDictDelete
  <2>4. CASE StaleCheck(t)
    BY <1>2, <1>4, <1>10, <2>4 DEF StaleCheck, Goto, MovingPc, CheckedPc
  <2>5. CASE BuildCommit(t)
    BY <1>2, <1>10, <2>5 DEF BuildCommit, Goto, MovingPc, CheckedPc
  <2>6. CASE LookupRef(t)
    BY <1>2, <1>4, <1>10, <2>6 DEF LookupRef, Goto, MovingPc, CheckedPc
  <2>7. CASE UpdateRef(t)
    <3>1. fs'[t].ref = fs[t].ref
      BY <1>2, <2>7 DEF UpdateRef
    <3>2. QED
      BY <1>1, <1>2, <1>3, <2>7, <3>1 DEF UpdateRef, Leave
  <2>8. QED
    BY <1>11, <2>1, <2>2, <2>3, <2>4, <2>5, <2>6, <2>7 DEF Proceed
<1>12. CASE GitFailure(t)
  BY <1>4, <1>12 DEF GitFailure
<1>13. QED
  BY <1>6, <1>7, <1>8, <1>9, <1>11, <1>12 DEF Others

(* The loop of retry_write itself.                                         *)
LEMMA LoopStep ==
    ASSUME RetryInv, NEW t \in Retrier, BeginRetry(t) \/ RetryStep(t)
    PROVE  /\ retry' \in [Retrier -> Loop] /\ done' \in [Retrier -> Tally]
           /\ \A u \in Retrier \ {t} : retry'[u] = retry[u] /\ done'[u] = done[u]
           /\ ThreadOK(t)' /\ LoopOK(t)'
<1>1. t \in Thread /\ InitBranch \in Ref /\ max_retries \in Nat
  BY RetryAssumption, NameAssumption DEF Ref
<1>2. /\ Len(reflog[InitBranch]) \in Nat /\ ncalls \in Nat
      /\ refs[InitBranch] # None
  BY <1>1 DEF RetryInv, TypeOK, MainOK
<1>3. /\ fs \in [Thread -> Snapshot] /\ call \in [Thread -> Call]
      /\ pc \in [Thread -> {"idle", "flock"} \cup LockPc \cup MutexPc]
      /\ retry \in [Retrier -> Loop] /\ done \in [Retrier -> Tally]
      /\ retry[t] \in Loop /\ done[t] \in Tally
  BY <1>1 DEF RetryInv, TypeOK
<1>4. LoopOK(t) /\ ThreadOK(t)
  BY <1>1 DEF RetryInv
<1>5. ASSUME NEW x \in Loop, retry' = [retry EXCEPT ![t] = x], \/ done' = done
                                                              \/ done' = [done EXCEPT ![t].begun = @ + 1]
                                                              \/ done' = [done EXCEPT ![t].ok = @ + 1]
      PROVE  /\ retry' \in [Retrier -> Loop] /\ done' \in [Retrier -> Tally]
             /\ \A u \in Retrier \ {t} : retry'[u] = retry[u] /\ done'[u] = done[u]
             /\ retry'[t] = x
  BY <1>3, <1>5 DEF Tally
<1>6. NotRetrying \in Loop
  BY DEF NotRetrying, Loop
<1>7. ASSUME pc'[t] = "idle" PROVE ThreadOK(t)'
  BY <1>7 DEF ThreadOK, MovingPc, CheckedPc
<1>8. CASE BeginRetry(t)
  <2> DEFINE x == [phase |-> "get", attempt |-> 0, since |-> Len(reflog[InitBranch])]
  <2>1. x \in Loop /\ retry' = [retry EXCEPT ![t] = x]
    BY <1>2, <1>8 DEF BeginRetry, Loop
  <2>2. retry'[t] = x
    BY <1>5, <1>8, <2>1 DEF BeginRetry
  <2>3. pc'[t] = "idle" /\ reflog' = reflog
    BY <1>8 DEF BeginRetry, vars
  <2>4. LoopOK(t)'
    BY <1>1, <1>2, <2>2, <2>3 DEF LoopOK, Overtaken
  <2>5. QED
    BY <1>5, <1>7, <1>8, <2>1, <2>3, <2>4 DEF BeginRetry
<1>9. CASE GetBranch(t)
  <2> DEFINE x == [retry[t] EXCEPT !.phase = "write"]
  <2>1. x \in Loop /\ retry' = [retry EXCEPT ![t] = x] /\ done' = done
    BY <1>2, <1>3, <1>9 DEF GetBranch, Loop
  <2>2. retry'[t] = x
    BY <1>5, <2>1
  <2>3. /\ pc'[t] = "idle" /\ reflog' = reflog /\ refs' = refs
        /\ fs'[t] = [ref |-> InitBranch, commit |-> refs[InitBranch]]
    BY <1>1, <1>2, <1>3, <1>9 DEF GetBranch, RefDictGet, Return
  <2>4. retry[t].phase # "none"
    BY <1>9 DEF GetBranch
  <2>5. x.phase = "write" /\ x.attempt = retry[t].attempt /\ x.since = retry[t].since
    BY <1>3 DEF Loop
  <2> HIDE DEF x
  <2>6. LoopOK(t)'
    BY <1>4, <2>2, <2>3, <2>4, <2>5 DEF LoopOK, Overtaken
  <2>7. QED
    BY <1>5, <1>7, <2>1, <2>3, <2>6
<1>10. CASE WriteFile(t)
  <2> DEFINE x == [retry[t] EXCEPT !.phase = "call"]
             change == CounterTo(Text[ValueIn(commits, fs[t].commit) + 1])
  <2>1. x \in Loop /\ retry' = [retry EXCEPT ![t] = x] /\ done' = done
    BY <1>3, <1>10 DEF WriteFile, Loop
  <2>2. retry'[t] = x
    BY <1>5, <2>1
  <2>3. x.phase = "call" /\ x.attempt = retry[t].attempt /\ x.since = retry[t].since
    BY <1>3 DEF Loop
  <2>4. retry[t].phase = "write" /\ fs[t].ref = InitBranch
    BY <1>4, <1>10 DEF WriteFile, LoopOK
  <2>5. /\ CommitChanges(t, change, "user", <<>>)
        /\ ValueIn(commits, fs[t].commit) \in 0 .. ncalls
    BY <1>10, IncrementIsChange DEF WriteFile
  <2> HIDE DEF x, change
  <2>6. /\ pc'[t] = "flock" /\ ncalls' = ncalls + 1
        /\ call'[t].op = "commit" /\ call'[t].ref = InitBranch /\ call'[t].change = change
        /\ UNCHANGED <<commits, refs, reflog, fs>>
    BY <1>1, <1>3, <2>4, <2>5 DEF CommitChanges, Start, Goto, MakeCall
  <2>7. ThreadOK(t)'
    BY <1>2, <2>2, <2>3, <2>5, <2>6 DEF ThreadOK, IncrementOK, change, MovingPc, CheckedPc
  <2>8. LoopOK(t)'
    BY <1>4, <2>2, <2>3, <2>4, <2>6 DEF LoopOK, Overtaken
  <2>9. QED
    BY <1>5, <2>1, <2>7, <2>8
<1>11. CASE Returns(t)
  <2>1. /\ pc[t] = "idle" /\ pc'[t] = "idle" /\ retry[t].phase = "call"
        /\ UNCHANGED <<refs, reflog, fs, res>>
    BY <1>11 DEF Returns, vars
  <2>2. CASE EndRetry(t) /\ (done' = done \/ done' = [done EXCEPT ![t].ok = @ + 1])
    <3>1. retry'[t] = NotRetrying
      BY <1>5, <1>6, <2>2 DEF EndRetry
    <3>2. LoopOK(t)'
      BY <2>1, <3>1 DEF LoopOK, NotRetrying
    <3>3. QED
      BY <1>5, <1>6, <1>7, <2>1, <2>2, <3>2 DEF EndRetry
  <2>3. CASE /\ res[t] = "stale" /\ done' = done
             /\ retry' = [retry EXCEPT ![t].phase = "sleep"]
    <3> DEFINE x == [retry[t] EXCEPT !.phase = "sleep"]
    <3>1. x \in Loop /\ retry' = [retry EXCEPT ![t] = x] /\ done' = done
      BY <1>3, <2>3 DEF Loop
    <3>2. retry'[t] = x
      BY <1>5, <3>1
    <3>3. x.phase = "sleep" /\ x.attempt = retry[t].attempt /\ x.since = retry[t].since
      BY <1>3 DEF Loop
    <3> HIDE DEF x
    <3>4. Overtaken(t)
      BY <2>1, <2>3 DEF Overtaken
    <3>5. LoopOK(t)'
      BY <1>4, <2>1, <3>2, <3>3, <3>4 DEF LoopOK
    <3>6. QED
      BY <1>5, <1>7, <2>1, <3>1, <3>5
  <2>4. QED
    BY <1>11, <2>2, <2>3 DEF Returns
<1>12. CASE Wakes(t)
  <2> DEFINE x == [retry[t] EXCEPT !.phase = "get", !.attempt = @ + 1]
  <2>1. x \in Loop /\ retry' = [retry EXCEPT ![t] = x] /\ done' = done
    BY <1>3, <1>12 DEF Wakes, Loop
  <2>2. retry'[t] = x
    BY <1>5, <2>1
  <2>3. x.phase = "get" /\ x.attempt = retry[t].attempt + 1 /\ x.since = retry[t].since
    BY <1>3 DEF Loop
  <2> HIDE DEF x
  <2>4. /\ retry[t].phase = "sleep" /\ pc[t] = "idle" /\ pc'[t] = "idle"
        /\ UNCHANGED <<refs, reflog, fs>>
    BY <1>4, <1>12 DEF Wakes, vars, LoopOK
  <2>5. Overtaken(t)
    BY <2>4 DEF Overtaken
  <2>6. retry[t].since \in Nat /\ retry[t].attempt \in Nat
    BY <1>3 DEF Loop
  <2>7. LoopOK(t)'
    BY <1>1, <1>2, <1>4, <2>2, <2>3, <2>4, <2>5, <2>6 DEF LoopOK, Overtaken
  <2>8. QED
    BY <1>5, <1>7, <2>1, <2>4, <2>7
<1>13. QED
  BY <1>8, <1>9, <1>10, <1>11, <1>12 DEF RetryStep

(* The commit that the function of retry_write makes.                      *)
LEMMA IncrementStep ==
    ASSUME RetryInv, CommitsGrow, ncalls' \in Nat, MainOK', NEW t \in Retrier,
           Proceed(t) \/ GitFailure(t), UNCHANGED <<retry, done>>,
           Stays \/ \E u \in Retrier : Bumps(u)
    PROVE  ThreadOK(t)' /\ LoopOK(t)'
<1>1. t \in Thread /\ InitBranch \in Ref
  BY RetryAssumption, NameAssumption DEF Ref
<1>2. /\ Len(reflog[InitBranch]) \in Nat /\ ncalls \in Nat
      /\ Len(commits) \in Nat
      /\ refs[InitBranch] # None
      /\ fs[t].commit \in 0 .. Len(commits)
  BY <1>1 DEF RetryInv, TypeOK, MainOK
<1>3. /\ fs \in [Thread -> Snapshot] /\ call \in [Thread -> Call]
      /\ pc \in [Thread -> {"idle", "flock"} \cup LockPc \cup MutexPc]
      /\ existing \in [Thread -> 0 .. Len(commits)]
      /\ res \in [Thread -> Result]
      /\ retry[t].since \in Nat /\ retry[t].attempt \in Nat
  BY <1>1 DEF RetryInv, TypeOK, Loop
<1>4. LoopOK(t) /\ ThreadOK(t)
  BY <1>1 DEF RetryInv
<1>5. pc[t] \notin {"idle", "set", "del"} /\ retry[t].phase = "call"
  <2>1. pc[t] # "idle"
    BY DEF Proceed, AcquireRepoLock, TimeOutRepoLock, StaleCheck, BuildCommit, LookupRef,
           UpdateRef, ReleaseRepoLock, RefDictCreate, RefDictDelete, GitFailure, CheckedPc
  <2>2. QED
    BY <1>4, <2>1 DEF LoopOK, ThreadOK
<1>6. fs[t].ref = InitBranch
  BY <1>4, <1>5 DEF LoopOK
<1>7. Len(reflog'[InitBranch]) >= retry[t].since + retry[t].attempt
  <2>1. Len(reflog'[InitBranch]) \in {Len(reflog[InitBranch]), Len(reflog[InitBranch]) + 1}
    BY DEF Stays, Bumps
  <2>2. Len(reflog[InitBranch]) >= retry[t].since + retry[t].attempt
    BY <1>4, <1>5 DEF LoopOK
  <2>3. QED
    BY <1>2, <1>3, <2>1, <2>2, SMTT(20)
<1>8. /\ retry'[t] = retry[t]
      /\ pc[t] \in MovingPc => IncrementOK(t)
  BY <1>4 DEF ThreadOK
(* The call goes on.                                                       *)
<1>9. ASSUME fs' = fs, call' = call, pc'[t] \in {"check", "build", "lookup", "update"},
             IncrementOK(t)', Overtaken(t)' => Overtaken(t), reflog' = reflog
      PROVE  ThreadOK(t)' /\ LoopOK(t)'
  <2>1. ThreadOK(t)'
    BY <1>9 DEF ThreadOK
  <2>2. LoopOK(t)'
    BY <1>4, <1>5, <1>6, <1>8, <1>9 DEF LoopOK
  <2>3. QED
    BY <2>1, <2>2
(* It ends.                                                                *)
<1>10. ASSUME pc'[t] \in {"idle", "unlock"}, fs'[t].ref = InitBranch,
              res'[t] = "stale" => Len(reflog'[InitBranch]) >= retry[t].since + retry[t].attempt + 1
       PROVE  ThreadOK(t)' /\ LoopOK(t)'
  <2>1. ThreadOK(t)'
    BY <1>10 DEF ThreadOK, MovingPc, CheckedPc
  <2>2. LoopOK(t)'
    BY <1>5, <1>7, <1>8, <1>10 DEF LoopOK, Overtaken
  <2>3. QED
    BY <2>1, <2>2
<1>11. CASE AcquireRepoLock(t)
  <2>1. /\ pc[t] = "flock" /\ pc'[t] = "check"
        /\ UNCHANGED <<commits, refs, reflog, fs, call, target, existing, ncalls>>
    BY <1>1, <1>3, <1>11 DEF AcquireRepoLock, Goto
  <2>2. IncrementOK(t)'
    BY <1>8, <2>1 DEF IncrementOK, MovingPc, CheckedPc
  <2>3. Overtaken(t)' => Overtaken(t)
    BY <1>5, <1>8, <2>1 DEF Overtaken
  <2>4. QED
    BY <1>9, <2>1, <2>2, <2>3
<1>12. CASE TimeOutRepoLock(t)
  BY <1>1, <1>3, <1>6, <1>10, <1>12 DEF TimeOutRepoLock, Return
<1>13. CASE StaleCheck(t)
  <2>1. /\ pc[t] = "check" /\ UNCHANGED <<commits, refs, reflog, fs, ncalls>>
        /\ IncrementOK(t)
    BY <1>8, <1>13 DEF StaleCheck, MovingPc
  <2>2. CASE Leave(t, "stale") /\ refs[InitBranch] # fs[t].commit
    <3>1. Overtaken(t)
      BY <1>5, <2>1, <2>2 DEF Overtaken
    <3>2. QED
      BY <1>1, <1>3, <1>4, <1>5, <1>6, <1>10, <2>1, <2>2, <3>1 DEF Leave, LoopOK
  <2>3. CASE /\ refs[InitBranch] = fs[t].commit /\ pc'[t] = "build"
             /\ UNCHANGED <<call, target, existing, res>>
    <3>1. IncrementOK(t)'
      BY <1>8, <2>1, <2>3 DEF IncrementOK, CheckedPc
    <3>2. QED
      BY <1>5, <1>8, <1>9, <2>1, <2>3, <3>1 DEF Overtaken
  <2>4. QED
    BY <1>1, <1>2, <1>3, <1>13, <2>1, <2>2, <2>3 DEF StaleCheck, IncrementOK, Goto
<1>14. CASE BuildCommit(t)
  <2>1. /\ pc[t] = "build" /\ pc'[t] = "lookup"
        /\ UNCHANGED <<refs, reflog, fs, call, ncalls>>
    BY <1>1, <1>3, <1>14 DEF BuildCommit, Goto
  <2>2. IncrementOK(t)
    BY <1>8, <2>1 DEF MovingPc, CheckedPc
  <2>3. ValueIn(commits, fs[t].commit) \in 0 .. ncalls
    BY <1>2, CountedValue DEF RetryInv
  <2>4. ValueIn(commits, fs[t].commit) + 1 \in 0 .. Len(Text)
    BY <1>2, <2>2, <2>3, RetryAssumption, BoundAssumption DEF IncrementOK, RetryInv, TypeOK
  <2>5. ValueIn(commits', target'[t]) = ValueIn(commits, fs[t].commit) + 1
    BY <1>1, <1>14, <2>4, IncrementBuilt, ShownValue
  <2>6. ValueIn(commits', fs[t].commit) = ValueIn(commits, fs[t].commit)
    BY <1>2, KeepsValue DEF RetryInv
  <2>7. IncrementOK(t)'
    BY <1>8, <2>1, <2>2, <2>5, <2>6 DEF IncrementOK, CheckedPc
  <2>8. QED
    BY <1>5, <1>8, <1>9, <2>1, <2>7 DEF Overtaken
<1>15. CASE LookupRef(t)
  <2>1. pc[t] = "lookup" /\ UNCHANGED <<commits, refs, reflog, fs, ncalls>>
    BY <1>15 DEF LookupRef
  <2>2. IncrementOK(t) /\ refs[InitBranch] = fs[t].commit
    BY <1>8, <2>1 DEF MovingPc, CheckedPc, IncrementOK
  <2>3. /\ existing'[t] = refs[InitBranch] /\ pc'[t] = "update"
        /\ UNCHANGED <<call, target>>
    BY <1>1, <1>2, <1>3, <1>15, <2>2 DEF LookupRef, Goto, IncrementOK
  <2>4. IncrementOK(t)'
    BY <1>8, <2>1, <2>2, <2>3 DEF IncrementOK, CheckedPc
  <2>5. QED
    BY <1>5, <1>8, <1>9, <2>1, <2>3, <2>4 DEF Overtaken
<1>16. CASE UpdateRef(t)
  <2>1. pc'[t] = "unlock" /\ res'[t] \in {"ok", "GitError"} /\ fs'[t].ref = InitBranch
    BY <1>1, <1>3, <1>6, <1>16 DEF UpdateRef, Leave
  <2>2. QED
    BY <1>10, <2>1
<1>17. CASE ReleaseRepoLock(t)
  <2>1. /\ pc[t] = "unlock" /\ pc'[t] = "idle"
        /\ UNCHANGED <<reflog, fs, res>>
    BY <1>1, <1>3, <1>17 DEF ReleaseRepoLock, Goto
  <2>2. res[t] = "stale" => Overtaken(t)
    BY <1>5, <2>1 DEF Overtaken
  <2>3. QED
    BY <1>4, <1>5, <1>6, <1>10, <2>1, <2>2 DEF LoopOK
<1>18. CASE GitFailure(t)
  BY <1>1, <1>3, <1>6, <1>10, <1>18 DEF GitFailure, Leave
<1>19. QED
  BY <1>5, <1>11, <1>12, <1>13, <1>14, <1>15, <1>16, <1>17, <1>18
  DEF Proceed, RefDictCreate, RefDictDelete

-----------------------------------------------------------------------------
(* The theorems.                                                           *)

(* Before anybody counts, the branch shows nothing and has moved once.     *)
LEMMA InitRetryInv == RetryInit => RetryInv
<1> SUFFICES ASSUME RetryInit PROVE RetryInv
  OBVIOUS
<1>1. Init /\ InitBranch \in Ref /\ Counter \in Path /\ NoRef # InitBranch
  BY NameAssumption, RetryAssumption DEF RetryInit, Ref
<1>2. TypeOK /\ CallOK /\ LockOwnership
  <2>1. CallOK
    BY <1>1 DEF Init, CallOK, CheckedPc
  <2>2. QED
    BY <1>1, <2>1, InitTypeOK, InitLockOwnership
<1>3. NotRetrying \in Loop /\ [begun |-> 0, ok |-> 0] \in Tally
  BY DEF NotRetrying, Loop, Tally
<1>4. commits = <<[parents |-> <<>>, tree |-> EmptyTree, msg |-> "user"]>> /\ refs[InitBranch] = 1
  BY <1>1 DEF Init
<1>5. CommitId = {1} /\ commits[1].tree = EmptyTree
  BY <1>4 DEF CommitId
<1>6. Shows(commits, 1, 0)
  BY <1>1, <1>5 DEF Shows, TextIn, EmptyTree, None
<1>7. CountsOK
  BY <1>1, <1>5, <1>6 DEF CountsOK, Init
<1>8. MainOK
  <2>1. ValueIn(commits, 1) = 0
    BY <1>6 DEF Shows, ValueIn
  <2>2. Len(reflog[InitBranch]) = 1
    BY <1>1 DEF Init
  <2>3. QED
    BY <1>4, <2>1, <2>2 DEF MainOK, None
<1>9. \A t \in Thread : ThreadOK(t)
  BY <1>1 DEF Init, ThreadOK, MovingPc, CheckedPc, NoFs
<1>10. \A t \in Retrier : LoopOK(t)
  BY <1>1, RetryAssumption DEF RetryInit, Init, LoopOK, NotRetrying
<1>11. QED
  BY <1>2, <1>3, <1>7, <1>8, <1>9, <1>10 DEF RetryInv, RetryInit

(* Every step of a loop, of another thread and of the store keeps it.      *)
LEMMA NextRetryInv == RetryInv /\ [RetryNext]_retryVars => RetryInv'
<1> SUFFICES ASSUME RetryInv, [RetryNext]_retryVars PROVE RetryInv'
  OBVIOUS
<1>1. [Next]_vars
  BY StoreStep
<1>2. (TypeOK /\ CallOK /\ LockOwnership)'
  BY <1>1, NextTypeOK, NextCallOK, NextLockOwnership DEF RetryInv
<1>3. CommitsGrow /\ ncalls <= ncalls' /\ CountsOK' /\ MainOK' /\ ncalls' \in Nat
  BY <1>2, CountsKept DEF TypeOK
<1>4. Stays \/ \E t \in Retrier : Bumps(t)
  BY <1>1, MainSteps
<1>5. Retrier \subseteq Thread
  BY RetryAssumption
<1>6. SUFFICES /\ retry' \in [Retrier -> Loop] /\ done' \in [Retrier -> Tally]
               /\ \A u \in Thread : ThreadOK(u)' /\ (u \in Retrier => LoopOK(u)')
  BY <1>2, <1>3, <1>5 DEF RetryInv
<1>7. ASSUME NEW u \in Thread, Still(u), u \in Retrier => retry'[u] = retry[u]
      PROVE  ThreadOK(u)' /\ (u \in Retrier => LoopOK(u)')
  BY <1>3, <1>4, <1>7, Bystander
<1>8. retry \in [Retrier -> Loop] /\ done \in [Retrier -> Tally]
  BY DEF RetryInv
<1>9. CASE UNCHANGED retryVars
  <2>1. \A u \in Thread : Still(u)
    BY <1>9 DEF retryVars, vars, Still
  <2>2. retry' = retry /\ done' = done
    BY <1>9 DEF retryVars
  <2>3. QED
    BY <1>7, <1>8, <2>1, <2>2
<1>10. ASSUME NEW t \in Retrier, BeginRetry(t) \/ RetryStep(t)
       PROVE  /\ retry' \in [Retrier -> Loop] /\ done' \in [Retrier -> Tally]
              /\ \A u \in Thread : ThreadOK(u)' /\ (u \in Retrier => LoopOK(u)')
  <2>1. /\ retry' \in [Retrier -> Loop] /\ done' \in [Retrier -> Tally]
        /\ \A u \in Retrier \ {t} : retry'[u] = retry[u] /\ done'[u] = done[u]
        /\ ThreadOK(t)' /\ LoopOK(t)'
    BY <1>10, LoopStep
  <2>2. Uses(t) \/ UNCHANGED vars
    <3>1. CASE WriteFile(t)
      BY <3>1, IncrementIsChange DEF WriteFile, Uses
    <3>2. CASE GetBranch(t)
      BY <3>2, NameAssumption DEF GetBranch, Uses, Ref
    <3>3. QED
      BY <1>10, <3>1, <3>2 DEF RetryStep, BeginRetry, Returns, Wakes
  <2>3. \A u \in Thread : u # t => Still(u)
    BY <1>5, <2>2, OneActs DEF RetryInv, Still, vars
  <2>4. QED
    BY <1>7, <2>1, <2>3
<1>11. ASSUME NEW t \in Thread, Others(t) \/ Proceed(t) \/ GitFailure(t), UNCHANGED <<retry, done>>,
              ThreadOK(t)' /\ (t \in Retrier => LoopOK(t)')
       PROVE  \A u \in Thread : ThreadOK(u)' /\ (u \in Retrier => LoopOK(u)')
  <2>1. Uses(t)
    BY <1>11 DEF Others, Uses
  <2>2. \A u \in Thread : u # t => Still(u)
    BY <2>1, OneActs DEF RetryInv
  <2>3. QED
    BY <1>7, <1>11, <2>2
<1>12. ASSUME NEW t \in Thread \ Retrier, Others(t)
       PROVE  /\ retry' \in [Retrier -> Loop] /\ done' \in [Retrier -> Tally]
              /\ \A u \in Thread : ThreadOK(u)' /\ (u \in Retrier => LoopOK(u)')
  <2>1. ThreadOK(t)' /\ UNCHANGED <<retry, done>>
    BY <1>12, OthersStep DEF Others
  <2>2. QED
    BY <1>8, <1>11, <1>12, <2>1
<1>13. ASSUME NEW t \in Thread, Proceed(t) \/ GitFailure(t), UNCHANGED <<retry, done>>
       PROVE  /\ retry' \in [Retrier -> Loop] /\ done' \in [Retrier -> Tally]
              /\ \A u \in Thread : ThreadOK(u)' /\ (u \in Retrier => LoopOK(u)')
  <2>1. CASE t \in Retrier
    <3>1. ThreadOK(t)' /\ LoopOK(t)'
      BY <1>3, <1>4, <1>13, <2>1, IncrementStep
    <3>2. QED
      BY <1>8, <1>11, <1>13, <3>1
  <2>2. CASE t \notin Retrier
    <3>1. ThreadOK(t)'
      BY <1>13, <2>2, OthersStep
    <3>2. QED
      BY <1>8, <1>11, <1>13, <2>2, <3>1
  <2>3. QED
    BY <2>1, <2>2
<1>14. ASSUME NEW h \in Handle, RetryCrash(h)
       PROVE  /\ retry' \in [Retrier -> Loop] /\ done' \in [Retrier -> Tally]
              /\ \A u \in Thread : ThreadOK(u)' /\ (u \in Retrier => LoopOK(u)')
  <2>1. NotRetrying \in Loop
    BY DEF NotRetrying, Loop
  <2>2. retry' \in [Retrier -> Loop] /\ done' \in [Retrier -> Tally]
    BY <1>8, <1>14, <2>1 DEF RetryCrash
  <2>3. ASSUME NEW u \in Thread, HandleOf[u] = h
        PROVE  ThreadOK(u)' /\ (u \in Retrier => LoopOK(u)')
    <3>1. /\ pc'[u] = "idle" /\ fs'[u] = NoFs
          /\ u \in Retrier => retry'[u] = NotRetrying
      BY <1>14, <2>3 DEF RetryCrash, Crash
    <3>2. NoRef # InitBranch
      BY NameAssumption DEF Ref
    <3>3. QED
      BY <3>1, <3>2 DEF ThreadOK, LoopOK, NotRetrying, NoFs, MovingPc, CheckedPc
  <2>4. ASSUME NEW u \in Thread, HandleOf[u] # h
        PROVE  ThreadOK(u)' /\ (u \in Retrier => LoopOK(u)')
    <3>1. Still(u) /\ (u \in Retrier => retry'[u] = retry[u])
      BY <1>14, <2>4 DEF RetryCrash, Crash, Still
    <3>2. QED
      BY <1>7, <3>1
  <2>5. QED
    BY <2>2, <2>3, <2>4
<1>15. QED
  BY <1>9, <1>10, <1>12, <1>13, <1>14 DEF RetryNext

(* Whoever acts earns a success only by moving the branch.                 *)
LEMMA ActorCredit ==
    ASSUME RetryInv, NEW t \in Retrier,
           \/ BeginRetry(t) \/ RetryStep(t)
           \/ (Proceed(t) \/ GitFailure(t)) /\ UNCHANGED <<retry, done>>
    PROVE  \/ Credit(t)' <= Credit(t)
           \/ /\ Credit(t)' <= Credit(t) + 1
              /\ Len(reflog'[InitBranch]) = Len(reflog[InitBranch]) + 1
<1>1. t \in Thread /\ InitBranch \in Ref
  BY RetryAssumption, NameAssumption DEF Ref
<1>2. /\ retry \in [Retrier -> Loop] /\ done \in [Retrier -> Tally] /\ done[t].ok \in Nat
      /\ pc \in [Thread -> {"idle", "flock"} \cup LockPc \cup MutexPc]
      /\ res \in [Thread -> Result] /\ refs \in [Ref -> 0 .. Len(commits)]
      /\ reflog \in [Ref -> Seq(LogEntry)]
  BY DEF RetryInv, TypeOK, Tally
<1>3. ASSUME done'[t].ok = done[t].ok, Due(t)' => Due(t) PROVE Credit(t)' <= Credit(t)
  <2>1. (IF Due(t)' THEN 1 ELSE 0) <= (IF Due(t) THEN 1 ELSE 0)
    BY <1>3
  <2>2. QED
    BY <1>2, <1>3, <2>1 DEF Credit
<1>4. ASSUME done'[t].ok = done[t].ok PROVE Credit(t)' <= Credit(t) + 1
  BY <1>2, <1>4 DEF Credit
<1>5. ASSUME retry'[t].phase # "call" PROVE ~Due(t)'
  BY <1>5 DEF Due
<1>6. CASE BeginRetry(t)
  <2>1. retry'[t].phase = "get" /\ done'[t].ok = done[t].ok
    BY <1>2, <1>6 DEF BeginRetry, Tally
  <2>2. QED
    BY <1>3, <1>5, <2>1
<1>7. CASE GetBranch(t)
  <2>1. retry'[t].phase \in {"none", "write"} /\ done' = done
    BY <1>2, <1>7 DEF GetBranch, EndRetry, NotRetrying, Loop
  <2>2. QED
    BY <1>3, <1>5, <2>1
<1>8. CASE WriteFile(t)
  <2>1. pc'[t] = "flock" /\ done' = done
    BY <1>1, <1>2, <1>8 DEF WriteFile, CommitChanges, Goto
  <2>2. QED
    BY <1>3, <2>1 DEF Due
<1>9. CASE Returns(t)
  <2>1. retry'[t].phase \in {"none", "sleep"} /\ pc[t] = "idle" /\ retry[t].phase = "call"
    BY <1>2, <1>9 DEF Returns, EndRetry, NotRetrying, Loop
  <2>2. ~Due(t)'
    BY <2>1 DEF Due
  <2>3. CASE done' = done
    BY <1>3, <2>2, <2>3
  <2>4. CASE res[t] = "ok" /\ done' = [done EXCEPT ![t].ok = @ + 1]
    <3>1. Due(t) /\ done'[t].ok = done[t].ok + 1
      BY <1>2, <2>1, <2>4 DEF Due, Tally
    <3>2. Credit(t) = done[t].ok + 1 /\ Credit(t)' = done[t].ok + 1
      BY <1>2, <2>2, <3>1 DEF Credit
    <3>3. QED
      BY <1>2, <3>2
  <2>5. QED
    BY <1>9, <2>3, <2>4 DEF Returns
<1>10. CASE Wakes(t)
  <2>1. retry'[t].phase = "get" /\ done' = done
    BY <1>2, <1>10 DEF Wakes, Loop
  <2>2. QED
    BY <1>3, <1>5, <2>1
<1>11. CASE (Proceed(t) \/ GitFailure(t)) /\ UNCHANGED <<retry, done>>
  <2>1. CASE AcquireRepoLock(t) \/ TimeOutRepoLock(t) \/ StaleCheck(t) \/ BuildCommit(t)
             \/ LookupRef(t) \/ GitFailure(t)
    <3>1. pc'[t] \notin {"unlock", "idle"} \/ res'[t] # "ok"
      BY <1>1, <1>2, <2>1 DEF AcquireRepoLock, TimeOutRepoLock, StaleCheck, BuildCommit,
                              LookupRef, GitFailure, Goto, Return, Leave
    <3>2. QED
      BY <1>3, <1>11, <3>1 DEF Due
  <2>2. CASE ReleaseRepoLock(t)
    <3>1. pc[t] = "unlock" /\ res' = res
      BY <2>2 DEF ReleaseRepoLock
    <3>2. QED
      BY <1>3, <1>11, <3>1 DEF Due
  <2>3. CASE RefDictCreate(t) \/ RefDictDelete(t)
    <3>1. pc[t] \in {"set", "del"}
      BY <2>3 DEF RefDictCreate, RefDictDelete
    <3>2. QED
      BY <1>1, <3>1 DEF RetryInv, ThreadOK
  <2>4. CASE UpdateRef(t) /\ refs[call[t].ref] # existing[t]
    <3>1. res'[t] = "GitError"
      BY <1>1, <1>2, <2>4 DEF UpdateRef, Leave
    <3>2. QED
      BY <1>3, <1>11, <3>1 DEF Due
  <2>5. CASE UpdateRef(t) /\ refs[call[t].ref] = existing[t]
    <3>1. pc[t] = "update" /\ IncrementOK(t)
      BY <1>1, <2>5 DEF UpdateRef, RetryInv, ThreadOK, MovingPc, CheckedPc
    <3>2. /\ call[t].ref = InitBranch /\ refs[InitBranch] = fs[t].commit
          /\ ValueIn(commits, target[t]) = ValueIn(commits, fs[t].commit) + 1
      BY <3>1 DEF IncrementOK, CheckedPc
    <3>3. ValueIn(commits, fs[t].commit) \in Nat
      <4>1. fs[t].commit \in 0 .. Len(commits) /\ ncalls \in Nat
        BY <1>1 DEF RetryInv, TypeOK
      <4>2. QED
        BY <4>1, CountedValue DEF RetryInv
    <3>4. target[t] # refs[InitBranch]
      BY <3>2, <3>3
    <3>5. Len(reflog'[InitBranch]) = Len(reflog[InitBranch]) + 1
      BY <1>1, <1>2, <2>5, <3>2, <3>4 DEF UpdateRef, WriteRef
    <3>6. QED
      BY <1>4, <1>11, <3>5
  <2>6. QED
    BY <1>11, <2>1, <2>2, <2>3, <2>4, <2>5 DEF Proceed
<1>12. QED
  BY <1>6, <1>7, <1>8, <1>9, <1>10, <1>11 DEF RetryStep

(* Before anybody counts, nobody has anything to report.                   *)
LEMMA InitCreditsOK == RetryInit => CreditsOK
<1> SUFFICES ASSUME RetryInit PROVE CreditsOK
  OBVIOUS
<1>1. Len(reflog[InitBranch]) = 1
  BY NameAssumption DEF RetryInit, Init, Ref
<1>2. \A u \in Retrier : Credit(u) = 0
  <2>1. \A u \in Retrier : done[u].ok = 0 /\ ~Due(u)
    BY DEF RetryInit, NotRetrying, Due
  <2>2. QED
    BY <2>1 DEF Credit
<1>3. \A u \in Retrier : Credits[u].ok = 0
  BY <1>2 DEF Credits
<1> DEFINE f == [u \in Retrier |-> 0]
<1>4. f \in [Retrier -> Nat] /\ \A u \in Retrier : f[u] = Credits[u].ok
  BY <1>3
<1>5. \A u \in Retrier : f[u] = 0
  OBVIOUS
<1> HIDE DEF f
<1>6. PICK sum : IsSum(sum, f, Retrier) /\ Reported(Credits) = sum[Retrier]
  BY <1>4, ReportedIsSum, RetryAssumption
<1>7. sum[Retrier] = 0
  BY <1>4, <1>5, <1>6, SumOfZeros, RetryAssumption
<1>8. QED
  BY <1>1, <1>6, <1>7 DEF CreditsOK

(* Every success that is or will be reported has moved the branch.         *)
LEMMA NextCreditsOK ==
    RetryInv /\ CreditsOK /\ [RetryNext]_retryVars => CreditsOK'
<1> SUFFICES ASSUME RetryInv, CreditsOK, [RetryNext]_retryVars PROVE CreditsOK'
  OBVIOUS
<1> USE DEF RetryInv
<1>1. [Next]_vars /\ RetryInv'
  BY StoreStep, NextRetryInv
<1>2. Stays \/ \E t \in Retrier : Bumps(t)
  BY <1>1, MainSteps
<1>3. Retrier \subseteq Thread /\ InitBranch \in Ref
  BY RetryAssumption, NameAssumption DEF Ref
<1>4. \A u \in Retrier : Credit(u) \in Nat /\ Credit(u)' \in Nat
  <2>1. done \in [Retrier -> Tally] /\ done' \in [Retrier -> Tally]
    BY <1>1
  <2>2. \A u \in Retrier : done[u].ok \in Nat /\ done'[u].ok \in Nat
    BY <2>1 DEF Tally
  <2>3. QED
    BY <2>2 DEF Credit
<1> DEFINE moves == Len(reflog[InitBranch])
           moves1 == Len(reflog'[InitBranch])
<1>5. moves \in Nat /\ moves1 \in {moves, moves + 1}
  <2>1. reflog[InitBranch] \in Seq(LogEntry)
    BY <1>3 DEF TypeOK
  <2>2. moves \in Nat
    BY <2>1
  <2>3. moves1 = moves \/ moves1 = moves + 1
    BY <1>2, Zenon DEF Stays, Bumps
  <2>4. QED
    BY <2>2, <2>3
(* One thread earns at most what the branch gained, the others nothing.    *)
<1>6. ASSUME NEW t, NEW d \in {0, 1}, moves1 >= moves + d,
             \A u \in Retrier : Credit(u)' <= Credit(u) + (IF u = t THEN d ELSE 0)
      PROVE  CreditsOK'
  <2>1. PICK a : a = Credits
    OBVIOUS
  <2>2. PICK b : b = Credits'
    OBVIOUS
  <2>3. \A u \in Retrier : a[u].ok = Credit(u) /\ b[u].ok = Credit(u)'
    BY <2>1, <2>2 DEF Credits
  <2>4. \A u \in Retrier : /\ a[u].ok \in Nat /\ b[u].ok \in Nat
                           /\ b[u].ok <= a[u].ok + (IF u = t THEN d ELSE 0)
    BY <1>4, <1>6, <2>3
  <2>5. /\ Reported(a) \in Nat /\ Reported(b) \in Nat /\ Reported(b) <= Reported(a) + d
    <3>1. d \in Nat
      BY <1>6
    <3>2. QED
      BY <2>4, <3>1, ReportedAtMost, Zenon
  <2>6. Reported(a) <= moves - 1
    BY <2>1 DEF CreditsOK
  <2>7. Reported(b) <= moves1 - 1
    BY <1>5, <1>6, <2>5, <2>6
  <2>8. QED
    BY <2>2, <2>7, Zenon DEF CreditsOK
<1>7. ASSUME NEW u \in Retrier, Still(u), retry'[u] = retry[u], done'[u] = done[u]
      PROVE  Credit(u)' = Credit(u)
  BY <1>7 DEF Credit, Due, Still
<1>8. ASSUME \A u \in Retrier : Credit(u)' <= Credit(u) PROVE CreditsOK'
  <2>1. \A u \in Retrier : Credit(u)' <= Credit(u) + (IF u = 0 THEN 0 ELSE 0)
    BY <1>4, <1>8
  <2>2. moves1 >= moves + 0
    BY <1>5
  <2>3. QED
    BY <1>6, <2>1, <2>2
<1>9. ASSUME NEW t \in Retrier,
             \A u \in Retrier \ {t} : Still(u) /\ retry'[u] = retry[u] /\ done'[u] = done[u],
             \/ BeginRetry(t) \/ RetryStep(t)
             \/ (Proceed(t) \/ GitFailure(t)) /\ UNCHANGED <<retry, done>>
      PROVE  CreditsOK'
  <2>1. \A u \in Retrier : u # t => Credit(u)' <= Credit(u)
    BY <1>4, <1>7, <1>9
  <2>2. CASE Credit(t)' <= Credit(t)
    BY <1>8, <2>1, <2>2
  <2>3. CASE Credit(t)' <= Credit(t) + 1 /\ moves1 = moves + 1
    <3>1. \A u \in Retrier : Credit(u)' <= Credit(u) + (IF u = t THEN 1 ELSE 0)
      BY <1>4, <2>1, <2>3
    <3>2. moves1 >= moves + 1
      BY <1>5, <2>3
    <3>3. QED
      BY <1>6, <3>1, <3>2
  <2>4. QED
    BY <1>9, <2>2, <2>3, ActorCredit
<1>10. CASE UNCHANGED retryVars
  <2>1. \A u \in Retrier : Credit(u)' = Credit(u)
    BY <1>10 DEF retryVars, vars, Credit, Due
  <2>2. QED
    BY <1>4, <1>8, <2>1
<1>11. ASSUME NEW t \in Retrier, BeginRetry(t) \/ RetryStep(t) PROVE CreditsOK'
  <2>1. \A u \in Retrier \ {t} : retry'[u] = retry[u] /\ done'[u] = done[u]
    BY <1>1, <1>11, LoopStep
  <2>2. Uses(t) \/ UNCHANGED vars
    <3>1. CASE WriteFile(t)
      BY <3>1, IncrementIsChange DEF WriteFile, Uses
    <3>2. CASE GetBranch(t)
      BY <3>2, NameAssumption DEF GetBranch, Uses, Ref
    <3>3. QED
      BY <1>11, <3>1, <3>2 DEF RetryStep, BeginRetry, Returns, Wakes
  <2>3. \A u \in Retrier \ {t} : Still(u)
    BY <1>3, <2>2, OneActs DEF Still, vars
  <2>4. QED
    BY <1>9, <1>11, <2>1, <2>3
<1>12. ASSUME NEW t \in Thread, Uses(t), UNCHANGED <<retry, done>>,
              t \in Retrier => Proceed(t) \/ GitFailure(t)
       PROVE  CreditsOK'
  <2>1. \A u \in Retrier : u # t => Still(u)
    BY <1>3, <1>12, OneActs
  <2>2. CASE t \in Retrier
    BY <1>9, <1>12, <2>1, <2>2
  <2>3. CASE t \notin Retrier
    BY <1>4, <1>7, <1>8, <1>12, <2>1, <2>3
  <2>4. QED
    BY <2>2, <2>3
<1>13. ASSUME NEW h \in Handle, RetryCrash(h) PROVE CreditsOK'
  <2>1. ASSUME NEW u \in Retrier PROVE Credit(u)' <= Credit(u)
    <3>1. CASE HandleOf[u] = h
      <4>1. retry'[u] = NotRetrying /\ done' = done
        BY <1>13, <3>1 DEF RetryCrash
      <4>2. ~Due(u)'
        BY <4>1 DEF Due, NotRetrying
      <4>3. done[u].ok \in Nat
        BY DEF Tally
      <4>4. QED
        BY <4>1, <4>2, <4>3 DEF Credit
    <3>2. CASE HandleOf[u] # h
      <4>1. Still(u) /\ retry'[u] = retry[u] /\ done' = done
        BY <1>3, <1>13, <3>2 DEF RetryCrash, Crash, Still
      <4>2. QED
        BY <1>4, <1>7, <4>1
    <3>3. QED
      BY <3>1, <3>2
  <2>2. QED
    BY <1>8, <2>1
<1>14. QED
  <2>1. ASSUME NEW t \in Thread \ Retrier, Others(t) PROVE CreditsOK'
    BY <1>12, <2>1 DEF Others, Uses
  <2>2. ASSUME NEW t \in Thread, Proceed(t) \/ GitFailure(t), UNCHANGED <<retry, done>>
        PROVE  CreditsOK'
    BY <1>12, <2>2 DEF Uses
  <2>3. QED
    BY <1>10, <1>11, <1>13, <2>1, <2>2 DEF RetryNext

(* Of increments under retry_write by functions that read the counter from *)
(* the branch they get, add one and write, none is lost and none counted   *)
(* twice: the counter is the number of commits that have moved the branch, *)
(* and those reported are among them.                                      *)
THEOREM IncrementsCounted == RetrySpec => []NoLostIncrement
<1>1. RetryInv /\ CreditsOK => NoLostIncrement
  <2> SUFFICES ASSUME RetryInv, CreditsOK PROVE NoLostIncrement
    OBVIOUS
  <2>1. InitBranch \in Ref
    BY NameAssumption DEF Ref
  <2>2. refs[InitBranch] \in 0 .. Len(commits) /\ ncalls \in Nat /\ Len(reflog[InitBranch]) \in Nat
    BY <2>1 DEF RetryInv, TypeOK
  <2>3. Value(refs[InitBranch]) \in Nat
    BY <2>2, CountedValue, ValueIsIn DEF RetryInv
  <2>4. Value(refs[InitBranch]) = Len(reflog[InitBranch]) - 1
    BY <2>2, <2>3, ValueIsIn DEF RetryInv, MainOK
  <2>5. \A u \in Retrier : /\ Credits[u].ok \in Nat /\ done[u].ok \in Nat
                           /\ done[u].ok <= Credits[u].ok + (IF u = 0 THEN 0 ELSE 0)
    BY DEF RetryInv, Tally, Credits, Credit
  <2>6. Reported(Credits) \in Nat /\ Reported(done) \in Nat /\ Reported(done) <= Reported(Credits) + 0
    BY <2>5, ReportedAtMost
  <2>7. Value(refs[InitBranch]) >= Reported(done)
    BY <2>2, <2>4, <2>6 DEF CreditsOK
  <2>8. QED
    BY <2>4, <2>7 DEF NoLostIncrement, Reported
<1>2. QED
  BY <1>1, InitRetryInv, NextRetryInv, InitCreditsOK, NextCreditsOK, PTL DEF RetrySpec

(* A retry_write that gives up was overtaken once for every call it made.  *)
THEOREM OvertakenEachTime == RetrySpec => GivesUpOnProgress
<1> DEFINE GivesUp(t) == retry[t].phase = "call" /\ retry'[t].phase = "none" /\ res'[t] = "stale"
           Overdue(t) == Len(reflog[InitBranch]) >= retry[t].since + max_retries + 1
           Fair == \A t \in Retrier : GivesUp(t) => Overdue(t)
<1>1. RetryInv /\ [RetryNext]_retryVars => [Fair]_retryVars
  <2> SUFFICES ASSUME RetryInv, RetryNext, NEW t \in Retrier, GivesUp(t) PROVE Overdue(t)
    OBVIOUS
  <2>1. /\ t \in Thread /\ retry \in [Retrier -> Loop] /\ res \in [Thread -> Result]
        /\ done \in [Retrier -> Tally]
    BY RetryAssumption DEF RetryInv, TypeOK
  <2>2. CASE Returns(t)
    <3>1. /\ res[t] = "stale" /\ pc[t] = "idle" /\ retry[t].attempt >= max_retries
      BY <2>1, <2>2 DEF Returns, vars, Loop
    <3>2. Overtaken(t) /\ LoopOK(t)
      BY <3>1 DEF Overtaken, RetryInv
    <3>3. Len(reflog[InitBranch]) >= retry[t].since + retry[t].attempt + 1
      BY <3>2 DEF LoopOK
    <3>4. retry[t].since \in Nat /\ retry[t].attempt \in Nat /\ Len(reflog[InitBranch]) \in Nat
      BY <2>1, NameAssumption DEF Loop, RetryInv, TypeOK, Ref
    <3>5. QED
      BY <3>1, <3>3, <3>4, RetryAssumption, SMTT(20)
  <2>3. CASE \E h \in Handle : RetryCrash(h)
    <3>1. PICK h \in Handle : RetryCrash(h)
      BY <2>3
    <3>2. HandleOf[t] = h
      BY <2>1, <3>1 DEF RetryCrash
    <3>3. res'[t] = "none"
      BY <2>1, <3>1, <3>2 DEF RetryCrash, Crash
    <3>4. QED
      BY <3>3
  <2>4. ASSUME NEW u \in Retrier, BeginRetry(u) \/ RetryStep(u), u # t PROVE FALSE
    <3>1. retry'[t] = retry[t]
      <4>1. \E x : retry' = [retry EXCEPT ![u] = x]
        BY <2>1, <2>4 DEF BeginRetry, RetryStep, GetBranch, WriteFile, Returns, Wakes, EndRetry
      <4>2. QED
        BY <2>1, <2>4, <4>1
    <3>2. QED
      BY <3>1
  <2>5. ASSUME BeginRetry(t) \/ GetBranch(t) \/ WriteFile(t) \/ Wakes(t) PROVE FALSE
    BY <2>5 DEF BeginRetry, GetBranch, WriteFile, Wakes
  <2>6. ~UNCHANGED retry
    OBVIOUS
  <2>7. QED
    BY <2>2, <2>3, <2>4, <2>5, <2>6 DEF RetryNext, RetryStep, Others, retryVars
<1>2. GivesUpOnProgress <=> [][Fair]_retryVars
  BY DEF GivesUpOnProgress
<1>3. QED
  BY <1>1, <1>2, InitRetryInv, NextRetryInv, PTL DEF RetrySpec
=============================================================================
