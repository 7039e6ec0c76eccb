--------------------------- MODULE VostNotesProofs ---------------------------
(***************************************************************************)
(* What holds of notes.cpp for every number of threads, processes, hashes, *)
(* texts and calls.  Two facts carry the proofs: from taking vost.lock to  *)
(* the update of the reference a thread is alone, and the tree it commits  *)
(* is the one build_note_tree made of the base it read.                    *)
(***************************************************************************)
EXTENDS VostNotes, FiniteSetTheorems, TLAPS

NoteCommit == [parent : Nat, tree : NoteTree, change : Change]

BuiltPc == {"flock", "commit", "update"}
LockedPc == {"commit", "update"}

(* A call between build_note_tree and its end: under vost.lock it is the   *)
(* holder, its tree is what build_note_tree made, and the commit about to  *)
(* become the tip is the tip's child with that tree.                       *)
CallOK(t) ==
    /\ pc[t] \in LockedPc => repo_lock = t
    /\ pc[t] \in BuiltPc =>
          /\ new[t] = BuildNoteTree(OrEmpty(base[t]), change[t])
          /\ new[t] \in NoteTree
    /\ pc[t] = "update" =>
          /\ made[t] \in CommitId
          /\ commits[made[t]] = [parent |-> tip, tree |-> new[t], change |-> change[t]]

NotesInv ==
    /\ TypeOK
    /\ commits \in Seq(NoteCommit)
    /\ \A t \in Thread : CallOK(t)

-----------------------------------------------------------------------------
(* build_note_tree and the empty tree yield note trees.                    *)
LEMMA TreesTyped ==
    /\ EmptyTree \in NoteTree
    /\ NoChange \in Change
    /\ \A tree \in NoteTree, c \in Change : BuildNoteTree(tree, c) \in NoteTree
    /\ \A tree \in NoteTree \cup {NoTree} : OrEmpty(tree) \in NoteTree
<1>1. EmptyTree \in NoteTree
  BY DEF EmptyTree, NoteTree, Layout
<1>2. NoChange \in Change
  <2>1. NoChange \in [{} -> Text \cup {Delete}]
    BY DEF NoChange
  <2>2. QED
    BY <2>1 DEF Change
<1>3. ASSUME NEW tree \in NoteTree, NEW c \in Change
      PROVE  BuildNoteTree(tree, c) \in NoteTree
  <2>1. PICK H \in SUBSET Hash : c \in [H -> Text \cup {Delete}]
    BY DEF Change
  <2>2. tree.flat \in Layout /\ tree.fan \in Layout
    BY DEF NoteTree
  <2>3. \A h \in DOMAIN c : c[h] # Delete => c[h] \in Text
    BY <2>1
  <2>4. QED
    BY <2>2, <2>3 DEF BuildNoteTree, NoteTree, Layout
<1>4. \A tree \in NoteTree \cup {NoTree} : OrEmpty(tree) \in NoteTree
  BY <1>1 DEF OrEmpty
<1>5. QED
  BY <1>1, <1>2, <1>3, <1>4

(* The staged or requested change of one more hash is a change.            *)
LEMMA ChangesTyped ==
    ASSUME NEW h \in Hash, NEW text \in Text \cup {Delete}
    PROVE  /\ [g \in {h} |-> text] \in Change
           /\ \A c \in Change :
                 [g \in DOMAIN c \cup {h} |-> IF g = h THEN text ELSE c[g]] \in Change
<1>1. [g \in {h} |-> text] \in Change
  <2>1. [g \in {h} |-> text] \in [{h} -> Text \cup {Delete}] /\ {h} \in SUBSET Hash
    OBVIOUS
  <2>2. QED
    BY <2>1 DEF Change
<1>2. ASSUME NEW c \in Change
      PROVE  [g \in DOMAIN c \cup {h} |-> IF g = h THEN text ELSE c[g]] \in Change
  <2>1. PICK H \in SUBSET Hash : c \in [H -> Text \cup {Delete}]
    BY DEF Change
  <2>2. /\ [g \in DOMAIN c \cup {h} |-> IF g = h THEN text ELSE c[g]]
              \in [H \cup {h} -> Text \cup {Delete}]
        /\ H \cup {h} \in SUBSET Hash
    BY <2>1
  <2>3. QED
    BY <2>2 DEF Change
<1>3. QED
  BY <1>1, <1>2

(* The invariant holds of a new namespace and of the one git left.         *)
LEMMA InitNotesInv == Init => NotesInv
<1> SUFFICES ASSUME Init PROVE NotesInv
  OBVIOUS
<1> USE TreesTyped, NotesAssumption DEF None
<1>1. CASE FirstTree = NoTree
  <2>1. commits = <<>> /\ Len(commits) = 0 /\ commits \in Seq(NoteCommit)
    BY <1>1 DEF Init
  <2>2. TypeOK
    BY <2>1 DEF Init, TypeOK, CommitId
  <2>3. QED
    BY <2>1, <2>2 DEF Init, NotesInv, CallOK, LockedPc, BuiltPc
<1>2. CASE FirstTree # NoTree
  <2>1. /\ commits = <<[parent |-> 0, tree |-> FirstTree, change |-> NoChange]>>
        /\ Len(commits) = 1
        /\ FirstTree \in NoteTree
    BY <1>2 DEF Init
  <2>2. commits \in Seq(NoteCommit)
    BY <2>1 DEF NoteCommit
  <2>3. TypeOK
    BY <2>1 DEF Init, TypeOK, CommitId
  <2>4. QED
    BY <2>2, <2>3 DEF Init, NotesInv, CallOK, LockedPc, BuiltPc
<1>3. QED
  BY <1>1, <1>2

-----------------------------------------------------------------------------
(* A thread's fields after its call has returned.                          *)
LEMMA ReturnOK ==
    ASSUME TypeOK, NEW t \in Thread, NEW r, Return(t, r)
    PROVE  /\ pc' \in [Thread -> {"idle", "read", "build", "flock", "commit", "update"}]
           /\ change' \in [Thread -> Change]
           /\ base' \in [Thread -> NoteTree \cup {NoTree}]
           /\ new' \in [Thread -> NoteTree \cup {NoTree}]
           /\ made' \in [Thread -> 0 .. Len(commits)]
           /\ pc'[t] = "idle"
           /\ \A u \in Thread \ {t} : /\ pc'[u] = pc[u] /\ change'[u] = change[u]
                                      /\ base'[u] = base[u] /\ new'[u] = new[u]
                                      /\ made'[u] = made[u]
<1>1. /\ change' = [change EXCEPT ![t] = NoChange] /\ NoChange \in Change
      /\ change \in [Thread -> Change]
  BY TreesTyped DEF Return, TypeOK
<1>2. /\ base' = [base EXCEPT ![t] = NoTree] /\ new' = [new EXCEPT ![t] = NoTree]
      /\ base \in [Thread -> NoteTree \cup {NoTree}]
      /\ new \in [Thread -> NoteTree \cup {NoTree}]
  BY DEF Return, TypeOK
<1>3. /\ made' = [made EXCEPT ![t] = 0] /\ made \in [Thread -> 0 .. Len(commits)]
      /\ pc' = [pc EXCEPT ![t] = "idle"] 
      /\ pc \in [Thread -> {"idle", "read", "build", "flock", "commit", "update"}]
      /\ 0 \in 0 .. Len(commits)
  BY DEF Return, TypeOK, None
<1>4. QED
  BY <1>1, <1>2, <1>3

(* What a thread's step does not touch of another thread's call.           *)
LEMMA OtherCalls ==
    ASSUME NotesInv, NEW u \in Thread, tip' = tip, commits' = commits,
           repo_lock' = repo_lock, pc'[u] = pc[u],
           pc[u] \in BuiltPc => /\ change'[u] = change[u] /\ base'[u] = base[u]
                                /\ new'[u] = new[u] /\ made'[u] = made[u]
    PROVE  CallOK(u)'
<1>1. CASE pc[u] \in BuiltPc
  BY <1>1 DEF NotesInv, CallOK, CommitId, LockedPc, BuiltPc
<1>2. CASE pc[u] \notin BuiltPc
  BY <1>2 DEF CallOK, LockedPc, BuiltPc
<1>3. QED
  BY <1>1, <1>2

(* Starting a call, staging and committing a batch.                        *)
LEMMA CallSteps == ASSUME NotesInv, NEW t \in Thread, Calls(t) PROVE NotesInv'
<1>1. ASSUME NEW h \in Hash, NEW text \in Text \cup {Delete}, SetOrDel(t, h, text)
      PROVE  NotesInv'
  <2>1. [g \in {h} |-> text] \in Change
    BY ChangesTyped
  <2>2. TypeOK'
    BY <1>1, <2>1 DEF SetOrDel, Start, Goto, NotesInv, TypeOK, disk, object, CommitId
  <2>3. ASSUME NEW u \in Thread PROVE CallOK(u)'
    <3>1. CASE u = t
      BY <1>1, <3>1 DEF SetOrDel, Goto, CallOK, LockedPc, BuiltPc, NotesInv, TypeOK
    <3>2. CASE u # t
      BY <1>1, <3>2, OtherCalls DEF SetOrDel, Goto, NotesInv, TypeOK, disk
    <3>3. QED
      BY <3>1, <3>2
  <2>4. QED
    BY <1>1, <2>2, <2>3 DEF NotesInv, SetOrDel, disk
<1>2. ASSUME NEW h \in Hash, NEW text \in Text \cup {Delete}, BatchStage(t, h, text)
      PROVE  NotesInv'
  <2> DEFINE c == [g \in DOMAIN staged[t] \cup {h} |-> IF g = h THEN text ELSE staged[t][g]]
  <2>1. c \in Change
    BY ChangesTyped DEF NotesInv, TypeOK
  <2>2. staged' = [staged EXCEPT ![t] = c]
    BY <1>2 DEF BatchStage, NotesInv, TypeOK
  <2> HIDE DEF c
  <2>3. TypeOK'
    BY <1>2, <2>1, <2>2, ZenonT(60) DEF BatchStage, Start, NotesInv, TypeOK, disk, local, CommitId
  <2>4. \A u \in Thread : CallOK(u)'
    BY <1>2, OtherCalls DEF BatchStage, disk, local
  <2>5. QED
    BY <1>2, <2>3, <2>4 DEF NotesInv, BatchStage, disk
<1>3. ASSUME NEW b \in Branch, NEW text \in Text \cup {Delete}, ResolveTarget(t, b, text)
      PROVE  NotesInv'
  BY <1>1, <1>3 DEF ResolveTarget, NotesInv, TypeOK
<1>4. CASE NewBatch(t)
  <2>1. TypeOK'
    BY <1>4, TreesTyped DEF NewBatch, Start, NotesInv, TypeOK, disk, local, CommitId
  <2>2. \A u \in Thread : CallOK(u)'
    BY <1>4, OtherCalls DEF NewBatch, disk, local
  <2>3. QED
    BY <1>4, <2>1, <2>2 DEF NotesInv, NewBatch, disk
<1>5. CASE BatchCommit(t)
  <2>1. TypeOK'
    BY <1>5, ZenonT(60) DEF BatchCommit, Start, Goto, NotesInv, TypeOK, disk, CommitId
  <2>2. ASSUME NEW u \in Thread PROVE CallOK(u)'
    <3>1. CASE u = t
      BY <1>5, <3>1 DEF BatchCommit, Start, Goto, CallOK, LockedPc, BuiltPc, NotesInv, TypeOK
    <3>2. CASE u # t
      BY <1>5, <3>2, OtherCalls DEF BatchCommit, Goto, NotesInv, TypeOK, disk
    <3>3. QED
      BY <3>1, <3>2
  <2>3. QED
    BY <1>5, <2>1, <2>2 DEF NotesInv, BatchCommit, disk
<1>6. QED
  BY <1>1, <1>2, <1>3, <1>4, <1>5 DEF Calls

(* The steps from reading the base tree to taking vost.lock.               *)
LEMMA TreeSteps ==
    ASSUME NotesInv, NEW t \in Thread,
           ReadBase(t) \/ BuildTree(t) \/ AcquireRepoLock(t) \/ TimeOutRepoLock(t)
    PROVE  NotesInv'
<1>1. CASE ReadBase(t)
  <2>1. TreeAt(tip) \in NoteTree \cup {NoTree}
    BY DEF NotesInv, TypeOK, TreeAt, CommitId, None
  <2>2. TypeOK'
    BY <1>1, <2>1 DEF ReadBase, Goto, NotesInv, TypeOK, disk, object, CommitId
  <2>3. ASSUME NEW u \in Thread PROVE CallOK(u)'
    <3>1. CASE u = t
      BY <1>1, <3>1 DEF ReadBase, Goto, CallOK, LockedPc, BuiltPc, NotesInv, TypeOK
    <3>2. CASE u # t
      BY <1>1, <3>2, OtherCalls DEF ReadBase, Goto, NotesInv, TypeOK, disk
    <3>3. QED
      BY <3>1, <3>2
  <2>4. QED
    BY <1>1, <2>2, <2>3 DEF NotesInv, ReadBase, disk
<1>2. CASE BuildTree(t) /\ CanBuild(OrEmpty(base[t]), change[t])
  <2> DEFINE tree == BuildNoteTree(OrEmpty(base[t]), change[t])
  <2>1. tree \in NoteTree
    BY TreesTyped DEF NotesInv, TypeOK
  <2>2. new' = [new EXCEPT ![t] = tree]
    BY <1>2 DEF BuildTree
  <2>3. tree' = tree
    BY <1>2 DEF BuildTree
  <2> HIDE DEF tree
  <2>4. TypeOK'
    BY <1>2, <2>1, <2>2 DEF BuildTree, Goto, NotesInv, TypeOK, disk, object, CommitId
  <2>5. ASSUME NEW u \in Thread PROVE CallOK(u)'
    <3>1. CASE u = t
      <4>1. new'[t] = tree /\ pc'[t] = "flock" /\ new'[t] \in NoteTree
        BY <1>2, <2>1, <2>2 DEF BuildTree, Goto, NotesInv, TypeOK
      <4>2. QED
        BY <2>3, <3>1, <4>1 DEF CallOK, LockedPc, tree
    <3>2. CASE u # t
      BY <1>2, <2>2, <3>2, OtherCalls DEF BuildTree, Goto, NotesInv, TypeOK, disk
    <3>3. QED
      BY <3>1, <3>2
  <2>6. QED
    BY <1>2, <2>4, <2>5 DEF NotesInv, BuildTree, disk
<1>3. CASE /\ UNCHANGED <<disk, repo_lock, mutex, object>>
           /\ \E r : Return(t, r)
  <2>1. PICK r : Return(t, r)
    BY <1>3
  <2>2. TypeOK'
    BY <1>3, <2>1, ReturnOK DEF NotesInv, TypeOK, disk, object, CommitId
  <2>3. ASSUME NEW u \in Thread PROVE CallOK(u)'
    <3>1. CASE u = t
      BY <2>1, <3>1, ReturnOK DEF NotesInv, CallOK, LockedPc, BuiltPc
    <3>2. CASE u # t
      BY <1>3, <2>1, <3>2, OtherCalls, ReturnOK DEF NotesInv, disk
    <3>3. QED
      BY <3>1, <3>2
  <2>4. QED
    BY <1>3, <2>2, <2>3 DEF NotesInv, disk
<1>4. CASE AcquireRepoLock(t)
  <2>1. TypeOK'
    BY <1>4 DEF AcquireRepoLock, Goto, NotesInv, TypeOK, disk, object, local, CommitId
  <2>2. ASSUME NEW u \in Thread PROVE CallOK(u)'
    <3>1. CASE u = t
      BY <1>4, <3>1 DEF AcquireRepoLock, Goto, CallOK, LockedPc, BuiltPc, NotesInv,
                        TypeOK, disk, local
    <3>2. CASE u # t
      <4>1. pc'[u] = pc[u] /\ pc[u] \notin LockedPc
        BY <1>4, <3>2, NotesAssumption DEF AcquireRepoLock, Goto, CallOK, NotesInv, TypeOK
      <4>2. QED
        BY <1>4, <4>1 DEF AcquireRepoLock, CallOK, LockedPc, BuiltPc, NotesInv, local
    <3>3. QED
      BY <3>1, <3>2
  <2>3. QED
    BY <1>4, <2>1, <2>2 DEF NotesInv, AcquireRepoLock, disk
<1>5. CASE TimeOutRepoLock(t)
  BY <1>3, <1>5 DEF TimeOutRepoLock
<1>6. CASE BuildTree(t) /\ ~CanBuild(OrEmpty(base[t]), change[t])
  BY <1>3, <1>6 DEF BuildTree
<1>7. QED
  BY <1>1, <1>2, <1>4, <1>5, <1>6

(* The steps under vost.lock.                                              *)
LEMMA LockedSteps ==
    ASSUME NotesInv, NEW t \in Thread,
           WriteNoteCommit(t) \/ UpdateNotesRef(t) \/ GitFailure(t)
    PROVE  NotesInv'
<1>1. \A u \in Thread : u # t /\ pc[t] \in LockedPc => pc[u] \notin LockedPc
  BY DEF NotesInv, CallOK
<1>2. CASE WriteNoteCommit(t)
  <2> DEFINE c == [parent |-> tip, tree |-> new[t], change |-> change[t]]
  <2>1. c \in NoteCommit /\ c.parent \in 0 .. Len(commits) /\ c.tree \in NoteTree
        /\ c.change \in Change
    BY <1>2 DEF NotesInv, TypeOK, CallOK, WriteNoteCommit, BuiltPc, NoteCommit
  <2>2. commits' = Append(commits, c) /\ commits \in Seq(NoteCommit)
    BY <1>2 DEF WriteNoteCommit, NotesInv
  <2>3. /\ Len(commits') = Len(commits) + 1 /\ Len(commits) \in Nat
        /\ commits'[Len(commits) + 1] = c
        /\ commits' \in Seq(NoteCommit)
        /\ \A i \in 1 .. Len(commits) : commits'[i] = commits[i]
    <3> HIDE DEF c
    <3> QED
      BY <2>1, <2>2
  <2>4. TypeOK'
    <3>1. ASSUME NEW i \in 1 .. Len(commits')
          PROVE  /\ commits'[i].parent \in 0 .. i - 1
                 /\ commits'[i].tree \in NoteTree
                 /\ commits'[i].change \in Change
      <4>1. CASE i \in 1 .. Len(commits)
        BY <2>3, <4>1 DEF NotesInv, TypeOK, CommitId
      <4>2. CASE i = Len(commits) + 1
        <5> HIDE DEF c
        <5> QED
          BY <2>1, <2>3, <4>2
      <4>3. QED
        BY <2>3, <4>1, <4>2
    <3>2. tip' \in 0 .. Len(commits') /\ made' \in [Thread -> 0 .. Len(commits')]
      BY <1>2, <2>3 DEF WriteNoteCommit, NotesInv, TypeOK
    <3>3. /\ mutex' \in [Handle -> Thread \cup {NoThread}]
          /\ pc' \in [Thread -> {"idle", "read", "build", "flock", "commit", "update"}]
      BY <1>2, NotesAssumption DEF WriteNoteCommit, Goto, NotesInv, TypeOK
    <3>4. QED
      BY <1>2, <3>1, <3>2, <3>3 DEF WriteNoteCommit, NotesInv, TypeOK, CommitId, object
  <2>5. ASSUME NEW u \in Thread PROVE CallOK(u)'
    <3>1. CASE u = t
      <4>1. /\ pc[t] = "commit" /\ repo_lock' = t
            /\ new[t] = BuildNoteTree(OrEmpty(base[t]), change[t]) /\ new[t] \in NoteTree
        BY <1>2 DEF WriteNoteCommit, NotesInv, CallOK, LockedPc, BuiltPc
      <4>2. made'[t] = Len(commits) + 1 /\ made'[t] \in 1 .. Len(commits')
        BY <1>2, <2>3 DEF WriteNoteCommit, NotesInv, TypeOK
      <4>3. commits'[made'[t]] = [parent |-> tip', tree |-> new'[t], change |-> change'[t]]
        BY <1>2, <2>3, <4>2 DEF WriteNoteCommit
      <4>4. QED
        BY <1>2, <3>1, <4>1, <4>2, <4>3 DEF WriteNoteCommit, CallOK, CommitId
    <3>2. CASE u # t
      <4>1. pc'[u] = pc[u] /\ pc[u] \notin LockedPc
        BY <1>1, <1>2, <3>2 DEF WriteNoteCommit, Goto, LockedPc, NotesInv, TypeOK
      <4>2. QED
        BY <1>2, <4>1 DEF WriteNoteCommit, CallOK, LockedPc, BuiltPc, NotesInv
    <3>3. QED
      BY <3>1, <3>2
  <2>6. QED
    BY <2>3, <2>4, <2>5 DEF NotesInv
<1>3. CASE UpdateNotesRef(t) \/ GitFailure(t)
  <2>1. PICK r : Leave(t, r)
    BY <1>3 DEF UpdateNotesRef, GitFailure
  <2>2. pc[t] = "update" /\ tip' \in 0 .. Len(commits')
    BY <1>3, <2>1 DEF UpdateNotesRef, GitFailure, NotesInv, TypeOK, Leave
  <2>3. TypeOK'
    BY <2>1, <2>2, ReturnOK DEF Leave, NotesInv, TypeOK, object, CommitId
  <2>4. ASSUME NEW u \in Thread PROVE CallOK(u)'
    <3>1. CASE u = t
      BY <2>1, <3>1, ReturnOK DEF Leave, NotesInv, CallOK, LockedPc, BuiltPc
    <3>2. CASE u # t
      <4>1. pc'[u] = pc[u] /\ pc[u] \notin LockedPc
        BY <1>1, <2>1, <2>2, <3>2, ReturnOK DEF Leave, LockedPc, NotesInv
      <4>2. QED
        BY <2>1, <3>2, <4>1, ReturnOK DEF Leave, CallOK, LockedPc, BuiltPc, NotesInv
    <3>3. QED
      BY <3>1, <3>2
  <2>5. QED
    BY <2>1, <2>3, <2>4 DEF Leave, NotesInv
<1>4. QED
  BY <1>2, <1>3

(* The invariant is inductive: a crash ends calls, and a branch that moves *)
(* is none of their business.                                              *)
LEMMA NextNotesInv == NotesInv /\ [Next]_vars => NotesInv'
<1> SUFFICES ASSUME NotesInv, [Next]_vars PROVE NotesInv'
  OBVIOUS
<1>1. ASSUME NEW t \in Thread, Calls(t) \/ Proceed(t) \/ GitFailure(t) PROVE NotesInv'
  BY <1>1, CallSteps, TreeSteps, LockedSteps DEF Proceed
<1>2. ASSUME NEW h \in Handle, Crash(h) PROVE NotesInv'
  <2>1. TypeOK'
    <3>1. \A i \in 1 .. Len(commits) : commits'[i] = commits[i]
      BY <1>2 DEF Crash, disk
    <3>2. QED
      BY <1>2, TreesTyped DEF Crash, NotesInv, TypeOK, disk, CommitId, None
  <2>2. ASSUME NEW u \in Thread PROVE CallOK(u)'
    <3>1. CASE HandleOf[u] = h
      BY <1>2, <3>1 DEF Crash, CallOK, LockedPc, BuiltPc
    <3>2. CASE HandleOf[u] # h
      <4>1. /\ pc'[u] = pc[u] /\ change'[u] = change[u] /\ base'[u] = base[u]
            /\ new'[u] = new[u] /\ made'[u] = made[u]
            /\ repo_lock = u => repo_lock' = u
        BY <1>2, <3>2 DEF Crash
      <4>2. QED
        BY <1>2, <4>1 DEF Crash, CallOK, NotesInv, disk, CommitId
    <3>3. QED
      BY <3>1, <3>2
  <2>3. QED
    BY <1>2, <2>1, <2>2 DEF NotesInv, Crash, disk
<1>3. ASSUME NEW b \in Branch, NEW h \in Hash, MoveBranch(b, h) PROVE NotesInv'
  <2>1. TypeOK'
    BY <1>3 DEF MoveBranch, NotesInv, TypeOK, object, local, CommitId
  <2>2. \A u \in Thread : CallOK(u)'
    BY <1>3, OtherCalls DEF MoveBranch, local
  <2>3. QED
    BY <1>3, <2>1, <2>2 DEF NotesInv, MoveBranch
<1>4. CASE UNCHANGED vars
  <2>1. TypeOK'
    BY <1>4 DEF NotesInv, TypeOK, CommitId, vars
  <2>2. \A u \in Thread : CallOK(u)'
    BY <1>4, OtherCalls DEF vars
  <2>3. QED
    BY <1>4, <2>1, <2>2 DEF NotesInv, vars
<1>5. QED
  BY <1>1, <1>2, <1>3, <1>4 DEF Next, Finished

(* The notes reference and what a call is about to move it to always name  *)
(* stored commits, whatever crashes: update_ref never leaves it dangling.  *)
THEOREM NotesTyped == Spec => []TypeOK
<1>1. NotesInv => TypeOK
  BY DEF NotesInv
<1>2. QED
  BY <1>1, InitNotesInv, NextNotesInv, PTL DEF Spec

-----------------------------------------------------------------------------
(* Who moves the reference, who stores a commit, and what a base tree is.  *)
LEMMA NotesMoves ==
    ASSUME NotesInv, [Next]_vars
    PROVE  /\ tip' = tip \/ (commits' = commits /\ \E t \in Thread : UpdateNotesRef(t))
           /\ commits' = commits \/ \E t \in Thread : WriteNoteCommit(t)
           /\ \A u \in Thread : base'[u] \in {base[u], NoTree, TreeAt(tip)}
<1>1. ASSUME NEW t \in Thread, Calls(t)
      PROVE  tip' = tip /\ commits' = commits /\ base' = base
  BY <1>1 DEF Calls, SetOrDel, BatchStage, ResolveTarget, NewBatch, BatchCommit, disk, local
<1>2. ASSUME NEW t \in Thread, ReadBase(t)
      PROVE  /\ tip' = tip /\ commits' = commits
             /\ \A u \in Thread : base'[u] \in {base[u], TreeAt(tip)}
  BY <1>2 DEF ReadBase, disk, NotesInv, TypeOK
<1>3. ASSUME NEW t \in Thread, NEW r, Return(t, r)
      PROVE  \A u \in Thread : base'[u] \in {base[u], NoTree}
  BY <1>3 DEF Return, NotesInv, TypeOK
<1>4. ASSUME NEW t \in Thread, BuildTree(t) \/ TimeOutRepoLock(t)
      PROVE  /\ tip' = tip /\ commits' = commits
             /\ \A u \in Thread : base'[u] \in {base[u], NoTree}
  BY <1>3, <1>4 DEF BuildTree, TimeOutRepoLock, disk
<1>5. ASSUME NEW t \in Thread, AcquireRepoLock(t) \/ WriteNoteCommit(t)
      PROVE  tip' = tip /\ base' = base /\ (commits' = commits \/ WriteNoteCommit(t))
  BY <1>5 DEF AcquireRepoLock, WriteNoteCommit, disk, local
<1>6. ASSUME NEW t \in Thread, UpdateNotesRef(t) \/ GitFailure(t)
      PROVE  /\ commits' = commits /\ (tip' = tip \/ UpdateNotesRef(t))
             /\ \A u \in Thread : base'[u] \in {base[u], NoTree}
  BY <1>3, <1>6 DEF UpdateNotesRef, GitFailure, Leave
<1>7. ASSUME NEW h \in Handle, Crash(h)
      PROVE  /\ tip' = tip /\ commits' = commits
             /\ \A u \in Thread : base'[u] \in {base[u], NoTree}
  BY <1>7 DEF Crash, disk
<1>8. ASSUME NEW b \in Branch, NEW h \in Hash, MoveBranch(b, h)
      PROVE  tip' = tip /\ commits' = commits /\ base' = base
  BY <1>8 DEF MoveBranch, local
<1>9. CASE UNCHANGED vars
  BY <1>9 DEF vars
<1>10. CASE \E t \in Thread : Proceed(t)
  BY <1>2, <1>4, <1>5, <1>6, <1>10 DEF Proceed
<1>11. QED
  BY <1>1, <1>6, <1>7, <1>8, <1>9, <1>10 DEF Next, Finished

(* commit_note_tree moves the notes reference from a commit to a child of  *)
(* it only, however many processes annotate and crash.                     *)
THEOREM NotesHistory == Spec => NotesHistoryGrows
<1>1. NotesInv /\ [Next]_vars => [tip' # tip => commits'[tip'].parent = tip]_vars
  <2> SUFFICES ASSUME NotesInv, [Next]_vars, tip' # tip PROVE commits'[tip'].parent = tip
    OBVIOUS
  <2>1. PICK t \in Thread : UpdateNotesRef(t) /\ commits' = commits
    BY NotesMoves
  <2>2. commits[made[t]].parent = tip
    <3>1. pc[t] = "update"
      BY <2>1 DEF UpdateNotesRef
    <3>2. commits[made[t]] = [parent |-> tip, tree |-> new[t], change |-> change[t]]
      BY <3>1 DEF NotesInv, CallOK
    <3>3. QED
      BY <3>2
  <2>3. QED
    BY <2>1, <2>2 DEF UpdateNotesRef
<1>2. QED
  BY <1>1, InitNotesInv, NextNotesInv, PTL DEF Spec, NotesHistoryGrows

(* A set, del or batch whose base tree is still the tip's when it moves    *)
(* the reference leaves the notes of all other commits as they were.       *)
THEOREM NotesUndisturbed == Spec => OthersKeptUndisturbed
<1> DEFINE Kept(t) ==
             pc[t] = "update" /\ tip' = made[t] /\ base[t] = TreeAt(tip) =>
                \A h \in Hash \ DOMAIN change[t] :
                   FindNote(TreeAt(tip)', h) = FindNote(OrEmpty(base[t]), h)
<1>1. NotesInv /\ [Next]_vars => [\A t \in Thread : Kept(t)]_vars
  <2> SUFFICES ASSUME NotesInv, [Next]_vars, NEW t \in Thread,
                      pc[t] = "update", tip' = made[t],
                      NEW h \in Hash \ DOMAIN change[t]
               PROVE  FindNote(TreeAt(tip)', h) = FindNote(OrEmpty(base[t]), h)
    OBVIOUS
  <2>1. /\ made[t] \in CommitId
        /\ commits[made[t]] = [parent |-> tip, tree |-> new[t], change |-> change[t]]
        /\ new[t] = BuildNoteTree(OrEmpty(base[t]), change[t])
    BY DEF NotesInv, CallOK, BuiltPc
  <2>2. tip' # tip
    BY <2>1 DEF NotesInv, TypeOK, CommitId
  <2>3. commits' = commits
    BY <2>2, NotesMoves
  <2>4. TreeAt(tip)' = BuildNoteTree(OrEmpty(base[t]), change[t])
    BY <2>1, <2>3 DEF TreeAt, CommitId, None
  <2>5. QED
    BY <2>4 DEF BuildNoteTree, FindNote
<1>2. QED
  BY <1>1, InitNotesInv, NextNotesInv, PTL DEF Spec, OthersKeptUndisturbed

-----------------------------------------------------------------------------
(* A tree holds a note in one of the two places.                           *)
OneLayout(tree) == \A h \in Hash : tree.flat[h] = NoText \/ tree.fan[h] = NoText

(* git has not stored a note twice.                                        *)
StoredOnce == FirstTree = NoTree \/ OneLayout(FirstTree)

LayoutsOK ==
    /\ \A i \in CommitId : OneLayout(commits[i].tree)
    /\ \A t \in Thread : base[t] = NoTree \/ OneLayout(base[t])

(* build_note_tree keeps it so, and what it was to change is changed.      *)
LEMMA BuildChanges ==
    ASSUME NEW tree \in NoteTree, NEW c \in Change, OneLayout(tree)
    PROVE  /\ OneLayout(BuildNoteTree(tree, c))
           /\ \A h \in DOMAIN c : FindNote(BuildNoteTree(tree, c), h)
                                    = IF c[h] = Delete THEN NoText ELSE c[h]
<1>1. PICK H \in SUBSET Hash : c \in [H -> Text \cup {Delete}]
  BY DEF Change
<1>2. OneLayout(BuildNoteTree(tree, c))
  BY DEF OneLayout, BuildNoteTree
<1>3. ASSUME NEW h \in DOMAIN c
      PROVE  FindNote(BuildNoteTree(tree, c), h) = IF c[h] = Delete THEN NoText ELSE c[h]
  <2>1. h \in Hash /\ (c[h] # Delete => c[h] # NoText)
    BY <1>1, NotesAssumption
  <2>2. QED
    BY <2>1 DEF OneLayout, BuildNoteTree, FindNote
<1>4. QED
  BY <1>2, <1>3

(* Every commit was made by build_note_tree of a tree with one entry per   *)
(* note, so it has one entry per note itself and contains its change.      *)
LEMMA NextLayoutsOK ==
    ASSUME NotesInv, NotesInv', LayoutsOK, ChangeTakesEffect, [Next]_vars
    PROVE  LayoutsOK' /\ ChangeTakesEffect'
<1>1. OneLayout(EmptyTree)
  BY DEF OneLayout, EmptyTree
<1>2. \A t \in Thread : OneLayout(OrEmpty(base[t]))
  BY <1>1 DEF LayoutsOK, OrEmpty
<1>3. TreeAt(tip) = NoTree \/ OneLayout(TreeAt(tip))
  BY DEF LayoutsOK, TreeAt, NotesInv, TypeOK, CommitId, None
<1>4. \A u \in Thread : base'[u] = NoTree \/ OneLayout(base'[u])
  BY <1>3, NotesMoves DEF LayoutsOK
<1>5. CASE commits' = commits
  BY <1>4, <1>5 DEF LayoutsOK, ChangeTakesEffect, CommitId
<1>6. ASSUME NEW t \in Thread, WriteNoteCommit(t) PROVE LayoutsOK' /\ ChangeTakesEffect'
  <2> DEFINE c == [parent |-> tip, tree |-> new[t], change |-> change[t]]
  <2>1. /\ OneLayout(c.tree)
        /\ \A h \in DOMAIN c.change :
              FindNote(c.tree, h) = IF c.change[h] = Delete THEN NoText ELSE c.change[h]
    <3>1. /\ new[t] = BuildNoteTree(OrEmpty(base[t]), change[t])
          /\ OrEmpty(base[t]) \in NoteTree /\ change[t] \in Change
      BY <1>6, TreesTyped DEF WriteNoteCommit, NotesInv, CallOK, BuiltPc, TypeOK
    <3>2. QED
      BY <1>2, <3>1, BuildChanges
  <2>2. commits' = Append(commits, c) /\ commits \in Seq(NoteCommit)
    BY <1>6 DEF WriteNoteCommit, NotesInv
  <2> HIDE DEF c
  <2>3. /\ Len(commits') = Len(commits) + 1 /\ Len(commits) \in Nat
        /\ commits'[Len(commits) + 1] = c
        /\ \A i \in 1 .. Len(commits) : commits'[i] = commits[i]
    BY <2>2
  <2>4. \A i \in 1 .. Len(commits') : i \in 1 .. Len(commits) \/ i = Len(commits) + 1
    BY <2>3
  <2>5. ASSUME NEW i \in 1 .. Len(commits')
        PROVE  /\ OneLayout(commits'[i].tree)
               /\ \A h \in DOMAIN commits'[i].change :
                     FindNote(commits'[i].tree, h)
                        = IF commits'[i].change[h] = Delete THEN NoText
                          ELSE commits'[i].change[h]
    <3>1. CASE i \in 1 .. Len(commits)
      BY <2>3, <3>1 DEF LayoutsOK, ChangeTakesEffect, CommitId
    <3>2. CASE i = Len(commits) + 1
      BY <2>1, <2>3, <3>2
    <3>3. QED
      BY <2>4, <3>1, <3>2
  <2>6. QED
    BY <1>4, <2>5 DEF LayoutsOK, ChangeTakesEffect, CommitId
<1>7. QED
  BY <1>5, <1>6, NotesMoves

(* The tree git left, if any, is the first commit.                         *)
LEMMA InitLayoutsOK == StoredOnce /\ Init => LayoutsOK /\ ChangeTakesEffect
<1> SUFFICES ASSUME StoredOnce, Init PROVE LayoutsOK /\ ChangeTakesEffect
  OBVIOUS
<1>1. CASE FirstTree = NoTree
  BY <1>1 DEF Init, LayoutsOK, ChangeTakesEffect, CommitId
<1>2. CASE FirstTree # NoTree
  <2>1. commits = <<[parent |-> None, tree |-> FirstTree, change |-> NoChange]>>
    BY <1>2 DEF Init
  <2>2. 1 .. Len(commits) = {1} /\ commits[1].tree = FirstTree
        /\ commits[1].change = NoChange /\ DOMAIN NoChange = {}
    BY <2>1 DEF NoChange
  <2>3. QED
    BY <1>2, <2>2 DEF Init, LayoutsOK, ChangeTakesEffect, CommitId, StoredOnce
<1>3. QED
  BY <1>1, <1>2

(* Every notes commit contains the whole change it was made for, all the   *)
(* writes and deletes of a batch, whether git kept the notes flat or in    *)
(* fanout directories: build_note_tree need not look for a second entry.   *)
THEOREM NotesTakeEffect ==
    ASSUME StoredOnce
    PROVE  Spec => []ChangeTakesEffect
<1>1. Init => LayoutsOK /\ ChangeTakesEffect
  BY InitLayoutsOK
<1>2. NotesInv /\ NotesInv' /\ LayoutsOK /\ ChangeTakesEffect /\ [Next]_vars
        => LayoutsOK' /\ ChangeTakesEffect'
  BY NextLayoutsOK
<1>3. QED
  BY <1>1, <1>2, InitNotesInv, NextNotesInv, PTL DEF Spec

(* No note has two entries, so size() counts each note once: build_note_tree *)
(* drops the fanout entry of the note it writes.                           *)
THEOREM NotesCountedOnce ==
    ASSUME StoredOnce, IsFiniteSet(Hash)
    PROVE  Spec => []OneEntryPerNote
<1>1. Init => LayoutsOK /\ ChangeTakesEffect
  BY InitLayoutsOK
<1>2. NotesInv /\ NotesInv' /\ LayoutsOK /\ ChangeTakesEffect /\ [Next]_vars
        => LayoutsOK' /\ ChangeTakesEffect'
  BY NextLayoutsOK
<1>3. LayoutsOK => OneEntryPerNote
  <2> SUFFICES ASSUME LayoutsOK, NEW i \in CommitId
               PROVE  CountNotes(commits[i].tree)
                        = Cardinality({h \in Hash : FindNote(commits[i].tree, h) # NoText})
    BY DEF OneEntryPerNote
  <2> DEFINE tree == commits[i].tree
             F == {h \in Hash : tree.flat[h] # NoText}
             G == {h \in Hash : tree.fan[h] # NoText}
  <2>1. {h \in Hash : FindNote(tree, h) # NoText} = F \cup G
    BY DEF FindNote
  <2>2. F \cap G = {}
    BY DEF LayoutsOK, OneLayout
  <2>3. CountNotes(tree) = Cardinality(F) + Cardinality(G)
    BY DEF CountNotes
  <2>4. IsFiniteSet(F) /\ IsFiniteSet(G)
    <3>1. F \subseteq Hash /\ G \subseteq Hash
      OBVIOUS
    <3> HIDE DEF F, G
    <3>2. QED
      BY <3>1, FS_Subset
  <2> HIDE DEF F, G, tree
  <2>5. Cardinality(F) \in Nat /\ Cardinality(G) \in Nat
    BY <2>4, FS_CardinalityType
  <2>6. Cardinality(F \cup G) = Cardinality(F) + Cardinality(G) - Cardinality(F \cap G)
    BY <2>4, FS_Union
  <2>7. Cardinality(F \cap G) = 0
    BY <2>2, FS_EmptySet
  <2>8. Cardinality(F \cup G) = Cardinality(F) + Cardinality(G)
    BY <2>5, <2>6, <2>7
  <2>9. QED
    BY <2>1, <2>3, <2>8 DEF tree
<1>4. QED
  BY <1>1, <1>2, <1>3, InitNotesInv, NextNotesInv, PTL DEF Spec

-----------------------------------------------------------------------------
(* Nobody else annotates: from reading it to moving the reference, a       *)
(* call's base tree is the tip's.                                          *)
AloneOK ==
    \A t \in Thread : pc[t] \in {"build"} \cup BuiltPc => base[t] = TreeAt(tip)

(* With one thread, each commit is built on the tree of the tip.           *)
LEMMA NextAloneOK ==
    ASSUME \A t, u \in Thread : t = u,
           NotesInv, NotesInv', AloneOK, OtherNotesKept, [Next]_vars
    PROVE  AloneOK' /\ OtherNotesKept'
<1> DEFINE BasePc == {"build"} \cup BuiltPc
<1>1. ASSUME NEW t \in Thread, NEW r, Return(t, r) PROVE \A u \in Thread : pc'[u] = "idle"
  BY <1>1 DEF Return, NotesInv, TypeOK
<1>2. ASSUME NEW t \in Thread, Calls(t)
      PROVE  /\ tip' = tip /\ base' = base
             /\ \A u \in Thread : pc'[u] = pc[u] \/ pc'[u] = "read"
  BY <1>2, ZenonT(60) DEF Calls, SetOrDel, BatchStage, ResolveTarget, NewBatch, BatchCommit, disk, local,
              Start, Goto, NotesInv, TypeOK
<1>3. ASSUME NEW t \in Thread, ReadBase(t)
      PROVE  tip' = tip /\ \A u \in Thread : base'[u] = TreeAt(tip)
  BY <1>3 DEF ReadBase, disk, NotesInv, TypeOK
<1>4. ASSUME NEW t \in Thread, BuildTree(t) \/ TimeOutRepoLock(t)
      PROVE  \/ \A u \in Thread : pc'[u] = "idle"
             \/ tip' = tip /\ base' = base /\ \A u \in Thread : pc[u] \in BasePc
  BY <1>1, <1>4 DEF BuildTree, TimeOutRepoLock, disk
<1>5. ASSUME NEW t \in Thread, AcquireRepoLock(t) \/ WriteNoteCommit(t)
      PROVE  tip' = tip /\ base' = base /\ \A u \in Thread : pc[u] \in BasePc
  BY <1>5 DEF AcquireRepoLock, WriteNoteCommit, disk, local, BuiltPc
<1>6. ASSUME NEW t \in Thread, UpdateNotesRef(t) \/ GitFailure(t)
      PROVE  \A u \in Thread : pc'[u] = "idle"
  BY <1>1, <1>6 DEF UpdateNotesRef, GitFailure, Leave
<1>7. ASSUME NEW h \in Handle, Crash(h)
      PROVE  tip' = tip /\ \A u \in Thread : pc'[u] = "idle" \/ (pc'[u] = pc[u] /\ base'[u] = base[u])
  BY <1>7 DEF Crash, disk
<1>8. ASSUME NEW b \in Branch, NEW h \in Hash, MoveBranch(b, h)
      PROVE  tip' = tip /\ base' = base /\ pc' = pc
  BY <1>8 DEF MoveBranch, local
<1>9. UNCHANGED vars => tip' = tip /\ base' = base /\ pc' = pc
  BY DEF vars
<1>10. \A u \in Thread :
          pc'[u] \in BasePc => tip' = tip /\ (base'[u] = TreeAt(tip)
                                              \/ (pc[u] \in BasePc /\ base'[u] = base[u]))
  <2>1. CASE \E t \in Thread : Calls(t)
    BY <1>2, <2>1 DEF BuiltPc
  <2>2. CASE \E t \in Thread : Proceed(t) \/ GitFailure(t)
    BY <1>3, <1>4, <1>5, <1>6, <2>2 DEF BuiltPc, Proceed
  <2>3. CASE \E h \in Handle : Crash(h)
    BY <1>7, <2>3 DEF BuiltPc
  <2>4. QED
    BY <1>8, <1>9, <2>1, <2>2, <2>3 DEF Next, Finished, vars
<1> HIDE DEF BasePc
<1>11. CASE commits' = commits
  <2>1. AloneOK'
    BY <1>10, <1>11 DEF AloneOK, BasePc, TreeAt
  <2>2. OtherNotesKept'
    BY <1>11 DEF OtherNotesKept, CommitId, TreeAt
  <2>3. QED
    BY <2>1, <2>2
<1>12. ASSUME NEW t \in Thread, WriteNoteCommit(t) PROVE AloneOK' /\ OtherNotesKept'
  <2> DEFINE c == [parent |-> tip, tree |-> new[t], change |-> change[t]]
  <2>1. /\ base[t] = TreeAt(tip)
        /\ new[t] = BuildNoteTree(OrEmpty(base[t]), change[t])
    BY <1>12 DEF WriteNoteCommit, NotesInv, AloneOK, CallOK, BuiltPc
  <2>2. c.parent = tip /\ \A h \in Hash \ DOMAIN c.change :
             FindNote(c.tree, h) = FindNote(OrEmpty(TreeAt(tip)), h)
    BY <2>1 DEF BuildNoteTree, FindNote
  <2>3. commits' = Append(commits, c) /\ commits \in Seq(NoteCommit)
    BY <1>12 DEF WriteNoteCommit, NotesInv
  <2> HIDE DEF c
  <2>4. /\ Len(commits') = Len(commits) + 1 /\ Len(commits) \in Nat
        /\ commits'[Len(commits) + 1] = c
        /\ \A i \in 1 .. Len(commits) : commits'[i] = commits[i]
    BY <2>3
  <2>5. ASSUME NEW d \in 0 .. Len(commits)
        PROVE  (IF d = None THEN NoTree ELSE commits'[d].tree) = TreeAt(d)
    BY <2>4 DEF TreeAt, None
  <2>6. AloneOK'
    <3>1. tip \in 0 .. Len(commits)
      BY DEF NotesInv, TypeOK
    <3>2. ASSUME NEW u \in Thread, pc'[u] \in BasePc PROVE base'[u] = TreeAt(tip)'
      BY <1>10, <2>5, <3>1, <3>2 DEF AloneOK, BasePc, TreeAt
    <3>3. QED
      BY <3>2 DEF AloneOK, BasePc
  <2>7. ASSUME NEW i \in 1 .. Len(commits')
        PROVE  \/ i = 1 /\ FirstTree # NoTree
               \/ \A h \in Hash \ DOMAIN commits'[i].change :
                     FindNote(commits'[i].tree, h)
                        = FindNote(OrEmpty(IF commits'[i].parent = None THEN NoTree
                                           ELSE commits'[commits'[i].parent].tree), h)
    <3>1. CASE i \in 1 .. Len(commits)
      <4>1. commits'[i] = commits[i] /\ commits[i].parent \in 0 .. Len(commits)
        BY <2>4, <3>1 DEF NotesInv, TypeOK, CommitId
      <4>2. QED
        BY <2>5, <3>1, <4>1 DEF OtherNotesKept, CommitId
    <3>2. CASE i = Len(commits) + 1
      <4>1. commits'[i] = c /\ c.parent = tip /\ tip \in 0 .. Len(commits)
        BY <2>2, <2>4, <3>2 DEF NotesInv, TypeOK
      <4>2. QED
        BY <2>2, <2>5, <4>1
    <3>3. QED
      BY <2>4, <3>1, <3>2
  <2>8. OtherNotesKept'
    BY <2>7 DEF OtherNotesKept, CommitId, TreeAt
  <2>9. QED
    BY <2>6, <2>8
<1>13. QED
  BY <1>11, <1>12, NotesMoves

(* While one thread annotates, no set, del or batch ever touches another   *)
(* note: the note lost in the run lost_note takes two concurrent calls, as *)
(* the base tree is read before vost.lock is taken.                        *)
THEOREM NotesKeptAlone ==
    ASSUME \A t, u \in Thread : t = u
    PROVE  Spec => []OtherNotesKept
<1>1. Init => AloneOK /\ OtherNotesKept
  <2> SUFFICES ASSUME Init PROVE AloneOK /\ OtherNotesKept
    OBVIOUS
  <2>1. AloneOK
    BY DEF Init, AloneOK, BuiltPc
  <2>2. CASE FirstTree = NoTree
    BY <2>1, <2>2 DEF Init, OtherNotesKept, CommitId
  <2>3. CASE FirstTree # NoTree
    <3>1. 1 .. Len(commits) = {1}
      BY <2>3 DEF Init
    <3>2. QED
      BY <2>1, <2>3, <3>1 DEF OtherNotesKept, CommitId
  <2>4. QED
    BY <2>1, <2>2, <2>3
<1>2. NotesInv /\ NotesInv' /\ AloneOK /\ OtherNotesKept /\ [Next]_vars
        => AloneOK' /\ OtherNotesKept'
  BY NextAloneOK
<1>3. QED
  BY <1>1, <1>2, InitNotesInv, NextNotesInv, PTL DEF Spec
=============================================================================
