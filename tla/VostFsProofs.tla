---------------------------- MODULE VostFsProofs -----------------------------
(***************************************************************************)
(* What the write operations do to the files of a snapshot, for trees of   *)
(* any depth, any lists of sources, and batches and writers that stay open *)
(* while others commit.                                                    *)
(***************************************************************************)
EXTENDS VostRead, VostTreeProofs

-----------------------------------------------------------------------------
(* What operations ask commit_changes for.                                 *)

(* Relocated files are files, with names that begin with the target.       *)
LEMMA RelocatedIs ==
    ASSUME IsTree(tree), NEW src \in Path, Lookup(tree, src) # NoEntry,
           NEW target \in Seq(Name), target # Root
    PROVE  IsData(Relocated(src, target)) /\ Root \notin DOMAIN Relocated(src, target)
<1> DEFINE rename(p) == target \o SubSeq(p, Len(src) + 1, Len(p))
           moved == IF Lookup(tree, src) = DirEntry THEN WalkTree(tree, src) ELSE {src}
           origin(q) == CHOOSE p \in moved : rename(p) = q
<1>1. Relocated(src, target) = [q \in {rename(p) : p \in moved} |-> tree[origin(q)]]
  BY DEF Relocated
<1>2. Lookup(tree, src) = tree[src]
  BY LookupIs, DirFacts
<1>3. ASSUME NEW p \in moved PROVE p \in Path /\ tree[p] \in Data
  <2>1. CASE Lookup(tree, src) = DirEntry
    BY <1>3, <2>1 DEF WalkTree, Files
  <2>2. CASE Lookup(tree, src) # DirEntry
    BY <1>2, <1>3, <2>2 DEF IsTree
  <2>3. QED
    BY <2>1, <2>2
<1>4. ASSUME NEW q \in {rename(p) : p \in moved} PROVE tree[origin(q)] \in Data
  <2>1. origin(q) \in moved
    BY <1>4
  <2>2. QED
    BY <1>3, <2>1
<1>5. ASSUME NEW p \in moved PROVE rename(p) # Root
  <2>1. p \in Seq(Name) /\ src \in Seq(Name) /\ Len(src) \in Nat /\ Len(p) \in Nat
    BY <1>3, DirFacts
  <2>2. \A i \in Len(src) + 1 .. Len(p) : p[i] \in Name
    BY <2>1
  <2>3. SubSeq(p, Len(src) + 1, Len(p)) \in Seq(Name)
    BY <2>1, <2>2, SubSeqProperties
  <2>4. QED
    BY <2>3, ConcatSimplifications!concIsEmpty DEF Root
<1> HIDE DEF rename, moved, origin
<1>6. QED
  BY <1>1, <1>4, <1>5 DEF IsData

(* A request that is not refused can be carried out.                       *)
IsRequest(request) ==
    request.error = "none" /\ Fits(request) =>
        /\ IsWrites(request.writes) /\ Root \notin DOMAIN request.writes

(* Removes write nothing.                                                  *)
LEMMA RemoveAsks ==
    ASSUME NEW paths, NEW recursive
    PROVE  /\ IsRequest(RemoveRequest(paths, recursive))
           /\ RemoveRequest(paths, recursive).error = "none" =>
                 /\ RemoveRequest(paths, recursive) = Asks(<<>>, paths)
                 /\ \A i \in DOMAIN paths : Lookup(tree, paths[i]) # NoEntry
<1> DEFINE bad(p) == \/ Lookup(tree, p) = NoEntry
                     \/ Lookup(tree, p) = DirEntry /\ ~recursive
           wrong == {i \in DOMAIN paths : bad(paths[i])}
<1>1. CASE wrong = {}
  <2>1. RemoveRequest(paths, recursive) = Asks(<<>>, paths)
    BY <1>1 DEF RemoveRequest
  <2>2. QED
    BY <1>1, <2>1, NoWriteIs DEF IsRequest, Asks
<1>2. CASE wrong # {}
  <2>1. \E e \in {"NotFound", "IsADirectory"} : RemoveRequest(paths, recursive) = Fails(e)
    BY <1>2 DEF RemoveRequest
  <2>2. QED
    BY <2>1 DEF IsRequest, Fails
<1>3. QED
  BY <1>1, <1>2

(* The parts of a request.                                                 *)
LEMMA AsksFor ==
    ASSUME NEW request, NEW w, NEW r, request = Asks(w, r)
    PROVE  request.error = "none" /\ request.writes = w /\ request.removes = r
BY DEF Asks

(* A rename writes files below the destination.                            *)
LEMMA RenameAsks ==
    ASSUME IsTree(tree), NEW src \in Dirs, NEW dest \in Dirs
    PROVE  /\ IsRequest(RenameRequest(src, dest))
           /\ RenameRequest(src, dest).error = "none" =>
                 /\ RenameRequest(src, dest) = Asks(Relocated(src, dest), <<src>>)
                 /\ src \in Path /\ dest \in Path /\ Lookup(tree, src) # NoEntry
<1>1. CASE src = Root \/ dest = Root \/ Lookup(tree, src) = NoEntry
  <2>1. \E e \in {"InvalidPath", "NotFound"} : RenameRequest(src, dest) = Fails(e)
    BY <1>1 DEF RenameRequest
  <2>2. QED
    BY <2>1 DEF IsRequest, Fails
<1>2. CASE ~(src = Root \/ dest = Root \/ Lookup(tree, src) = NoEntry)
  <2>1. RenameRequest(src, dest) = Asks(Relocated(src, dest), <<src>>)
    BY <1>2 DEF RenameRequest
  <2>2. src \in Path /\ dest \in Path /\ dest \in Seq(Name) /\ dest # Root
    BY <1>2, DirFacts DEF Dirs
  <2>3. IsData(Relocated(src, dest)) /\ Root \notin DOMAIN Relocated(src, dest)
    BY <1>2, <2>2, RelocatedIs
  <2>4. QED
    BY <1>2, <2>1, <2>2, <2>3 DEF IsRequest, Asks, Fits, IsWrites, IsData, Dirs
<1>3. QED
  BY <1>1, <1>2

(* Parts that can be written one after the other.                          *)
LEMMA InTurnData ==
    ASSUME NEW n \in Nat, NEW parts, DOMAIN parts = 1 .. n, \A i \in 1 .. n : IsData(parts[i])
    PROVE  IsData(InTurn(parts))
<1>1. ASSUME NEW q \in DOMAIN InTurn(parts) PROVE InTurn(parts)[q] \in Data
  <2>1. PICK i \in 1 .. n : q \in DOMAIN parts[i] /\ InTurn(parts)[q] = parts[i][q]
    BY InTurnTakes
  <2>2. QED
    BY <2>1 DEF IsData
<1>2. InTurn(parts) = [q \in DOMAIN InTurn(parts) |-> InTurn(parts)[q]]
  BY DEF InTurn
<1>3. QED
  BY <1>1, <1>2 DEF IsData

(* Where Fs::move puts a source.                                           *)
MoveTarget(dest, p) == IF Lookup(tree, dest) = DirEntry THEN dest \o <<Last(p)>> ELSE dest

MovedFiles(sources, dest) ==
    InTurn([i \in DOMAIN sources |-> Relocated(sources[i], MoveTarget(dest, sources[i]))])

(* That is not the root.                                                   *)
LEMMA MoveTargetIs ==
    ASSUME IsTree(tree), NEW dest \in Dirs, NEW p \in Path
    PROVE  MoveTarget(dest, p) \in Seq(Name) /\ MoveTarget(dest, p) # Root
<1>1. dest \in Seq(Name) /\ p \in Seq(Name) /\ Len(p) \in Nat \ {0}
  BY PathsAre, DirFacts, TreeAssumption
<1>2. CASE Lookup(tree, dest) = DirEntry
  <2>1. Last(p) \in Name
    BY <1>1 DEF Last
  <2>2. <<Last(p)>> \in Seq(Name) /\ <<Last(p)>> # <<>>
    BY <2>1
  <2>3. dest \o <<Last(p)>> \in Seq(Name) /\ dest \o <<Last(p)>> # <<>>
    BY <1>1, <2>2, ConcatProperties, ConcatSimplifications!concIsEmpty
  <2>4. QED
    BY <1>2, <2>3 DEF MoveTarget, Root
<1>3. CASE Lookup(tree, dest) # DirEntry
  BY <1>1, <1>3 DEF MoveTarget, Lookup
<1>4. QED
  BY <1>2, <1>3

(* A move writes files below the destination, and removes the sources.     *)
LEMMA MoveAsks ==
    ASSUME IsTree(tree), NEW sources \in Seq(Dirs), NEW dest \in Dirs, NEW recursive
    PROVE  /\ IsRequest(MoveRequest(sources, dest, recursive))
           /\ MoveRequest(sources, dest, recursive).error = "none" =>
                 /\ MoveRequest(sources, dest, recursive)
                       = Asks(MovedFiles(sources, dest), sources)
                 /\ \A i \in DOMAIN sources :
                       sources[i] \in Path /\ Lookup(tree, sources[i]) # NoEntry
<1> DEFINE into == Lookup(tree, dest) = DirEntry
           bad(p) == \/ p = Root
                     \/ Lookup(tree, p) = NoEntry
                     \/ Lookup(tree, p) = DirEntry /\ ~recursive
           wrong == {i \in DOMAIN sources : bad(sources[i])}
           refused == sources = <<>> \/ (Len(sources) > 1 /\ ~into) \/ wrong # {}
<1>1. CASE refused
  <2>1. \E e \in {"InvalidPath", "NotADirectory", "NotFound", "IsADirectory"} :
           MoveRequest(sources, dest, recursive) = Fails(e)
    BY <1>1, Zenon DEF MoveRequest
  <2>2. QED
    BY <2>1 DEF IsRequest, Fails
<1>2. CASE ~refused
  <2>1. MoveRequest(sources, dest, recursive) = Asks(MovedFiles(sources, dest), sources)
    BY <1>2, Zenon DEF MoveRequest, MovedFiles, MoveTarget
  <2>2. PICK n \in Nat : DOMAIN sources = 1 .. n
    OBVIOUS
  <2>3. ASSUME NEW i \in 1 .. n PROVE sources[i] \in Path /\ Lookup(tree, sources[i]) # NoEntry
    BY <1>2, <2>2 DEF Dirs
  <2> DEFINE parts == [i \in DOMAIN sources |->
                         Relocated(sources[i], MoveTarget(dest, sources[i]))]
  <2>4. \A i \in 1 .. n : IsData(parts[i]) /\ Root \notin DOMAIN parts[i]
    BY <2>2, <2>3, RelocatedIs, MoveTargetIs
  <2>5. DOMAIN parts = 1 .. n
    BY <2>2
  <2> HIDE DEF parts
  <2>6. IsData(InTurn(parts)) /\ Root \notin DOMAIN InTurn(parts)
    BY <2>4, <2>5, InTurnData, InTurnIs
  <2>7. MovedFiles(sources, dest) = InTurn(parts)
    BY DEF MovedFiles, parts
  <2>8. QED
    BY <2>1, <2>2, <2>3, <2>6, <2>7 DEF IsRequest, Asks, Fits, IsWrites, IsData, Dirs
<1>3. QED
  BY <1>1, <1>2

(* Where copy_from_ref puts the file p of the other snapshot.              *)
CopyTarget(src, dest, p) ==
    IF Lookup(SourceTree, src.path) = DirEntry
    THEN dest \o (IF src.contents \/ src.path = Root THEN <<>> ELSE <<Last(src.path)>>)
              \o SubSeq(p, Len(src.path) + 1, Len(p))
    ELSE IF Lookup(tree, dest) = DirEntry THEN dest \o <<Last(p)>> ELSE dest

CopiedFiles(sources, dest) == InTurn([i \in DOMAIN sources |-> Copied(sources[i], dest)])

(* What copy_from_ref asks for, when it asks for something.                *)
CopyAsked(sources, dest, delete_extra) ==
    Asks(CopiedFiles(sources, dest),
         SetToSeq(IF delete_extra THEN ExtraFiles(dest, CopiedFiles(sources, dest)) ELSE {}))

(* What is copied are files.                                               *)
LEMMA CopiedIs ==
    ASSUME NEW src, src.path \in Dirs, Lookup(SourceTree, src.path) # NoEntry, NEW dest
    PROVE  IsData(Copied(src, dest))
<1> DEFINE files == IF Lookup(SourceTree, src.path) = DirEntry
                    THEN WalkTree(SourceTree, src.path) ELSE {src.path}
           target(p) == CopyTarget(src, dest, p)
           origin(q) == CHOOSE p \in files : target(p) = q
<1>1. Copied(src, dest) = [q \in {target(p) : p \in files} |-> SourceTree[origin(q)]]
  BY Zenon DEF Copied, CopyTarget
<1>2. IsTree(SourceTree)
  BY ArgAssumption
<1>3. Lookup(SourceTree, src.path) # DirEntry => src.path \in Path /\ SourceTree[src.path] \in Data
  BY <1>2, LookupIs DEF Dirs, IsTree
<1>4. ASSUME NEW p \in files PROVE SourceTree[p] \in Data
  BY <1>3 DEF WalkTree, Files
<1>5. ASSUME NEW q \in {target(p) : p \in files} PROVE SourceTree[origin(q)] \in Data
  <2>1. origin(q) \in files
    BY <1>5
  <2>2. QED
    BY <1>4, <2>1
<1> HIDE DEF files, target, origin
<1>6. QED
  BY <1>1, <1>5 DEF IsData

(* copy_from_ref writes what it copies.                                    *)
LEMMA CopyAsks ==
    ASSUME NEW sources \in Copies, NEW dest, NEW delete_extra, NEW request,
           request = CopyRequest(sources, dest, delete_extra), request.error = "none"
    PROVE  IsData(request.writes) /\ request = CopyAsked(sources, dest, delete_extra)
<1> DEFINE missing == \E src \in ToSet(sources) : Lookup(SourceTree, src.path) = NoEntry
           writes == InTurn([i \in DOMAIN sources |-> Copied(sources[i], dest)])
           removes == IF delete_extra THEN ExtraFiles(dest, writes) ELSE {}
           nothing == DOMAIN writes = {} /\ removes = {}
<1>1. CASE missing \/ nothing
  <2>1. \E e \in {"NotFound", "nothing to do"} : request = Fails(e)
    BY <1>1, Zenon DEF CopyRequest
  <2>2. QED
    BY <2>1 DEF Fails
<1>2. CASE ~(missing \/ nothing)
  <2>1. request = Asks(writes, SetToSeq(removes))
    BY <1>2, Zenon DEF CopyRequest
  <2>2. PICK C : C = [path : Dirs, contents : BOOLEAN]
    OBVIOUS
  <2>3. PICK n \in Nat : DOMAIN sources = 1 .. n /\ \A i \in 1 .. n : sources[i] \in C
    <3>1. sources \in Seq(C)
      BY <2>2, ArgAssumption DEF Dirs
    <3>2. QED
      BY <3>1
  <2>4. ASSUME NEW i \in 1 .. n PROVE IsData(Copied(sources[i], dest))
    <3>1. sources[i].path \in Dirs
      BY <2>2, <2>3
    <3>2. Lookup(SourceTree, sources[i].path) # NoEntry
      BY <1>2, <2>3 DEF ToSet
    <3>3. QED
      BY <3>1, <3>2, CopiedIs
  <2> DEFINE parts == [i \in DOMAIN sources |-> Copied(sources[i], dest)]
  <2>5. DOMAIN parts = 1 .. n /\ \A i \in 1 .. n : IsData(parts[i])
    BY <2>3, <2>4
  <2>6. writes = InTurn(parts)
    OBVIOUS
  <2> HIDE DEF parts
  <2>7. IsData(writes)
    BY <2>5, <2>6, InTurnData
  <2>8. request.writes = writes
    BY <2>1, AsksFor, Zenon
  <2>9. request = CopyAsked(sources, dest, delete_extra)
    BY <2>1, Zenon DEF CopyAsked, CopiedFiles
  <2>10. QED
    BY <2>7, <2>8, <2>9
<1>3. QED
  BY <1>1, <1>2

-----------------------------------------------------------------------------
(* The removes of a batch.                                                 *)

(* Appending adds an element.                                              *)
LEMMA AppendSet ==
    ASSUME NEW S, NEW w \in Seq(S), NEW e \in S
    PROVE  Append(w, e) \in Seq(S) /\ ToSet(Append(w, e)) = ToSet(w) \cup {e}
<1>1. PICK a \in Seq(S) : a = Append(w, e)
  BY AppendProperties
<1>2. Len(a) = Len(w) + 1 /\ a[Len(w) + 1] = e /\ \A i \in 1 .. Len(w) : a[i] = w[i]
  BY <1>1, AppendProperties
<1>3. DOMAIN a = DOMAIN w \cup {Len(w) + 1} /\ DOMAIN w = 1 .. Len(w)
  BY <1>1, <1>2
<1>4. QED
  BY <1>1, <1>2, <1>3 DEF ToSet

(* Erasing leaves the other elements.                                      *)
LEMMA EraseIs ==
    ASSUME NEW S, NEW s \in Seq(S), NEW e
    PROVE  Erase(s, e) \in Seq(S) /\ ToSet(Erase(s, e)) = ToSet(s) \ {e}
<1>1. PICK n \in Nat : n = Len(s)
  OBVIOUS
<1>2. \A i \in 1 .. n : s[i] \in S
  BY <1>1
<1> DEFINE next(i, w) == IF s[i] = e THEN w ELSE Append(w, s[i])
           Solution(f) == f = [i \in 0 .. Len(s) |-> IF i = 0 THEN <<>> ELSE next(i, f[i - 1])]
           prev == [i \in 1 .. n |-> i - 1]
           step == [i \in 1 .. n |-> [w \in Seq(S) |-> next(i, w)]]
<1>3. \A i \in 1 .. n : \A w \in Seq(S) : next(i, w) \in Seq(S)
  BY <1>2
<1> HIDE DEF next
<1>4. /\ prev \in [1 .. n -> Nat] /\ \A i \in 1 .. n : prev[i] < i /\ prev[i] = i - 1
      /\ step \in [1 .. n -> [Seq(S) -> Seq(S)]]
      /\ \A i \in 1 .. n : \A w \in Seq(S) : step[i][w] = next(i, w)
  BY <1>3
<1> HIDE DEF prev, step
<1>5. PICK g : Solves(g, n, Seq(S), <<>>, prev, step)
  <2>1. <<>> \in Seq(S)
    OBVIOUS
  <2>2. QED
    BY <1>4, <2>1, Recursion DEF IsRecursion
<1>6. Solution(g)
  <2>1. g \in [0 .. n -> Seq(S)] /\ g[0] = <<>> /\ \A i \in 1 .. n : g[i] = step[i][g[i - 1]]
    BY <1>4, <1>5 DEF Solves
  <2>2. ASSUME NEW i \in 0 .. n PROVE g[i] = IF i = 0 THEN <<>> ELSE next(i, g[i - 1])
    <3>1. i # 0 => i \in 1 .. n /\ g[i - 1] \in Seq(S)
      BY <2>1
    <3>2. QED
      BY <1>4, <2>1, <3>1
  <2>3. QED
    BY <1>1, <2>1, <2>2
<1>7. PICK f : f = CHOOSE h : Solution(h)
  OBVIOUS
<1>8. Solution(f)
  BY <1>6, <1>7, Zenon
<1>9. Erase(s, e) = f[n]
  BY <1>1, <1>7, Zenon DEF Erase, next
<1>10. f[0] = <<>> /\ \A i \in 1 .. n : f[i] = next(i, f[i - 1])
  BY <1>1, <1>8
<1> DEFINE Upto(i) == {s[j] : j \in 1 .. i}
           T == {i \in 0 .. n : f[i] \in Seq(S) /\ ToSet(f[i]) = Upto(i) \ {e}}
<1>11. 0 \in T
  <2>1. Upto(0) = {} /\ ToSet(<<>>) = {} /\ <<>> \in Seq(S) /\ 0 \in 0 .. n
    BY DEF ToSet
  <2>2. QED
    BY <1>10, <2>1
<1>12. ASSUME NEW i \in 0 .. n, i < n, i \in T PROVE i + 1 \in T
  <2>1. i + 1 \in 1 .. n /\ f[i + 1] = next(i + 1, f[i]) /\ s[i + 1] \in S
    <3>1. i + 1 \in 1 .. n /\ (i + 1) - 1 = i
      BY <1>12
    <3>2. QED
      BY <1>2, <1>10, <3>1
  <2>2. Upto(i + 1) = Upto(i) \cup {s[i + 1]}
    <3>1. \A j : j \in 1 .. i + 1 <=> j \in 1 .. i \/ j = i + 1
      OBVIOUS
    <3>2. QED
      BY <3>1
  <2>3. CASE s[i + 1] = e
    BY <1>12, <2>1, <2>2, <2>3 DEF next
  <2>4. CASE s[i + 1] # e
    <3>1. PICK w \in Seq(S) : w = f[i]
      BY <1>12
    <3>2. f[i + 1] = Append(w, s[i + 1]) /\ f[i + 1] \in Seq(S)
      BY <2>1, <2>4, <3>1 DEF next
    <3>3. ToSet(f[i + 1]) = ToSet(w) \cup {s[i + 1]}
      <4>1. PICK x \in S : x = s[i + 1]
        BY <2>1
      <4>2. ToSet(Append(w, x)) = ToSet(w) \cup {x}
        BY AppendSet
      <4>3. QED
        BY <3>2, <4>1, <4>2
    <3>4. QED
      BY <1>12, <2>1, <2>2, <2>4, <3>1, <3>2, <3>3
  <2>5. QED
    BY <2>3, <2>4
<1> HIDE DEF T
<1>13. n \in T
  <2>1. 0 .. n \subseteq T
    BY <1>11, <1>12, InductionUpTo
  <2>2. QED
    BY <2>1
<1>14. Upto(n) = ToSet(s)
  BY <1>1 DEF ToSet
<1>15. QED
  BY <1>9, <1>13, <1>14 DEF T

-----------------------------------------------------------------------------
(* The inductive invariant.                                                *)

Call == [writes : Writes, removes : Seq(Dirs)]

WriteCall(p, d) == [writes |-> OneWrite(p, d), removes |-> <<>>]

RemoveCall(p) == [writes |-> <<>>, removes |-> <<p>>]

Batches == [closed : BOOLEAN, base : Trees, commit : Nat,
            writes : Writes, removes : Seq(Dirs), calls : Seq(Call)]

Writers == [kind : {"none", "fs", "batch"}, path : Dirs, commit : Nat]

(* Besides types: commits are counted, so that a batch whose snapshot is   *)
(* not stale has the branch's tree.                                        *)
FsInv ==
    /\ tree \in Trees /\ batch \in Batches /\ writer \in Writers
    /\ nops \in 0 .. MaxOps /\ ncommits \in 0 .. nops
    /\ batch.commit <= ncommits /\ writer.commit <= ncommits
    /\ DOMAIN batch.writes \cap ToSet(batch.removes) = {}
    /\ batch.commit = ncommits => batch.base = tree

(* The empty tree and the objects there are at the start.                  *)
LEMMA InitFsInv == Init => FsInv
<1>1. EmptyTree \in Trees
  BY DEF EmptyTree, Trees, IsTree
<1>2. <<>> \in Writes /\ Root \in Dirs
  BY SetsAre, NoWriteIs DEF Dirs
<1>3. NoBatch \in Batches /\ NoWriter \in Writers
  BY <1>1, <1>2 DEF NoBatch, NoWriter, Batches, Writers
<1>4. QED
  BY <1>1, <1>3, ArgAssumption DEF Init, FsInv, NoBatch, NoWriter, ToSet

(* A commit through a snapshot leaves the batch behind.                    *)
LEMMA CommitStep ==
    ASSUME FsInv, NEW request, request.error = "none" => IsData(request.writes), Commit(request)
    PROVE  FsInv'
<1>1. nops' = nops + 1 /\ nops < MaxOps /\ MaxOps \in Nat /\ batch' = batch /\ writer' = writer
  BY ArgAssumption DEF Commit, Start
<1>2. CASE request.error = "none"
  <2>1. request.writes \in Writes
    BY <1>2, SetsAre DEF Commit, Fits, IsWrites, IsData, Dirs
  <2>2. tree' \in Trees /\ ncommits' = ncommits + 1
    BY <1>2, <2>1, RebuildIn DEF Commit, Result, FsInv
  <2>3. batch.commit \in Nat /\ writer.commit \in Nat
    BY DEF FsInv, Batches, Writers
  <2>4. QED
    BY <1>1, <2>2, <2>3 DEF FsInv
<1>3. CASE request.error # "none"
  BY <1>1, <1>3 DEF Commit, Result, FsInv
<1>4. QED
  BY <1>2, <1>3

(* Staging keeps a batch's writes and removes apart.                       *)
LEMMA StagedIs ==
    ASSUME FsInv, NEW p \in Dirs, NEW d \in Data, NEW b, b = Staged(p, d)
    PROVE  /\ b \in Batches /\ b.closed = batch.closed /\ b.commit = batch.commit
           /\ b.base = batch.base
           /\ DOMAIN b.writes = DOMAIN batch.writes \cup {p}
           /\ ToSet(b.removes) = ToSet(batch.removes) \ {p}
           /\ b.writes = Over(OneWrite(p, d), Without(batch.writes, p))
           /\ b.calls = Append(batch.calls, WriteCall(p, d))
<1>1. batch \in Batches
  BY DEF FsInv
<1>2. PICK w \in Writes, r \in Seq(Dirs), c \in Seq(Call) :
         w = batch.writes /\ r = batch.removes /\ c = batch.calls
  BY <1>1 DEF Batches
<1>3. PICK e \in Seq(Dirs) : e = Erase(r, p) /\ ToSet(e) = ToSet(r) \ {p}
  BY EraseIs
<1>4. PICK o : o = Over(OneWrite(p, d), Without(w, p))
  OBVIOUS
<1>5. o \in Writes /\ DOMAIN o = DOMAIN w \cup {p}
  <2>1. DOMAIN o = DOMAIN w \cup {p}
    BY <1>4 DEF Over, OneWrite, Without
  <2>2. IsWrites(w)
    BY SetsAre
  <2>3. IsWrites(o)
    BY <1>4, <2>1, <2>2 DEF Over, OneWrite, Without, IsWrites
  <2>4. QED
    BY <2>1, <2>3, SetsAre
<1>6. PICK a \in Seq(Call) : a = Append(c, WriteCall(p, d))
  <2>1. WriteCall(p, d) \in Call
    BY OneWriteIn DEF Call, WriteCall
  <2>2. QED
    BY <2>1, AppendProperties
<1>7. b = [batch EXCEPT !.removes = e, !.writes = o, !.calls = a]
  BY <1>2, <1>3, <1>4, <1>6, Zenon DEF Staged, WriteCall
<1>8. /\ b \in Batches /\ b.closed = batch.closed /\ b.commit = batch.commit
      /\ b.base = batch.base /\ b.removes = e /\ b.writes = o /\ b.calls = a
  BY <1>1, <1>2, <1>3, <1>5, <1>6, <1>7 DEF Batches
<1>9. QED
  BY <1>2, <1>3, <1>4, <1>5, <1>6, <1>8

(* Removing in a batch does, too.                                          *)
LEMMA BatchRemoveIs ==
    ASSUME FsInv, NEW p \in Dirs, BatchRemove(p)
    PROVE  /\ batch' \in Batches /\ batch'.closed = batch.closed /\ batch'.commit = batch.commit
           /\ batch'.base = batch.base
           /\ DOMAIN batch'.writes = DOMAIN batch.writes \ {p}
           /\ ToSet(batch'.removes) = ToSet(batch.removes) \cup {p}
           /\ batch'.writes = Without(batch.writes, p)
           /\ batch'.calls = Append(batch.calls, RemoveCall(p))
<1>1. batch \in Batches
  BY DEF FsInv
<1>2. PICK w \in Writes, r \in Seq(Dirs), c \in Seq(Call) :
         w = batch.writes /\ r = batch.removes /\ c = batch.calls
  BY <1>1 DEF Batches
<1>3. PICK o : o = Without(w, p)
  OBVIOUS
<1>4. o \in Writes /\ DOMAIN o = DOMAIN w \ {p}
  <2>1. DOMAIN o = DOMAIN w \ {p}
    BY <1>3 DEF Without
  <2>2. IsWrites(w)
    BY SetsAre
  <2>3. IsWrites(o)
    BY <1>3, <2>1, <2>2 DEF Without, IsWrites
  <2>4. QED
    BY <2>1, <2>3, SetsAre
<1>5. PICK e \in Seq(Dirs) : /\ e = IF p \in ToSet(r) THEN r ELSE Append(r, p)
                             /\ ToSet(e) = ToSet(r) \cup {p}
  <2>1. Append(r, p) \in Seq(Dirs) /\ ToSet(Append(r, p)) = ToSet(r) \cup {p}
    BY AppendSet
  <2>2. CASE p \in ToSet(r)
    BY <2>2
  <2>3. CASE p \notin ToSet(r)
    BY <2>1, <2>3
  <2>4. QED
    BY <2>2, <2>3
<1>6. PICK a \in Seq(Call) : a = Append(c, RemoveCall(p))
  <2>1. <<>> \in Writes /\ <<p>> \in Seq(Dirs)
    BY SetsAre, NoWriteIs
  <2>2. RemoveCall(p) \in Call
    BY <2>1 DEF Call, RemoveCall
  <2>3. QED
    BY <2>2, AppendProperties
<1>7. batch' = [batch EXCEPT !.writes = o, !.removes = e, !.calls = a]
  BY <1>2, <1>3, <1>5, <1>6, Zenon DEF BatchRemove, RemoveCall
<1>8. /\ batch' \in Batches /\ batch'.closed = batch.closed /\ batch'.commit = batch.commit
      /\ batch'.base = batch.base
      /\ batch'.removes = e /\ batch'.writes = o /\ batch'.calls = a
  BY <1>1, <1>2, <1>4, <1>5, <1>6, <1>7 DEF Batches
<1>9. QED
  BY <1>2, <1>3, <1>4, <1>5, <1>6, <1>8

(* What a new batch is.                                                    *)
LEMMA NewBatchStep ==
    ASSUME FsInv, NewBatch
    PROVE  FsInv'
<1>1. <<>> \in Writes
  BY SetsAre, NoWriteIs
<1>2. batch' = [closed |-> FALSE, base |-> tree, commit |-> ncommits,
                writes |-> <<>>, removes |-> <<>>, calls |-> <<>>]
  BY DEF NewBatch, NoBatch
<1>3. batch' \in Batches
  BY <1>1, <1>2 DEF Batches, FsInv
<1>4. DOMAIN batch'.writes = {} /\ batch'.commit = ncommits /\ batch'.base = tree
  BY <1>2
<1>5. QED
  BY <1>3, <1>4, ArgAssumption DEF FsInv, NewBatch, Start

(* Every step preserves the invariant.                                     *)
LEMMA NextFsInv ==
    ASSUME FsInv, [Next]_vars
    PROVE  FsInv'
<1>1. CASE UNCHANGED vars
  BY <1>1 DEF vars, FsInv
<1>2. Arg \subseteq Dirs /\ Sources \subseteq Seq(Dirs) /\ MaxOps \in Nat
  BY ArgAssumption DEF Dirs
<1>3. IsTree(tree)
  BY SetsAre DEF FsInv
<1>4. ASSUME NEW p \in Arg, NEW d \in Data, Write(p, d) PROVE FsInv'
  BY <1>4, OneWriteIs, CommitStep DEF Write, Asks
<1>5. ASSUME NEW p \in Arg, NEW r \in Arg, NEW d \in Data, Apply(p, d, r) PROVE FsInv'
  BY <1>5, OneWriteIs, CommitStep DEF Apply, Asks
<1>6. ASSUME NEW src \in Arg, NEW dest \in Arg, Rename(src, dest) PROVE FsInv'
  <2>1. Commit(RenameRequest(src, dest)) /\ IsRequest(RenameRequest(src, dest))
    BY <1>2, <1>3, <1>6, RenameAsks DEF Rename
  <2>2. QED
    BY <2>1, CommitStep DEF IsRequest, IsWrites, IsData, Commit
<1>7. ASSUME NEW s \in Sources, NEW b \in BOOLEAN, RemovePaths(s, b) PROVE FsInv'
  <2>1. Commit(RemoveRequest(s, b)) /\ IsRequest(RemoveRequest(s, b))
    BY <1>7, RemoveAsks DEF RemovePaths
  <2>2. QED
    BY <2>1, CommitStep DEF IsRequest, IsWrites, IsData, Commit
<1>8. ASSUME NEW s \in Sources, NEW dest \in Arg, NEW b \in BOOLEAN, Move(s, dest, b) PROVE FsInv'
  <2>1. Commit(MoveRequest(s, dest, b)) /\ IsRequest(MoveRequest(s, dest, b))
    BY <1>2, <1>3, <1>8, MoveAsks DEF Move
  <2>2. QED
    BY <2>1, CommitStep DEF IsRequest, IsWrites, IsData, Commit
<1>9. ASSUME NEW s \in Copies, NEW dest \in Arg, NEW b \in BOOLEAN, CopyFromRef(s, dest, b)
      PROVE  FsInv'
  <2>1. PICK request : request = CopyRequest(s, dest, b)
    OBVIOUS
  <2>2. Commit(request) /\ (request.error = "none" => IsData(request.writes))
    BY <1>9, <2>1, CopyAsks DEF CopyFromRef
  <2>3. QED
    BY <2>2, CommitStep
<1>10. ASSUME NEW request, DryRun(request) PROVE FsInv'
  BY <1>2, <1>10 DEF DryRun, Start, FsInv
<1>11. CASE NewBatch
  BY <1>11, NewBatchStep
<1>12. ASSUME NEW p \in Arg, NEW d \in Data, BatchWrite(p, d) PROVE FsInv'
  <2>1. PICK b : b = Staged(p, d)
    OBVIOUS
  <2>2. batch' = b
    BY <1>12, <2>1 DEF BatchWrite
  <2>3. /\ b \in Batches /\ b.closed = batch.closed /\ b.commit = batch.commit
        /\ b.base = batch.base
        /\ DOMAIN b.writes = DOMAIN batch.writes \cup {p}
        /\ ToSet(b.removes) = ToSet(batch.removes) \ {p}
    BY <1>2, <2>1, StagedIs
  <2>4. QED
    BY <1>2, <1>12, <2>2, <2>3 DEF FsInv, BatchWrite, Start
<1>13. ASSUME NEW p \in Arg, BatchRemove(p) PROVE FsInv'
  <2>1. /\ batch' \in Batches /\ batch'.closed = batch.closed /\ batch'.commit = batch.commit
        /\ batch'.base = batch.base
        /\ DOMAIN batch'.writes = DOMAIN batch.writes \ {p}
        /\ ToSet(batch'.removes) = ToSet(batch.removes) \cup {p}
    BY <1>2, <1>13, BatchRemoveIs
  <2>2. QED
    BY <1>2, <1>13, <2>1 DEF FsInv, BatchRemove, Start
<1>14. ASSUME NEW kind \in {"fs", "batch"}, NEW p \in Arg, OpenWriter(kind, p) PROVE FsInv'
  <2>1. writer' \in Writers /\ writer'.commit = ncommits
    BY <1>2, <1>14 DEF OpenWriter, Writers, FsInv
  <2>2. QED
    BY <1>2, <1>14, <2>1 DEF FsInv, OpenWriter, Start
<1>15. ASSUME NEW d \in Data, CloseFsWriter(d) PROVE FsInv'
  <2>1. writer' \in Writers /\ writer'.commit = 0
    BY <1>15 DEF CloseFsWriter, NoWriter, Writers, Dirs
  <2>2. writer.path \in Dirs /\ batch.commit \in Nat
    BY DEF FsInv, Writers, Batches
  <2>3. CASE writer.commit = ncommits
    <3>1. tree' \in Trees /\ ncommits' = ncommits + 1
      BY <1>15, <2>2, <2>3, OneWriteIn, RebuildIn DEF CloseFsWriter, FsInv
    <3>2. QED
      BY <1>2, <1>15, <2>1, <2>2, <3>1 DEF FsInv, CloseFsWriter, Start
  <2>4. CASE writer.commit # ncommits
    BY <1>2, <1>15, <2>1, <2>4 DEF FsInv, CloseFsWriter, Start
  <2>5. QED
    BY <2>3, <2>4
<1>16. ASSUME NEW d \in Data, CloseBatchWriter(d) PROVE FsInv'
  <2>1. writer' \in Writers /\ writer'.commit = 0
    BY <1>16 DEF CloseBatchWriter, NoWriter, Writers, Dirs
  <2>2. writer.path \in Dirs
    BY DEF FsInv, Writers
  <2>3. CASE batch.closed
    BY <1>2, <1>16, <2>1, <2>3 DEF FsInv, CloseBatchWriter, Start
  <2>4. CASE ~batch.closed
    <3>1. PICK b : b = Staged(writer.path, d)
      OBVIOUS
    <3>2. batch' = b
      BY <1>16, <2>4, <3>1 DEF CloseBatchWriter
    <3>3. /\ b \in Batches /\ b.closed = batch.closed /\ b.commit = batch.commit
          /\ b.base = batch.base
          /\ DOMAIN b.writes = DOMAIN batch.writes \cup {writer.path}
          /\ ToSet(b.removes) = ToSet(batch.removes) \ {writer.path}
      BY <2>2, <3>1, StagedIs
    <3>4. QED
      BY <1>2, <1>16, <2>1, <3>2, <3>3 DEF FsInv, CloseBatchWriter, Start
  <2>5. QED
    BY <2>3, <2>4
<1>17. CASE BatchCommit
  <2>1. /\ batch' \in Batches /\ batch'.commit = batch.commit /\ batch'.base = batch.base
        /\ batch'.writes = batch.writes /\ batch'.removes = batch.removes
        /\ batch.commit \in Nat
    BY <1>17 DEF BatchCommit, FsInv, Batches
  <2>2. CASE batch.commit = ncommits
    <3>1. tree' \in Trees /\ ncommits' = ncommits + 1
      BY <1>17, <2>2, RebuildIn DEF BatchCommit, FsInv, Batches
    <3>2. writer' = writer /\ nops' = nops + 1 /\ nops < MaxOps
      BY <1>17 DEF BatchCommit, Start
    <3>3. writer.commit \in Nat /\ ncommits \in Nat /\ nops \in Nat
      BY DEF FsInv, Writers
    <3>4. nops' \in 0 .. MaxOps /\ ncommits' \in 0 .. nops' /\ batch'.commit < ncommits'
          /\ writer'.commit <= ncommits'
      BY <1>2, <2>1, <3>1, <3>2, <3>3 DEF FsInv
    <3>5. DOMAIN batch'.writes \cap ToSet(batch'.removes) = {} /\ writer' \in Writers
      BY <2>1, <3>2 DEF FsInv
    <3>6. batch'.commit # ncommits'
      BY <2>1, <3>3, <3>4
    <3>7. QED
      BY <2>1, <3>1, <3>4, <3>5, <3>6 DEF FsInv
  <2>3. CASE batch.commit # ncommits
    BY <1>2, <1>17, <2>1, <2>3 DEF FsInv, BatchCommit, Start
  <2>4. QED
    BY <2>2, <2>3
<1>18. CASE BatchClosed
  BY <1>2, <1>18 DEF BatchClosed, Start, FsInv
<1>19. QED
  BY <1>1, <1>4, <1>5, <1>6, <1>7, <1>8, <1>9, <1>10, <1>11, <1>12, <1>13, <1>14, <1>15, <1>16,
     <1>17, <1>18, Zenon DEF Next

(* Whatever operations are made, in whatever order, and however stale the  *)
(* batches and writers they go through: the branch's tree is a tree        *)
(* (tree.cpp, rebuild_tree; batch.cpp; fs.cpp).                            *)
THEOREM TreesStayTrees == Spec => []TypeOK
<1>1. FsInv => TypeOK
  <2> SUFFICES ASSUME FsInv PROVE TypeOK
    OBVIOUS
  <2>1. /\ IsTree(tree) /\ IsTree(batch.base) /\ batch.closed \in BOOLEAN
        /\ batch.commit \in Nat /\ writer.commit \in Nat /\ writer.kind \in {"none", "fs", "batch"}
    BY SetsAre DEF FsInv, Batches, Writers
  <2>2. MaxOps \in Nat
    BY ArgAssumption
  <2>3. QED
    BY <2>1, <2>2 DEF FsInv, TypeOK
<1>2. QED
  BY <1>1, InitFsInv, NextFsInv, PTL DEF Spec

-----------------------------------------------------------------------------
(* Late changes.                                                           *)

(* Every step leaves alone the files that are not in the way of what it    *)
(* was asked to change.                                                    *)
LEMMA StepSparesOthers ==
    ASSUME FsInv, [Next]_vars
    PROVE  /\ ~batch.closed /\ batch'.closed
              => SparesOthers(DOMAIN batch.writes \cup ToSet(batch.removes))
           /\ writer.kind # "none" /\ writer'.kind = "none" => SparesOthers({writer.path})
<1> DEFINE Closes == ~batch.closed /\ batch'.closed
           Flushes == writer.kind # "none" /\ writer'.kind = "none"
<1>1. IsTree(tree) /\ IsWrites(batch.writes) /\ IsRemoves(batch.removes) /\ Arg \subseteq Dirs
      /\ writer.path \in Dirs
  BY SetsAre, ArgAssumption DEF FsInv, Batches, Writers, IsRemoves, Dirs
<1>2. \A p \in Files(tree) : p \in Path
  BY DEF Files
<1>3. CASE BatchCommit
  <2>1. writer' = writer
    BY <1>3 DEF BatchCommit
  <2>2. CASE batch.commit # ncommits
    BY <1>3, <2>1, <2>2 DEF BatchCommit, SparesOthers
  <2>3. CASE batch.commit = ncommits
    <3>1. tree' = RebuildTree(tree, batch.writes, batch.removes)
      BY <1>3, <2>3 DEF BatchCommit, FsInv
    <3>2. SparesOthers(DOMAIN batch.writes \cup ToSet(batch.removes))
      BY <1>1, <3>1, RebuildSpares DEF SparesOthers, IsWrites
    <3>3. QED
      BY <2>1, <3>2
  <2>4. QED
    BY <2>2, <2>3
<1>4. ASSUME NEW d \in Data, CloseFsWriter(d) PROVE ~Closes /\ SparesOthers({writer.path})
  <2>1. batch' = batch
    BY <1>4 DEF CloseFsWriter
  <2>2. CASE writer.commit # ncommits
    BY <1>4, <2>1, <2>2 DEF CloseFsWriter, SparesOthers
  <2>3. CASE writer.commit = ncommits
    <3>1. PICK w : w = OneWrite(writer.path, d)
      OBVIOUS
    <3>2. tree' = RebuildTree(tree, w, <<>>) /\ DOMAIN w = {writer.path}
      BY <1>4, <2>3, <3>1, OneWriteIs DEF CloseFsWriter
    <3>3. IsRemoves(<<>>) /\ ToSet(<<>>) = {}
      BY DEF IsRemoves, ToSet
    <3>4. SparesOthers({writer.path})
      BY <1>1, <3>2, <3>3, RebuildSpares DEF SparesOthers
    <3>5. QED
      BY <2>1, <3>4
  <2>4. QED
    BY <2>2, <2>3
<1>5. ASSUME NEW d \in Data, CloseBatchWriter(d) PROVE ~Closes /\ SparesOthers({writer.path})
  <2>1. tree' = tree
    BY <1>5 DEF CloseBatchWriter
  <2>2. ~Closes
    <3>1. PICK b : b = Staged(writer.path, d)
      OBVIOUS
    <3>2. b.closed = batch.closed /\ (batch' = batch \/ batch' = b)
      BY <1>1, <1>5, <3>1, StagedIs DEF CloseBatchWriter
    <3>3. QED
      BY <3>2
  <2>3. QED
    BY <2>1, <2>2 DEF SparesOthers
<1>6. ASSUME NEW p \in Arg, NEW d \in Data, BatchWrite(p, d) PROVE ~Closes /\ ~Flushes
  <2>1. PICK b : b = Staged(p, d)
    OBVIOUS
  <2>2. b.closed = batch.closed /\ batch' = b /\ writer' = writer
    BY <1>1, <1>6, <2>1, StagedIs DEF BatchWrite
  <2>3. QED
    BY <2>2
<1>7. ASSUME NEW p \in Arg, BatchRemove(p) PROVE ~Closes /\ ~Flushes
  BY <1>1, <1>7, BatchRemoveIs DEF BatchRemove
<1>8. ASSUME NEW request, Commit(request) \/ DryRun(request) PROVE ~Closes /\ ~Flushes
  BY <1>8 DEF Commit, DryRun
<1>9. CASE NewBatch \/ BatchClosed \/ UNCHANGED vars
  BY <1>9 DEF NewBatch, BatchClosed, vars
<1>10. ASSUME NEW kind \in {"fs", "batch"}, NEW p \in Arg, OpenWriter(kind, p)
       PROVE  ~Closes /\ ~Flushes
  BY <1>10 DEF OpenWriter
<1>11. ASSUME NEW p, NEW d, NEW r, Write(p, d) \/ Apply(p, d, r) PROVE ~Closes /\ ~Flushes
  BY <1>8, <1>11 DEF Write, Apply
<1>12. ASSUME NEW src, NEW dest, Rename(src, dest) PROVE ~Closes /\ ~Flushes
  BY <1>8, <1>12 DEF Rename
<1>13. ASSUME NEW s, NEW dest, NEW b,
              RemovePaths(s, b) \/ Move(s, dest, b) \/ CopyFromRef(s, dest, b)
       PROVE  ~Closes /\ ~Flushes
  BY <1>8, <1>13, Zenon DEF RemovePaths, Move, CopyFromRef
<1>14. QED
  BY <1>3, <1>4, <1>5, <1>6, <1>7, <1>8, <1>9, <1>10, <1>11, <1>12, <1>13, Zenon DEF Next

(* Batch::commit and the writers' close, however late they come, change    *)
(* only what is in the way of the paths they were given (batch.cpp, commit;*)
(* fs.cpp, FsWriter).                                                      *)
THEOREM LateChangesAreLocal == Spec => LateChangesSpareOthers
<1>1. Spec => []FsInv
  BY InitFsInv, NextFsInv, PTL DEF Spec
<1>2. FsInv /\ [Next]_vars =>
        [/\ ~batch.closed /\ batch'.closed
            => SparesOthers(DOMAIN batch.writes \cup ToSet(batch.removes))
         /\ writer.kind # "none" /\ writer'.kind = "none" => SparesOthers({writer.path})]_vars
  BY StepSparesOthers
<1>3. QED
  BY <1>1, <1>2, PTL DEF Spec, LateChangesSpareOthers

-----------------------------------------------------------------------------
(* What remove, rename and move do to the files.                           *)

(* The invariant, for one list of sources.                                 *)
LEMMA OneMoveSpares ==
    ASSUME IsTree(tree), NEW s \in Seq(Dirs), NEW dest \in Dirs, NEW request,
           request = MoveRequest(s, dest, TRUE), request.error = "none", Fits(request),
           NEW p \in Files(tree),
           \A q \in DOMAIN request.writes : ~InTheWay(p, q),
           \A src \in ToSet(s) : ~IsPrefix(src, p)
    PROVE  Result(request)[p] = tree[p]
<1>1. /\ IsWrites(request.writes) /\ Root \notin DOMAIN request.writes
      /\ request.removes = s
      /\ \A i \in DOMAIN s : s[i] \in Path /\ Lookup(tree, s[i]) # NoEntry
  <2>1. /\ IsRequest(request) /\ request = Asks(MovedFiles(s, dest), s)
        /\ \A i \in DOMAIN s : s[i] \in Path /\ Lookup(tree, s[i]) # NoEntry
    BY MoveAsks, Zenon
  <2>2. request.removes = s
    BY <2>1, AsksFor, Zenon
  <2>3. QED
    BY <2>1, <2>2, Zenon DEF IsRequest
<1>2. p \in Path /\ p \in Seq(Name) /\ tree[p] # DirEntry
  BY DirFacts, TreeAssumption DEF Files
<1>3. ASSUME NEW q \in ToSet(s) PROVE ~InTheWay(p, q)
  <2>1. q \in Path /\ q \in Seq(Name) /\ Lookup(tree, q) # NoEntry
    BY <1>1, <1>3, InList, DirFacts
  <2>2. tree[q] # NoEntry
    BY <2>1, LookupIs, DirFacts
  <2>3. ~IsStrictPrefix(p, q)
    BY <1>2, <2>1, <2>2, InDirectories
  <2>4. ~IsPrefix(p, q)
    BY <1>2, <1>3, <2>1, <2>3, PrefixOrder
  <2>5. QED
    BY <1>3, <2>4 DEF InTheWay
<1>4. IsRemoves(s) /\ DOMAIN request.writes \subseteq Dirs
  BY <1>1 DEF IsRemoves, IsWrites
<1>5. RebuildTree(tree, request.writes, s)[p] = tree[p]
  <2>1. PICK w : w = request.writes
    OBVIOUS
  <2>2. DOMAIN w \subseteq Dirs /\ \A q \in (DOMAIN w \cup ToSet(s)) \ {Root} : ~InTheWay(p, q)
    BY <1>3, <1>4, <2>1
  <2>3. RebuildTree(tree, w, s)[p] = tree[p]
    BY <1>4, <2>2, RebuildSpares
  <2>4. QED
    BY <2>1, <2>3
<1>6. QED
  BY <1>1, <1>5 DEF Result

(* Fs::move never touches a file that is neither at or below a source nor  *)
(* in the way of a new name, whatever the lists and the tree (fs.cpp, move *)
(* and tree.cpp, rebuild_tree).                                            *)
THEOREM MovesSpareOthers == Spec => []MoveSparesOthers
<1>1. FsInv => MoveSparesOthers
  <2> SUFFICES ASSUME FsInv, NEW s \in Sources, NEW dest \in Arg, NEW request,
                      request = MoveRequest(s, dest, TRUE), request.error = "none", Fits(request),
                      NEW p \in Files(tree),
                      \A q \in DOMAIN request.writes : ~InTheWay(p, q),
                      \A src \in ToSet(s) : ~IsPrefix(src, p)
               PROVE  Result(request)[p] = tree[p]
    BY Zenon DEF MoveSparesOthers
  <2>1. IsTree(tree) /\ s \in Seq(Dirs) /\ dest \in Dirs
    BY SetsAre, ArgAssumption DEF FsInv, Dirs
  <2>2. QED
    BY <2>1, OneMoveSpares
<1>2. QED
  BY <1>1, InitFsInv, NextFsInv, PTL DEF Spec

(* Fs::move, for sources and new names of which none lies inside another,  *)
(* takes each file at or below a source to its new name and changes        *)
(* nothing else, in whichever order the sources come (fs.cpp, move and     *)
(* tree.cpp, rebuild_tree).                                                *)
THEOREM MovesMoveFiles == Spec => []MoveMovesFiles
<1>1. FsInv => MoveMovesFiles
  <2> SUFFICES ASSUME FsInv, NEW s \in Sources, NEW dest \in Arg, NEW request,
                      request = MoveRequest(s, dest, TRUE), request.error = "none", Fits(request),
                      ~Nested(ToSet(s) \cup DOMAIN request.writes)
               PROVE  Contents(Result(request)) = Changed(Contents(tree), request.writes, ToSet(s))
    BY Zenon DEF MoveMovesFiles
  <2>1. IsTree(tree) /\ s \in Seq(Dirs) /\ dest \in Dirs
    BY SetsAre, ArgAssumption DEF FsInv, Dirs
  <2>2. /\ IsWrites(request.writes) /\ Root \notin DOMAIN request.writes
        /\ request.removes = s
        /\ \A i \in DOMAIN s : s[i] \in Path
    <3>1. /\ IsRequest(request) /\ request = Asks(MovedFiles(s, dest), s)
          /\ \A i \in DOMAIN s : s[i] \in Path
      BY <2>1, MoveAsks, Zenon
    <3>2. request.removes = s
      BY <3>1, AsksFor, Zenon
    <3>3. QED
      BY <3>1, <3>2, Zenon DEF IsRequest
  <2>3. ToSet(s) \ {Root} = ToSet(s)
    BY <2>1, <2>2, InList, DirFacts
  <2>4. ~Nested(Mentioned(request.writes, s)) /\ IsRemoves(s)
    BY <2>1, NestedFewer DEF Mentioned, IsRemoves
  <2>5. Contents(RebuildTree(tree, request.writes, s))
           = Changed(Contents(tree), request.writes, ToSet(s) \ {Root})
    BY <2>1, <2>2, <2>4, RebuildChanges
  <2>6. QED
    BY <2>2, <2>3, <2>5 DEF Result
<1>2. QED
  BY <1>1, InitFsInv, NextFsInv, PTL DEF Spec

(* Fs::remove, for paths other than the root of which none lies inside     *)
(* another, removes the files at or below them and no other, in whichever  *)
(* order they come (fs.cpp, remove and tree.cpp, rebuild_tree).            *)
THEOREM RemovesRemoveFiles == Spec => []RemoveRemovesFiles
<1>1. FsInv => RemoveRemovesFiles
  <2> SUFFICES ASSUME FsInv, NEW s \in Sources, NEW request,
                      request = RemoveRequest(s, TRUE), request.error = "none",
                      Root \notin ToSet(s), ~Nested(ToSet(s))
               PROVE  Contents(Result(request)) = Changed(Contents(tree), <<>>, ToSet(s))
    BY Zenon DEF RemoveRemovesFiles
  <2>1. IsTree(tree) /\ s \in Seq(Dirs) /\ IsRemoves(s)
    BY SetsAre, ArgAssumption DEF FsInv, Dirs, IsRemoves
  <2>2. request.writes = <<>> /\ request.removes = s
    <3>1. request = Asks(<<>>, s)
      BY RemoveAsks, Zenon
    <3>2. QED
      BY <3>1, AsksFor, Zenon
  <2>3. IsWrites(<<>>) /\ Root \notin DOMAIN <<>>
    BY NoWriteIs
  <2>4. ~Nested(Mentioned(<<>>, s))
    BY NestedFewer, NoWriteIs DEF Mentioned
  <2>5. Contents(RebuildTree(tree, <<>>, s)) = Changed(Contents(tree), <<>>, ToSet(s) \ {Root})
    BY <2>1, <2>3, <2>4, RebuildChanges
  <2>6. ToSet(s) \ {Root} = ToSet(s)
    OBVIOUS
  <2>7. QED
    BY <2>2, <2>5, <2>6 DEF Result
<1>2. QED
  BY <1>1, InitFsInv, NextFsInv, PTL DEF Spec

(* What relocated files are called and hold.                               *)
LEMMA RelocatedAre ==
    ASSUME IsTree(tree), NEW src \in Path, Lookup(tree, src) # NoEntry, NEW target \in Seq(Name)
    PROVE  /\ \A p \in Files(tree) :
                 IsPrefix(src, p) => Renamed(src, target, p) \in DOMAIN Relocated(src, target)
           /\ \A q \in DOMAIN Relocated(src, target) :
                 \E p \in Files(tree) : /\ IsPrefix(src, p) /\ q = Renamed(src, target, p)
                                        /\ Relocated(src, target)[q] = tree[p]
<1> DEFINE moved == IF Lookup(tree, src) = DirEntry THEN WalkTree(tree, src) ELSE {src}
           origin(q) == CHOOSE p \in moved : Renamed(src, target, p) = q
<1>1. Relocated(src, target) = [q \in {Renamed(src, target, p) : p \in moved} |-> tree[origin(q)]]
  BY Zenon DEF Relocated, Renamed
<1>2. tree[src] = Lookup(tree, src) /\ src \in Seq(Name)
  BY LookupIs, DirFacts
<1>3. \A p \in Files(tree) : p \in Path /\ p \in Seq(Name)
  BY DirFacts DEF Files
<1>4. moved = {p \in Files(tree) : IsPrefix(src, p)}
  <2>1. CASE Lookup(tree, src) = DirEntry
    <3>1. src \notin Files(tree)
      BY <1>2, <2>1, TreeAssumption DEF Files
    <3>2. \A p \in Files(tree) : IsPrefix(src, p) <=> IsStrictPrefix(src, p)
      BY <1>2, <1>3, <3>1, PrefixOrder
    <3>3. QED
      BY <2>1, <3>2 DEF WalkTree
  <2>2. CASE Lookup(tree, src) # DirEntry
    <3>1. src \in Files(tree)
      BY <1>2, <2>2 DEF Files, IsTree
    <3>2. ASSUME NEW p \in Files(tree), IsPrefix(src, p) PROVE p = src
      <4>1. tree[p] # NoEntry /\ p \in Path
        BY TreeAssumption DEF Files
      <4>2. ~IsStrictPrefix(src, p)
        BY <3>1, <4>1, FilesApart
      <4>3. QED
        BY <1>2, <1>3, <3>2, <4>2, PrefixOrder
    <3>3. IsPrefix(src, src)
      BY <1>2, PrefixOrder
    <3>4. QED
      BY <2>2, <3>1, <3>2, <3>3
  <2>3. QED
    BY <2>1, <2>2
<1> HIDE DEF moved
<1>5. ASSUME NEW q \in {Renamed(src, target, p) : p \in moved}
      PROVE  origin(q) \in moved /\ q = Renamed(src, target, origin(q))
  BY <1>5
<1> HIDE DEF origin
<1>6. QED
  BY <1>1, <1>4, <1>5

(* New names are as far apart as the old ones.                             *)
LEMMA RelocatedApart ==
    ASSUME IsTree(tree), NEW src \in Path, Lookup(tree, src) # NoEntry, NEW target \in Seq(Name)
    PROVE  /\ ~Nested(DOMAIN Relocated(src, target))
           /\ \A q \in DOMAIN Relocated(src, target) : q \in Seq(Name) /\ IsPrefix(target, q)
<1>1. \A p \in Files(tree) : p \in Path /\ p \in Seq(Name) /\ tree[p] # NoEntry
  BY DirFacts, TreeAssumption DEF Files
<1>2. src \in Seq(Name)
  BY DirFacts
<1>3. ASSUME NEW q \in DOMAIN Relocated(src, target), NEW r \in DOMAIN Relocated(src, target)
      PROVE  ~IsStrictPrefix(q, r) /\ q \in Seq(Name) /\ IsPrefix(target, q)
  <2>1. PICK p \in Files(tree) : IsPrefix(src, p) /\ q = Renamed(src, target, p)
    BY RelocatedAre
  <2>2. PICK o \in Files(tree) : IsPrefix(src, o) /\ r = Renamed(src, target, o)
    BY RelocatedAre
  <2>3. ~IsStrictPrefix(p, o)
    BY <1>1, FilesApart
  <2>4. IsPrefix(target, q) /\ (IsStrictPrefix(q, r) => IsStrictPrefix(p, o))
    BY <1>1, <1>2, <2>1, <2>2, RenamedOrder
  <2>5. q \in Seq(Name)
    BY <1>1, <1>2, <2>1, RenamedIs
  <2>6. QED
    BY <2>3, <2>4, <2>5
<1>4. QED
  BY <1>3 DEF Nested

(* A rename to another place that is neither inside nor around the source. *)
LEMMA RenameElsewhere ==
    ASSUME IsTree(tree), NEW src \in Path, Lookup(tree, src) # NoEntry,
           NEW dest \in Path, src # dest, ~Nested({src, dest}),
           NEW writes, writes = Relocated(src, dest), DOMAIN writes \subseteq Dirs
    PROVE  Contents(RebuildTree(tree, writes, <<src>>)) = Changed(Contents(tree), writes, {src})
<1>1. src \in Seq(Name) /\ dest \in Seq(Name) /\ dest # Root /\ src \in Dirs /\ src # Root
  BY DirFacts
<1>2. ~IsPrefix(src, dest) /\ ~IsPrefix(dest, src)
  BY <1>1, PrefixOrder DEF Nested
<1>3. ~Nested(DOMAIN writes) /\ \A q \in DOMAIN writes : q \in Seq(Name) /\ IsPrefix(dest, q)
  BY <1>1, RelocatedApart
<1>4. ASSUME NEW q \in DOMAIN writes PROVE ~IsStrictPrefix(src, q) /\ ~IsStrictPrefix(q, src)
  <2>1. IsStrictPrefix(src, q) => IsPrefix(src, q)
    BY <1>1, <1>3, <1>4, PrefixOrder
  <2>2. IsStrictPrefix(q, src) => IsPrefix(q, src)
    BY <1>1, <1>3, <1>4, PrefixOrder
  <2>3. ~IsPrefix(src, q)
    BY <1>1, <1>2, <1>3, <1>4, PrefixOrder
  <2>4. ~IsPrefix(q, src)
    BY <1>1, <1>2, <1>3, <1>4, PrefixOrder
  <2>5. QED
    BY <2>1, <2>2, <2>3, <2>4
<1>5. ~IsStrictPrefix(src, src)
  BY <1>1, PrefixOrder
<1>6. ToSet(<<src>>) = {src} /\ IsRemoves(<<src>>)
  BY <1>1 DEF ToSet, IsRemoves
<1>7. ~Nested(Mentioned(writes, <<src>>))
  BY <1>3, <1>4, <1>5, <1>6 DEF Nested, Mentioned
<1>8. IsWrites(writes) /\ Root \notin DOMAIN writes
  BY <1>1, RelocatedIs DEF IsData, IsWrites
<1>9. QED
  BY <1>1, <1>6, <1>7, <1>8, RebuildChanges

(* A rename of something to its own name.                                  *)
LEMMA RenameInPlace ==
    ASSUME IsTree(tree), NEW src \in Path, Lookup(tree, src) # NoEntry,
           NEW writes, writes = Relocated(src, src), DOMAIN writes \subseteq Dirs
    PROVE  Contents(RebuildTree(tree, writes, <<src>>)) = Changed(Contents(tree), writes, {src})
<1>1. src \in Seq(Name) /\ src \in Dirs /\ src # Root
  BY DirFacts
<1>2. \A p \in Files(tree) : p \in Path /\ p \in Dirs /\ p \in Seq(Name) /\ tree[p] # NoEntry
                             /\ tree[p] \in Data /\ p # Root
  BY DirFacts, TreeAssumption DEF Files
<1>3. \A p \in Files(tree) : IsPrefix(src, p) => Renamed(src, src, p) = p
  BY <1>1, <1>2, RenamedOrder
<1>4. DOMAIN writes = {p \in Files(tree) : IsPrefix(src, p)}
  <2>1. ASSUME NEW p \in Files(tree), IsPrefix(src, p) PROVE p \in DOMAIN writes
    BY <1>1, <1>3, <2>1, RelocatedAre
  <2>2. ASSUME NEW q \in DOMAIN writes PROVE q \in Files(tree) /\ IsPrefix(src, q)
    BY <1>1, <1>3, <2>2, RelocatedAre
  <2>3. QED
    BY <2>1, <2>2
<1>5. \A p \in DOMAIN writes : writes[p] = tree[p]
  BY <1>1, <1>3, RelocatedAre
<1>6. ToSet(<<src>>) = {src} /\ IsRemoves(<<src>>)
  BY <1>1 DEF ToSet, IsRemoves
<1>7. tree[src] # NoEntry
  BY <1>1, LookupIs
<1>8. PICK result : result = RebuildTree(tree, writes, <<src>>)
  OBVIOUS
<1>9. \A p, q \in Files(tree) : ~IsStrictPrefix(p, q) /\ ~IsStrictPrefix(p, src)
  BY <1>2, <1>7, FilesApart
<1>10. ASSUME NEW p \in Files(tree), ~IsPrefix(src, p), NEW q \in DOMAIN writes \cup {src}
       PROVE  ~InTheWay(p, q)
  <2>1. p \in Seq(Name) /\ q \in Seq(Name) /\ IsPrefix(src, q) /\ ~IsStrictPrefix(p, q)
    BY <1>1, <1>2, <1>4, <1>9, <1>10, PrefixOrder
  <2>2. ~IsPrefix(q, p)
    BY <1>1, <1>10, <2>1, PrefixOrder
  <2>3. p # q
    BY <1>10, <2>1
  <2>4. QED
    BY <2>1, <2>2, <2>3, PrefixOrder DEF InTheWay
<1>11. ASSUME NEW p \in Files(tree) PROVE result[p] = tree[p]
  <2>1. CASE IsPrefix(src, p)
    <3>1. p \in DOMAIN writes /\ \A q \in DOMAIN writes \ {Root} : ~IsStrictPrefix(q, p)
      BY <1>4, <1>9, <1>11, <2>1
    <3>2. QED
      BY <1>2, <1>5, <1>6, <1>8, <3>1, RebuildWrites
  <2>2. CASE ~IsPrefix(src, p)
    <3>1. \A q \in (DOMAIN writes \cup ToSet(<<src>>)) \ {Root} : ~InTheWay(p, q)
      BY <1>6, <1>10, <2>2
    <3>2. QED
      BY <1>6, <1>8, <3>1, RebuildSpares
  <2>3. QED
    BY <2>1, <2>2
<1>12. Files(result) = Files(tree)
  <2>1. Files(result) \subseteq Files(tree)
    BY <1>4, <1>8, RebuildTakes
  <2>2. Files(tree) \subseteq Files(result)
    BY <1>2, <1>11 DEF Files
  <2>3. QED
    BY <2>1, <2>2
<1>13. Contents(result) = Contents(tree)
  BY <1>11, <1>12, SameContents
<1>14. Changed(Contents(tree), writes, {src}) = Contents(tree)
  <2> DEFINE kept == {p \in Files(tree) :
                        /\ ~\E r \in {src} : IsPrefix(r, p)
                        /\ ~\E w \in DOMAIN writes : InTheWay(w, p)}
             left == {p \in kept : ~\E r \in {src} : IsStrictPrefix(p, r)}
  <2>1. kept = {p \in Files(tree) : ~IsPrefix(src, p)}
    BY <1>10 DEF InTheWay
  <2>2. left = kept
    BY <1>9
  <2>3. left \cup DOMAIN writes = Files(tree)
    BY <1>4, <2>1, <2>2
  <2>4. Changed(Contents(tree), writes, {src})
          = [p \in left \cup DOMAIN writes |->
               IF p \in DOMAIN writes THEN writes[p] ELSE Contents(tree)[p]]
    BY DEF Changed, Contents
  <2> HIDE DEF left
  <2>5. \A p \in Files(tree) : Contents(tree)[p] = tree[p]
    BY DEF Contents
  <2>6. QED
    BY <1>5, <2>3, <2>4, <2>5 DEF Contents
<1>15. QED
  BY <1>8, <1>13, <1>14

(* Fs::rename, when neither path lies inside the other, takes every file   *)
(* at or below the source to its new name and changes nothing else, also   *)
(* when the two are the same (fs.cpp, rename; tree.cpp, rebuild_tree).     *)
THEOREM RenamesMoveFiles == Spec => []RenameMovesFiles
<1>1. FsInv => RenameMovesFiles
  <2> SUFFICES ASSUME FsInv, NEW src \in Arg, NEW dest \in Arg, NEW request,
                      request = RenameRequest(src, dest), request.error = "none", Fits(request),
                      ~Nested({src, dest})
               PROVE  Contents(Result(request)) = Changed(Contents(tree), request.writes, {src})
    BY Zenon DEF RenameMovesFiles
  <2>1. IsTree(tree) /\ src \in Dirs /\ dest \in Dirs
    BY SetsAre, ArgAssumption DEF FsInv, Dirs
  <2>2. /\ request = Asks(Relocated(src, dest), <<src>>)
        /\ src \in Path /\ dest \in Path /\ Lookup(tree, src) # NoEntry
    BY <2>1, RenameAsks, Zenon
  <2>3. PICK writes : writes = Relocated(src, dest)
    OBVIOUS
  <2>4. request.writes = writes /\ request.removes = <<src>>
    BY <2>2, <2>3, AsksFor, Zenon
  <2>5. DOMAIN writes \subseteq Dirs
    BY <2>4 DEF Fits, Dirs
  <2>6. Contents(RebuildTree(tree, writes, <<src>>)) = Changed(Contents(tree), writes, {src})
    BY <2>1, <2>2, <2>3, <2>5, RenameElsewhere, RenameInPlace
  <2>7. QED
    BY <2>4, <2>6 DEF Result
<1>2. QED
  BY <1>1, InitFsInv, NextFsInv, PTL DEF Spec

-----------------------------------------------------------------------------
(* What copy_from_ref does to the files.                                   *)

(* The writes are what is below d in the other snapshot, called as it is   *)
(* below d, but below dest.                                                *)
IsCopyOf(writes, d, dest) ==
    /\ writes = [q \in DOMAIN writes |-> writes[q]]
    /\ DOMAIN writes = {Renamed(d, dest, p) : p \in WalkTree(SourceTree, d)}
    /\ \A p \in WalkTree(SourceTree, d) : writes[Renamed(d, dest, p)] = SourceTree[p]

(* So they are when the contents of a directory are copied.                *)
LEMMA CopiedAre ==
    ASSUME NEW src, NEW d, d = src.path, d \in Dirs, Lookup(SourceTree, d) = DirEntry,
           src.contents \/ d = Root, NEW dest \in Dirs
    PROVE  IsCopyOf(Copied(src, dest), d, dest)
<1> DEFINE files == WalkTree(SourceTree, d)
           target(p) == CopyTarget(src, dest, p)
           origin(q) == CHOOSE p \in files : Renamed(d, dest, p) = q
<1>1. d \in Seq(Name) /\ dest \in Seq(Name)
  BY DirFacts
<1>2. ASSUME NEW p \in files PROVE p \in Seq(Name) /\ IsPrefix(d, p)
  <2>1. p \in Path /\ p \in Seq(Name) /\ IsStrictPrefix(d, p)
    BY <1>2, DirFacts DEF WalkTree, Files
  <2>2. QED
    BY <1>1, <2>1, PrefixOrder
<1>3. dest \o <<>> = dest
  BY <1>1, ConcatEmptySeq
<1>4. \A p : target(p) = Renamed(d, dest, p)
  BY <1>3, Zenon DEF CopyTarget, Renamed
<1>5. Copied(src, dest)
        = [q \in {target(p) : p \in files} |-> SourceTree[CHOOSE p \in files : target(p) = q]]
  <2> DEFINE walked == IF Lookup(SourceTree, src.path) = DirEntry
                       THEN WalkTree(SourceTree, src.path) ELSE {src.path}
  <2>1. Copied(src, dest)
          = [q \in {target(p) : p \in walked} |-> SourceTree[CHOOSE p \in walked : target(p) = q]]
    BY Zenon DEF Copied, CopyTarget
  <2>2. walked = files
    OBVIOUS
  <2> HIDE DEF walked, files, target
  <2>3. QED
    BY <2>1, <2>2
<1> HIDE DEF target
<1>6. Copied(src, dest) = [q \in {Renamed(d, dest, p) : p \in files} |-> SourceTree[origin(q)]]
  BY <1>4, <1>5
<1>7. ASSUME NEW p \in files PROVE origin(Renamed(d, dest, p)) = p
  <2>1. PICK q : q = Renamed(d, dest, p)
    OBVIOUS
  <2>2. origin(q) \in files /\ Renamed(d, dest, origin(q)) = q
    BY <1>7, <2>1
  <2>3. QED
    BY <1>1, <1>2, <1>7, <2>1, <2>2, RenamedOrder
<1> HIDE DEF files, origin
<1>8. QED
  BY <1>6, <1>7 DEF files, IsCopyOf

(* One source.                                                             *)
LEMMA OneCopied ==
    ASSUME NEW s, DOMAIN s = {1}, NEW dest,
           NEW f, f = Copied(s[1], dest), f = [q \in DOMAIN f |-> f[q]]
    PROVE  CopiedFiles(s, dest) = f
<1> DEFINE parts == [i \in DOMAIN s |-> Copied(s[i], dest)]
<1>1. PICK n \in Nat : n = 1 /\ 1 .. n = {1}
  OBVIOUS
<1>2. DOMAIN parts = 1 .. n /\ parts[1] = f
  BY <1>1
<1>3. CopiedFiles(s, dest) = InTurn(parts)
  BY DEF CopiedFiles
<1> HIDE DEF parts
<1>4. DOMAIN InTurn(parts) = DOMAIN f
  <2>1. \A q : q \in DOMAIN InTurn(parts) <=> \E i \in 1 .. n : q \in DOMAIN parts[i]
    BY <1>2, InTurnIs
  <2>2. QED
    BY <1>1, <1>2, <2>1
<1>5. \A q \in DOMAIN InTurn(parts) : InTurn(parts)[q] = f[q]
  <2>1. \A q \in DOMAIN InTurn(parts) : \E i \in 1 .. n : InTurn(parts)[q] = parts[i][q]
    BY <1>2, InTurnTakes
  <2>2. QED
    BY <1>1, <1>2, <2>1
<1>6. InTurn(parts) = [q \in DOMAIN InTurn(parts) |-> InTurn(parts)[q]]
  BY DEF InTurn
<1>7. QED
  BY <1>3, <1>4, <1>5, <1>6

(* A tree that has exactly the writes below dest, and is otherwise as it   *)
(* was before.                                                             *)
Delivers(result, writes, dest) ==
    /\ WalkTree(result, dest) = DOMAIN writes
    /\ \A q \in DOMAIN writes : result[q] = writes[q]
    /\ \A p \in Files(tree) : ~InTheWay(dest, p) => result[p] = tree[p]

(* The tree that comes out of a copy of everything below d.                *)
LEMMA CopyResult ==
    ASSUME IsTree(tree), NEW d \in Dirs, NEW dest \in Dirs,
           NEW writes, IsWrites(writes), IsCopyOf(writes, d, dest),
           NEW removes, IsRemoves(removes), ToSet(removes) = WalkTree(tree, dest) \ DOMAIN writes,
           NEW result, result = RebuildTree(tree, writes, removes)
    PROVE  Delivers(result, writes, dest)
<1>1. d \in Seq(Name) /\ dest \in Seq(Name) /\ IsTree(SourceTree)
  BY DirFacts, ArgAssumption
<1>2. ASSUME NEW p \in WalkTree(SourceTree, d)
      PROVE  p \in Files(SourceTree) /\ p \in Path /\ p \in Seq(Name) /\ SourceTree[p] # NoEntry
             /\ IsStrictPrefix(d, p) /\ IsPrefix(d, p)
  <2>1. p \in Files(SourceTree) /\ p \in Path /\ p \in Seq(Name) /\ SourceTree[p] # NoEntry
        /\ IsStrictPrefix(d, p)
    BY <1>2, DirFacts, TreeAssumption DEF WalkTree, Files
  <2>2. QED
    BY <1>1, <2>1, PrefixOrder
<1>3. ASSUME NEW q \in DOMAIN writes
      PROVE  /\ q \in Dirs /\ q \in Path /\ q \in Seq(Name) /\ IsStrictPrefix(dest, q)
             /\ \A r \in DOMAIN writes : ~IsStrictPrefix(r, q)
  <2>1. PICK p \in WalkTree(SourceTree, d) : q = Renamed(d, dest, p)
    BY <1>3 DEF IsCopyOf
  <2>2. q \in Dirs /\ q \in Seq(Name)
    BY <1>3, DirFacts DEF IsWrites
  <2>3. IsStrictPrefix(dest, q)
    <3>1. IsPrefix(dest, q)
      BY <1>1, <1>2, <2>1, RenamedOrder
    <3>2. q # dest
      <4>1. IsPrefix(d, d)
        BY <1>1, PrefixOrder
      <4>2. Renamed(d, dest, d) = dest
        BY <1>1, <4>1, RenamedOrder
      <4>3. q = dest => p = d
        <5>1. p \in Seq(Name) /\ IsPrefix(d, p)
          BY <1>2
        <5>2. Renamed(d, dest, p) = Renamed(d, dest, d) => p = d
          BY <1>1, <4>1, <5>1, RenamedOrder
        <5>3. QED
          BY <2>1, <4>2, <5>2
      <4>4. p # d
        BY <1>1, <1>2, PrefixOrder
      <4>5. QED
        BY <4>3, <4>4
    <3>3. QED
      BY <1>1, <2>2, <3>1, <3>2, PrefixOrder
  <2>4. q \in Path
    BY <2>2, <2>3, DirFacts
  <2>5. ASSUME NEW r \in DOMAIN writes PROVE ~IsStrictPrefix(r, q)
    <3>1. PICK o \in WalkTree(SourceTree, d) : r = Renamed(d, dest, o)
      BY <2>5 DEF IsCopyOf
    <3>2. ~IsStrictPrefix(o, p)
      BY <1>1, <1>2, FilesApart
    <3>3. QED
      BY <1>1, <1>2, <2>1, <3>1, <3>2, RenamedOrder
  <2>6. QED
    BY <2>2, <2>3, <2>4, <2>5
<1>4. \A q \in DOMAIN writes : result[q] = writes[q]
  BY <1>3, RebuildWrites DEF IsWrites
<1>5. ASSUME NEW q \in WalkTree(result, dest) PROVE q \in DOMAIN writes
  <2>1. q \in Files(result) /\ IsStrictPrefix(dest, q) /\ q \in Path
    BY <1>5 DEF WalkTree, Files
  <2>2. CASE q \notin DOMAIN writes
    <3>1. q \in Files(tree)
      BY <2>1, <2>2, RebuildTakes
    <3>2. q \in ToSet(removes)
      BY <2>1, <2>2, <3>1 DEF WalkTree
    <3>3. QED
      BY <2>1, <2>2, <3>2, RebuildRemoves
  <2>3. QED
    BY <2>2
<1>6. ASSUME NEW q \in DOMAIN writes PROVE q \in WalkTree(result, dest)
  BY <1>3, <1>4, <1>6 DEF WalkTree, Files, IsWrites
<1>7. ASSUME NEW p \in Files(tree), ~InTheWay(dest, p) PROVE result[p] = tree[p]
  <2>1. p \in Seq(Name)
    BY DirFacts DEF Files
  <2>2. ASSUME NEW q \in DOMAIN writes \cup ToSet(removes) PROVE ~InTheWay(p, q)
    <3>1. q \in Seq(Name) /\ IsStrictPrefix(dest, q)
      BY <1>3, <2>2, DirFacts DEF WalkTree, Files
    <3>2. IsPrefix(dest, q)
      BY <1>1, <3>1, PrefixOrder
    <3>3. ~IsPrefix(q, p)
      BY <1>1, <1>7, <2>1, <3>1, <3>2, PrefixOrder DEF InTheWay
    <3>4. ~IsPrefix(p, q)
      BY <1>1, <1>7, <2>1, <3>1, <3>2, PrefixOrder DEF InTheWay
    <3>5. QED
      BY <3>3, <3>4 DEF InTheWay
  <2>3. QED
    BY <2>2, RebuildSpares DEF IsWrites
<1>8. QED
  BY <1>4, <1>5, <1>6, <1>7 DEF Delivers

(* What names(t, d) is in CopyMakesIdentical.                              *)
NamesIn(t, d) == {Rest(d, p) : p \in WalkTree(t, d)}

(* The same names below dest as below d, and the same contents.            *)
IsIdentical(result, d, dest) ==
    /\ NamesIn(result, dest) = NamesIn(SourceTree, d)
    /\ \A n \in NamesIn(result, dest) : result[dest \o n] = SourceTree[d \o n]
    /\ \A p \in Files(tree) : ~InTheWay(dest, p) => result[p] = tree[p]

(* So it is when the copy is delivered.                                    *)
LEMMA CopiedNames ==
    ASSUME NEW d \in Dirs, NEW dest \in Dirs, NEW writes, NEW result,
           IsCopyOf(writes, d, dest), Delivers(result, writes, dest)
    PROVE  IsIdentical(result, d, dest)
<1>1. d \in Seq(Name) /\ dest \in Seq(Name)
  BY DirFacts
<1>2. ASSUME NEW p \in WalkTree(SourceTree, d)
      PROVE  /\ Rest(dest, Renamed(d, dest, p)) = Rest(d, p)
             /\ dest \o Rest(d, p) = Renamed(d, dest, p)
             /\ d \o Rest(d, p) = p
  <2>1. p \in Seq(Name) /\ IsStrictPrefix(d, p)
    BY <1>2, DirFacts DEF WalkTree, Files
  <2>2. IsPrefix(d, p)
    BY <1>1, <2>1, PrefixOrder
  <2>3. QED
    BY <1>1, <2>1, <2>2, RestRenamed
<1>3. NamesIn(result, dest) = {Rest(d, p) : p \in WalkTree(SourceTree, d)}
  <2>1. NamesIn(result, dest) = {Rest(dest, q) : q \in DOMAIN writes}
    BY DEF NamesIn, Delivers
  <2>2. QED
    BY <1>2, <2>1 DEF IsCopyOf
<1>4. ASSUME NEW n \in NamesIn(result, dest) PROVE result[dest \o n] = SourceTree[d \o n]
  <2>1. PICK p \in WalkTree(SourceTree, d) : n = Rest(d, p)
    BY <1>3, <1>4
  <2>2. Renamed(d, dest, p) \in DOMAIN writes /\ writes[Renamed(d, dest, p)] = SourceTree[p]
    BY DEF IsCopyOf
  <2>3. result[Renamed(d, dest, p)] = writes[Renamed(d, dest, p)]
    BY <2>2 DEF Delivers
  <2>4. QED
    BY <1>2, <2>1, <2>2, <2>3
<1>5. QED
  BY <1>3, <1>4 DEF NamesIn, Delivers, IsIdentical

(* What a copy of one directory's contents writes.                         *)
LEMMA OneCopyWrites ==
    ASSUME NEW s \in Copies, Len(s) = 1, NEW c, c = s[1], NEW d, d = c.path,
           c.contents \/ d = Root, Lookup(SourceTree, d) = DirEntry, NEW dest \in Dirs
    PROVE  d \in Dirs /\ IsCopyOf(CopiedFiles(s, dest), d, dest)
<1>1. DOMAIN s = {1} /\ d \in Dirs
  <2>1. PICK C : C = [path : Dirs, contents : BOOLEAN]
    OBVIOUS
  <2>2. s \in Seq(C)
    BY <2>1, ArgAssumption DEF Dirs
  <2>3. \A i \in DOMAIN s : s[i] \in C
    BY <2>2
  <2>4. DOMAIN s = 1 .. 1 /\ 1 .. 1 = {1}
    BY <2>2
  <2>5. c \in C
    BY <2>3, <2>4
  <2>6. QED
    BY <2>1, <2>4, <2>5
<1>2. PICK f : f = Copied(c, dest)
  OBVIOUS
<1>3. IsCopyOf(f, d, dest)
  BY <1>1, <1>2, CopiedAre
<1>4. f = [q \in DOMAIN f |-> f[q]]
  BY <1>3, Zenon DEF IsCopyOf
<1>5. CopiedFiles(s, dest) = f
  BY <1>1, <1>2, <1>4, OneCopied
<1>6. QED
  BY <1>1, <1>3, <1>5

(* What is extra is what is below the destination and not copied.          *)
LEMMA ExtraIs ==
    ASSUME IsTree(tree), NEW dest \in Dirs, NEW writes
    PROVE  ExtraFiles(dest, writes) = WalkTree(tree, dest) \ DOMAIN writes
<1>1. CASE Lookup(tree, dest) = DirEntry
  BY <1>1 DEF ExtraFiles
<1>2. CASE Lookup(tree, dest) # DirEntry
  BY <1>2, WalkNothing DEF ExtraFiles
<1>3. QED
  BY <1>1, <1>2

(* A copy finds no source, has nothing to do, or asks for the writes and   *)
(* for the removal of what is extra.                                       *)
IsOutcome(request, writes, extra) ==
    \/ request.error = "NotFound"
    \/ request.error = "nothing to do" /\ DOMAIN writes = {} /\ extra = {}
    \/ /\ request.error = "none" /\ request.writes = writes
       /\ request.removes = SetToSeq(extra) /\ IsData(writes)

(* There are no other outcomes.                                            *)
LEMMA CopyOutcomes ==
    ASSUME NEW s \in Copies, NEW dest \in Dirs
    PROVE  IsOutcome(CopyRequest(s, dest, TRUE), CopiedFiles(s, dest),
                     ExtraFiles(dest, CopiedFiles(s, dest)))
<1>1. PICK writes : writes = CopiedFiles(s, dest)
  OBVIOUS
<1>2. PICK extra : extra = ExtraFiles(dest, writes)
  OBVIOUS
<1>3. PICK request : request = CopyRequest(s, dest, TRUE)
  OBVIOUS
<1> DEFINE missing == \E src \in ToSet(s) : Lookup(SourceTree, src.path) = NoEntry
<1>4. request = IF missing THEN Fails("NotFound")
                ELSE IF DOMAIN writes = {} /\ extra = {} THEN Fails("nothing to do")
                ELSE Asks(writes, SetToSeq(extra))
  BY <1>1, <1>2, <1>3, Zenon DEF CopyRequest, CopiedFiles
<1>5. request.error = "none" => IsData(request.writes)
  BY <1>3, CopyAsks, Zenon
<1> HIDE DEF missing
<1>6. IsOutcome(request, writes, extra)
  <2>1. CASE request = Fails("NotFound")
    BY <2>1 DEF Fails, IsOutcome
  <2>2. CASE request = Fails("nothing to do") /\ DOMAIN writes = {} /\ extra = {}
    BY <2>2 DEF Fails, IsOutcome
  <2>3. CASE request = Asks(writes, SetToSeq(extra))
    <3>1. PICK r : r = SetToSeq(extra)
      OBVIOUS
    <3>2. request.error = "none" /\ request.writes = writes /\ request.removes = r
      BY <2>3, <3>1, AsksFor
    <3>3. QED
      BY <1>5, <3>1, <3>2 DEF IsOutcome
  <2>4. QED
    BY <1>4, <2>1, <2>2, <2>3, Zenon
<1>7. QED
  BY <1>1, <1>2, <1>3, <1>6

(* The invariant, for one copy.                                            *)
LEMMA OneCopyIdentical ==
    ASSUME IsTree(tree), NEW d \in Dirs, NEW dest \in Dirs, NEW writes, NEW request,
           IsCopyOf(writes, d, dest), IsOutcome(request, writes, ExtraFiles(dest, writes)),
           request.error # "NotFound", Fits(request)
    PROVE  IsIdentical(Result(request), d, dest)
<1>1. PICK extra : extra = WalkTree(tree, dest) \ DOMAIN writes
  OBVIOUS
<1>2. IsOutcome(request, writes, extra)
  BY <1>1, ExtraIs
<1>3. Delivers(Result(request), writes, dest)
  <2>1. CASE request.error = "nothing to do"
    <3>1. Result(request) = tree
      BY <2>1 DEF Result
    <3>2. DOMAIN writes = {} /\ WalkTree(tree, dest) = {}
      BY <1>1, <1>2, <2>1 DEF IsOutcome
    <3>3. QED
      BY <3>1, <3>2 DEF Delivers
  <2>2. CASE request.error = "none"
    <3>1. PICK removes : removes = SetToSeq(extra)
      OBVIOUS
    <3>2. request.writes = writes /\ request.removes = removes /\ IsData(writes)
      BY <1>2, <2>2, <3>1 DEF IsOutcome
    <3>3. IsWrites(writes)
      BY <3>2 DEF IsData, IsWrites, Fits, Dirs
    <3>4. extra \subseteq Path
      BY <1>1 DEF WalkTree, Files
    <3>5. IsFiniteSet(extra)
      BY <3>4, PathFinite, FS_Subset
    <3>6. removes \in Seq(extra) /\ ToSet(removes) = extra
      BY <3>1, <3>5, InSomeOrder
    <3>7. IsRemoves(removes)
      <4>1. extra \subseteq Dirs
        BY <3>4 DEF Dirs
      <4>2. QED
        BY <3>6, <4>1 DEF IsRemoves
    <3>8. Result(request) = RebuildTree(tree, writes, removes)
      BY <2>2, <3>2 DEF Result
    <3>9. QED
      BY <1>1, <3>3, <3>6, <3>7, <3>8, CopyResult
  <2>3. QED
    BY <1>2, <2>1, <2>2 DEF IsOutcome
<1>4. QED
  BY <1>3, CopiedNames

(* copy_from_ref with delete_extra, of a directory's contents, makes the   *)
(* files below the destination those of the source, for any two trees, and *)
(* leaves files elsewhere as they were (fs.cpp, copy_from_ref).            *)
THEOREM CopiesMakeIdentical == Spec => []CopyMakesIdentical
<1>1. FsInv => CopyMakesIdentical
  <2>1. ASSUME FsInv, NEW s \in Copies, NEW dest \in Arg,
               Len(s) = 1, s[1].contents \/ s[1].path = Root,
               Lookup(SourceTree, s[1].path) = DirEntry,
               CopyRequest(s, dest, TRUE).error # "NotFound", Fits(CopyRequest(s, dest, TRUE))
        PROVE  IsIdentical(Result(CopyRequest(s, dest, TRUE)), s[1].path, dest)
    <3>1. IsTree(tree) /\ dest \in Dirs
      BY <2>1, SetsAre, ArgAssumption DEF FsInv, Dirs
    <3>2. PICK c : c = s[1]
      OBVIOUS
    <3>3. PICK d : d = c.path
      OBVIOUS
    <3>4. c.contents \/ d = Root
      BY <2>1, <3>2, <3>3, Zenon
    <3>5. Lookup(SourceTree, d) = DirEntry
      BY <2>1, <3>2, <3>3
    <3>6. d \in Dirs /\ IsCopyOf(CopiedFiles(s, dest), d, dest)
      BY <2>1, <3>1, <3>2, <3>3, <3>4, <3>5, OneCopyWrites, Zenon
    <3>7. IsOutcome(CopyRequest(s, dest, TRUE), CopiedFiles(s, dest),
                    ExtraFiles(dest, CopiedFiles(s, dest)))
      BY <3>1, CopyOutcomes
    <3>8. IsIdentical(Result(CopyRequest(s, dest, TRUE)), d, dest)
      BY <2>1, <3>1, <3>6, <3>7, OneCopyIdentical
    <3>9. QED
      BY <3>2, <3>3, <3>8
  <2>2. QED
    BY <2>1, Zenon DEF CopyMakesIdentical, IsIdentical, NamesIn, Rest
<1>2. QED
  BY <1>1, InitFsInv, NextFsInv, PTL DEF Spec

-----------------------------------------------------------------------------
(* What a batch does to the files.                                         *)

(* The fold of BatchActsInTurn, from subsets of the calls to trees.        *)
IsFold(f, base, calls) ==
    f = [s \in SUBSET DOMAIN calls |->
           IF s = {} THEN base
           ELSE RebuildTree(f[s \ {Max(s)}], calls[Max(s)].writes, calls[Max(s)].removes)]

AllInTurn(base, calls) == (CHOOSE f : IsFold(f, base, calls))[DOMAIN calls]

TouchedBy(calls) == UNION {DOMAIN c.writes \cup ToSet(c.removes) : c \in ToSet(calls)}

(* The property in these terms.                                            *)
LEMMA BatchActsMeans ==
    BatchActsInTurn <=>
        (~Nested(TouchedBy(batch.calls)) =>
            Contents(RebuildTree(batch.base, batch.writes, batch.removes))
               = Contents(AllInTurn(batch.base, batch.calls)))
BY Zenon DEF BatchActsInTurn, AllInTurn, TouchedBy, FoldLeft, MapThenFoldSet, IsFold

(* The greatest of some numbers.                                           *)
LEMMA MaxIs ==
    ASSUME NEW n \in Nat, NEW s \in SUBSET (1 .. n), s # {}
    PROVE  Max(s) \in s /\ \A j \in s : j <= Max(s)
<1>1. s \subseteq 0 .. n /\ s \subseteq Nat
  OBVIOUS
<1>2. \E i \in s : \A j \in s : i >= j
  <2>1. PICK i \in s : \A j \in s : j <= i
    BY <1>1, GreatestNumber
  <2>2. QED
    BY <1>1, <2>1
<1>3. Max(s) \in s /\ \A j \in s : Max(s) >= j
  BY <1>2 DEF Max
<1>4. QED
  BY <1>1, <1>3

(* The fold is defined.                                                    *)
LEMMA FoldExists ==
    ASSUME NEW base \in Trees, NEW calls \in Seq(Call)
    PROVE  \E f : IsFold(f, base, calls)
<1>1. PICK n \in Nat : DOMAIN calls = 1 .. n /\ \A i \in 1 .. n : calls[i] \in Call
  OBVIOUS
<1> DEFINE D == SUBSET (1 .. n)
           call(i, t) == RebuildTree(t, calls[i].writes, calls[i].removes)
           next(s, g) == IF s = {} THEN base ELSE call(Max(s), g[s \ {Max(s)}])
           S == [D -> Trees]
           first == [s \in D |-> base]
           prev == [i \in 1 .. n |-> i - 1]
           step == [i \in 1 .. n |-> [g \in S |-> [s \in D |-> next(s, g)]]]
<1>2. \A i \in 1 .. n : \A t \in Trees : call(i, t) \in Trees
  BY <1>1, RebuildIn DEF Call
<1> HIDE DEF call
<1>3. ASSUME NEW s \in D, s # {}
      PROVE  /\ Max(s) \in s /\ Max(s) \in 1 .. n /\ s \ {Max(s)} \in D
             /\ Cardinality(s) \in 1 .. n /\ Cardinality(s \ {Max(s)}) = Cardinality(s) - 1
  <2>1. Max(s) \in s
    BY <1>3, MaxIs
  <2>2. IsFiniteSet(1 .. n) /\ Cardinality(1 .. n) = n
    <3>1. 1 \in Int /\ n \in Int
      OBVIOUS
    <3>2. QED
      BY <3>1, FS_Interval
  <2>3. IsFiniteSet(s) /\ Cardinality(s) <= n /\ Cardinality(s) \in Nat
    BY <2>2, FS_Subset, FS_CardinalityType
  <2>4. Cardinality(s) # 0
    BY <1>3, <2>3, FS_EmptySet
  <2>5. Cardinality(s \ {Max(s)}) = Cardinality(s) - 1
    BY <2>1, <2>3, FS_RemoveElement
  <2>6. Cardinality(s) \in 1 .. n
    BY <2>3, <2>4
  <2>7. Max(s) \in 1 .. n /\ s \ {Max(s)} \in D
    BY <2>1
  <2>8. QED
    BY <2>1, <2>5, <2>6, <2>7
<1>4. \A s \in D : \A g \in S : next(s, g) \in Trees
  <2>1. ASSUME NEW s \in D, NEW g \in S, s # {} PROVE next(s, g) \in Trees
    <3>1. g[s \ {Max(s)}] \in Trees /\ Max(s) \in 1 .. n
      BY <1>3, <2>1
    <3>2. QED
      BY <1>2, <2>1, <3>1
  <2>2. QED
    BY <2>1
<1> HIDE DEF next
<1>5. first \in S
  OBVIOUS
<1>6. step \in [1 .. n -> [S -> S]]
  BY <1>4
<1>7. prev \in [1 .. n -> Nat] /\ \A i \in 1 .. n : prev[i] < i /\ prev[i] = i - 1
  OBVIOUS
<1>8. \A i \in 1 .. n : \A g \in S : \A s \in D : step[i][g][s] = next(s, g)
  OBVIOUS
<1> HIDE DEF first, prev, step
<1>9. PICK g : Solves(g, n, S, first, prev, step)
  BY <1>5, <1>6, <1>7, Recursion DEF IsRecursion
<1> DEFINE f == [s \in D |-> g[Cardinality(s)][s]]
<1>10. ASSUME NEW s \in D PROVE f[s] = next(s, f)
  <2>1. CASE s = {}
    <3>1. f[s] = first[s]
      BY <1>9, <2>1, FS_EmptySet DEF Solves
    <3>2. QED
      BY <2>1, <3>1 DEF next, first
  <2>2. CASE s # {}
    <3>1. PICK k \in 1 .. n : k = Cardinality(s)
      BY <1>3, <2>2
    <3>2. PICK t \in D : t = s \ {Max(s)}
      BY <1>3, <2>2
    <3>3. Cardinality(t) = k - 1
      BY <1>3, <2>2, <3>1, <3>2
    <3>4. g[k] = step[k][g[k - 1]] /\ g[k - 1] \in S
      <4> HIDE DEF S
      <4>1. g \in [0 .. n -> S] /\ \A i \in 1 .. n : g[i] = step[i][g[prev[i]]]
        BY <1>9 DEF Solves
      <4>2. prev[k] = k - 1 /\ k - 1 \in 0 .. n
        BY <1>7
      <4>3. QED
        BY <4>1, <4>2
    <3>5. f[s] = next(s, g[k - 1])
      BY <1>8, <3>1, <3>4
    <3>6. f[t] = g[k - 1][t]
      BY <3>3
    <3> HIDE DEF f
    <3>7. next(s, g[k - 1]) = next(s, f)
      BY <3>2, <3>6, Zenon DEF next
    <3>8. QED
      BY <3>5, <3>7
  <2>3. QED
    BY <2>1, <2>2
<1>11. f = [s \in D |-> next(s, f)]
  BY <1>10, Zenon
<1>12. DOMAIN calls = 1 .. n
  BY <1>1
<1> HIDE DEF f
<1>13. IsFold(f, base, calls)
  BY <1>11, <1>12, Zenon DEF IsFold, next, call
<1>14. QED
  BY <1>13

(* The trees between the calls, the first k of them made.                  *)
IsRun(run, base, calls) ==
    /\ run \in [0 .. Len(calls) -> Trees] /\ run[0] = base
    /\ \A k \in 1 .. Len(calls) :
          run[k] = RebuildTree(run[k - 1], calls[k].writes, calls[k].removes)

(* The last one is what the fold gives.                                    *)
LEMMA FoldRuns ==
    ASSUME NEW base \in Trees, NEW calls \in Seq(Call)
    PROVE  \E run : IsRun(run, base, calls) /\ run[Len(calls)] = AllInTurn(base, calls)
<1>1. PICK n \in Nat : n = Len(calls) /\ DOMAIN calls = 1 .. n /\ \A i \in 1 .. n : calls[i] \in Call
  OBVIOUS
<1>2. PICK f : f = CHOOSE h : IsFold(h, base, calls)
  OBVIOUS
<1>3. IsFold(f, base, calls)
  BY <1>2, FoldExists, Zenon
<1>4. AllInTurn(base, calls) = f[1 .. n]
  BY <1>1, <1>2 DEF AllInTurn
<1> DEFINE D == SUBSET (1 .. n)
           call(i, t) == RebuildTree(t, calls[i].writes, calls[i].removes)
<1>5. \A s \in D : f[s] = IF s = {} THEN base ELSE call(Max(s), f[s \ {Max(s)}])
  BY <1>1, <1>3, Zenon DEF IsFold
<1>6. \A i \in 1 .. n : \A t \in Trees : call(i, t) \in Trees
  BY <1>1, RebuildIn DEF Call
<1> HIDE DEF call
<1>7. ASSUME NEW k \in 1 .. n PROVE f[1 .. k] = call(k, f[1 .. k - 1])
  <2>1. PICK s : s = 1 .. k
    OBVIOUS
  <2>2. s \in D /\ s # {} /\ k \in s /\ (\A j \in s : j <= k) /\ s \ {k} = 1 .. k - 1
    <3>1. k \in s /\ \A j \in s : j <= k /\ j \in 1 .. n
      BY <2>1
    <3>2. \A j : j \in 1 .. k /\ j # k <=> j \in 1 .. k - 1
      OBVIOUS
    <3>3. s \ {k} = 1 .. k - 1
      BY <2>1, <3>2
    <3>4. QED
      BY <3>1, <3>3
  <2>3. Max(s) = k
    <3>1. Max(s) \in s /\ k <= Max(s)
      BY <2>2, MaxIs
    <3>2. Max(s) <= k /\ Max(s) \in Nat
      BY <2>1, <2>2, <3>1
    <3>3. QED
      BY <3>1, <3>2
  <2>4. f[s] = call(k, f[s \ {k}])
    BY <1>5, <2>2, <2>3
  <2>5. QED
    BY <2>1, <2>2, <2>4
<1>8. f[1 .. 0] = base
  <2>1. 1 .. 0 = {} /\ {} \in D
    OBVIOUS
  <2>2. QED
    BY <1>5, <2>1
<1> DEFINE run == [k \in 0 .. n |-> f[1 .. k]]
           T == {k \in 0 .. n : f[1 .. k] \in Trees}
<1>9. 0 \in T
  BY <1>8
<1>10. ASSUME NEW k \in 0 .. n, k < n, k \in T PROVE k + 1 \in T
  <2>1. k + 1 \in 1 .. n /\ (k + 1) - 1 = k
    BY <1>10
  <2>2. f[1 .. k + 1] = call(k + 1, f[1 .. k])
    BY <1>7, <2>1
  <2>3. QED
    BY <1>6, <1>10, <2>1, <2>2
<1>11. 0 .. n \subseteq T
  <2> HIDE DEF T
  <2>1. QED
    BY <1>9, <1>10, InductionUpTo
<1>12. run \in [0 .. n -> Trees] /\ run[0] = base
  BY <1>8, <1>11
<1>13. ASSUME NEW k \in 1 .. n PROVE run[k] = call(k, run[k - 1])
  BY <1>7
<1> HIDE DEF run
<1>14. IsRun(run, base, calls)
  BY <1>1, <1>12, <1>13 DEF IsRun, call
<1>15. run[Len(calls)] = AllInTurn(base, calls)
  BY <1>1, <1>4 DEF run
<1>16. QED
  BY <1>14, <1>15

(* The calls before the last, and then the last.                           *)
LEMMA OneMoreCall ==
    ASSUME NEW base \in Trees, NEW calls \in Seq(Call), NEW c \in Call
    PROVE  /\ AllInTurn(base, calls) \in Trees
           /\ AllInTurn(base, Append(calls, c))
                 = RebuildTree(AllInTurn(base, calls), c.writes, c.removes)
<1>1. PICK n \in Nat : n = Len(calls)
  OBVIOUS
<1>2. PICK more \in Seq(Call) : more = Append(calls, c)
  BY AppendProperties
<1>3. Len(more) = n + 1 /\ more[n + 1] = c /\ \A i \in 1 .. n : more[i] = calls[i]
  BY <1>1, <1>2, AppendProperties
<1>4. PICK run : IsRun(run, base, calls) /\ run[n] = AllInTurn(base, calls)
  BY <1>1, FoldRuns
<1>5. PICK longer : IsRun(longer, base, more) /\ longer[n + 1] = AllInTurn(base, more)
  BY <1>3, FoldRuns
<1>6. /\ run[0] = base /\ run \in [0 .. n -> Trees]
      /\ \A k \in 1 .. n : run[k] = RebuildTree(run[k - 1], calls[k].writes, calls[k].removes)
  BY <1>1, <1>4 DEF IsRun
<1>7. /\ longer[0] = base
      /\ \A k \in 1 .. n + 1 :
            longer[k] = RebuildTree(longer[k - 1], more[k].writes, more[k].removes)
  BY <1>3, <1>5 DEF IsRun
<1> DEFINE T == {k \in 0 .. n : run[k] = longer[k]}
<1>8. 0 \in T
  BY <1>6, <1>7
<1>9. ASSUME NEW k \in 0 .. n, k < n, k \in T PROVE k + 1 \in T
  <2>1. k + 1 \in 1 .. n /\ k + 1 \in 1 .. n + 1 /\ (k + 1) - 1 = k
    BY <1>9
  <2>2. run[k + 1] = RebuildTree(run[k], calls[k + 1].writes, calls[k + 1].removes)
    BY <1>6, <2>1
  <2>3. longer[k + 1] = RebuildTree(longer[k], calls[k + 1].writes, calls[k + 1].removes)
    BY <1>3, <1>7, <2>1
  <2>4. QED
    BY <1>9, <2>1, <2>2, <2>3
<1>10. n \in T
  <2> HIDE DEF T
  <2>1. 0 .. n \subseteq T
    BY <1>8, <1>9, InductionUpTo
  <2>2. QED
    BY <2>1
<1>11. longer[n + 1] = RebuildTree(longer[n], c.writes, c.removes)
  <2>1. n + 1 \in 1 .. n + 1 /\ (n + 1) - 1 = n
    OBVIOUS
  <2>2. QED
    BY <1>3, <1>7, <2>1
<1>12. QED
  BY <1>2, <1>4, <1>5, <1>6, <1>10, <1>11

(* No calls.                                                               *)
LEMMA NoCalls == ASSUME NEW base \in Trees PROVE AllInTurn(base, <<>>) = base
<1>1. <<>> \in Seq(Call) /\ Len(<<>>) = 0
  OBVIOUS
<1>2. PICK run : IsRun(run, base, <<>>) /\ run[0] = AllInTurn(base, <<>>)
  BY <1>1, FoldRuns
<1>3. QED
  BY <1>2 DEF IsRun

(* A change, and then a write: the write joins the writes of the change.   *)
LEMMA ThenWrite ==
    ASSUME NEW contents, DOMAIN contents \subseteq Path, NEW writes, DOMAIN writes \subseteq Path,
           NEW removes, removes \subseteq Path, NEW p \in Path, NEW d,
           ~Nested(DOMAIN writes \cup removes \cup {p}), DOMAIN writes \cap removes = {},
           NEW one, one = OneWrite(p, d), NEW all, all = Over(one, Without(writes, p))
    PROVE  Changed(Changed(contents, writes, removes), one, {})
              = Changed(contents, all, removes \ {p})
<1>1. DOMAIN one = {p} /\ one[p] = d
  BY DEF OneWrite
<1>2. /\ DOMAIN all = DOMAIN writes \cup {p} /\ all[p] = d
      /\ \A q \in DOMAIN writes : q # p => all[q] = writes[q]
  BY <1>1 DEF Over, Without
<1> DEFINE M == DOMAIN writes \cup removes
<1>3. PICK mid : mid = Changed(contents, writes, removes)
  OBVIOUS
<1>4. /\ DOMAIN mid = Clear(contents, M) \cup DOMAIN writes
      /\ \A x \in DOMAIN mid : mid[x] = IF x \in DOMAIN writes THEN writes[x] ELSE contents[x]
  <2>1. mid = Replaced(contents, writes, M)
    BY <1>3, ChangedIs
  <2>2. QED
    BY <2>1 DEF Replaced
<1>5. DOMAIN mid \subseteq Path
  BY <1>4 DEF Clear
<1>6. Changed(mid, one, {}) = Replaced(mid, one, {p})
  <2>1. DOMAIN one \cup {} = {p} /\ {} \subseteq Path /\ DOMAIN one \subseteq Path
    BY <1>1
  <2>2. Changed(mid, one, {}) = Replaced(mid, one, DOMAIN one \cup {})
    BY <1>5, <2>1, ChangedIs
  <2>3. QED
    BY <2>1, <2>2
<1>7. Changed(contents, all, removes \ {p}) = Replaced(contents, all, M \cup {p})
  <2>1. DOMAIN all \subseteq Path /\ removes \ {p} \subseteq Path
        /\ DOMAIN all \cup (removes \ {p}) = M \cup {p}
    BY <1>2
  <2>2. Changed(contents, all, removes \ {p})
          = Replaced(contents, all, DOMAIN all \cup (removes \ {p}))
    BY <2>1, ChangedIs
  <2>3. QED
    BY <2>1, <2>2
<1>8. \A q \in DOMAIN writes : q # p => ~InTheWay(p, q)
  <2>1. DOMAIN writes \cup removes \cup {p} \subseteq Path
    OBVIOUS
  <2>2. QED
    BY <2>1, ApartPaths
<1>9. Clear(mid, {p}) \cup {p} = Clear(contents, M \cup {p}) \cup DOMAIN all
  <2>1. Clear(mid, {p}) = {x \in Clear(contents, M) \cup DOMAIN writes : ~InTheWay(p, x)}
    BY <1>4 DEF Clear
  <2>2. Clear(contents, M \cup {p}) = {x \in Clear(contents, M) : ~InTheWay(p, x)}
    BY DEF Clear
  <2>3. QED
    BY <1>2, <1>8, <2>1, <2>2
<1>10. ASSUME NEW x \in Clear(mid, {p}) \cup {p}
       PROVE  (IF x \in DOMAIN one THEN one[x] ELSE mid[x])
                 = IF x \in DOMAIN all THEN all[x] ELSE contents[x]
  <2>1. x # p => x \in DOMAIN mid
    BY <1>10 DEF Clear
  <2>2. QED
    BY <1>1, <1>2, <1>4, <2>1
<1>11. Replaced(mid, one, {p}) = Replaced(contents, all, M \cup {p})
  <2>1. Clear(mid, {p}) \cup DOMAIN one = Clear(contents, M \cup {p}) \cup DOMAIN all
    BY <1>1, <1>9
  <2>2. QED
    BY <1>1, <1>10, <2>1 DEF Replaced
<1>12. QED
  BY <1>3, <1>6, <1>7, <1>11

(* A change, and then a remove: the path leaves the writes of the change   *)
(* and joins its removes.                                                  *)
LEMMA ThenRemove ==
    ASSUME NEW contents, DOMAIN contents \subseteq Path, NEW writes, DOMAIN writes \subseteq Path,
           NEW removes, removes \subseteq Path, NEW p \in Path,
           ~Nested(DOMAIN writes \cup removes \cup {p}),
           NEW others, others = Without(writes, p)
    PROVE  Changed(Changed(contents, writes, removes), <<>>, {p})
              = Changed(contents, others, removes \cup {p})
<1>1. DOMAIN others = DOMAIN writes \ {p} /\ \A q \in DOMAIN others : others[q] = writes[q]
  BY DEF Without
<1> DEFINE M == DOMAIN writes \cup removes
<1>2. PICK none : none = <<>> /\ DOMAIN none = {}
  BY NoWriteIs
<1>3. PICK mid : mid = Changed(contents, writes, removes)
  OBVIOUS
<1>4. /\ DOMAIN mid = Clear(contents, M) \cup DOMAIN writes
      /\ \A x \in DOMAIN mid : mid[x] = IF x \in DOMAIN writes THEN writes[x] ELSE contents[x]
  <2>1. mid = Replaced(contents, writes, M)
    BY <1>3, ChangedIs
  <2>2. QED
    BY <2>1 DEF Replaced
<1>5. DOMAIN mid \subseteq Path
  BY <1>4 DEF Clear
<1>6. Changed(mid, none, {p}) = Replaced(mid, none, {p})
  <2>1. DOMAIN none \cup {p} = {p} /\ {p} \subseteq Path /\ DOMAIN none \subseteq Path
    BY <1>2
  <2>2. Changed(mid, none, {p}) = Replaced(mid, none, DOMAIN none \cup {p})
    BY <1>5, <2>1, ChangedIs
  <2>3. QED
    BY <2>1, <2>2
<1>7. Changed(contents, others, removes \cup {p}) = Replaced(contents, others, M \cup {p})
  <2>1. DOMAIN others \subseteq Path /\ removes \cup {p} \subseteq Path
        /\ DOMAIN others \cup (removes \cup {p}) = M \cup {p}
    BY <1>1
  <2>2. Changed(contents, others, removes \cup {p})
          = Replaced(contents, others, DOMAIN others \cup (removes \cup {p}))
    BY <2>1, ChangedIs
  <2>3. QED
    BY <2>1, <2>2
<1>8. (\A q \in DOMAIN writes : q # p => ~InTheWay(p, q)) /\ InTheWay(p, p)
  <2>1. DOMAIN writes \cup removes \cup {p} \subseteq Path
    OBVIOUS
  <2>2. QED
    BY <2>1, ApartPaths, OwnWay
<1>9. Clear(mid, {p}) = Clear(contents, M \cup {p}) \cup DOMAIN others
  <2>1. Clear(mid, {p}) = {x \in Clear(contents, M) \cup DOMAIN writes : ~InTheWay(p, x)}
    BY <1>4 DEF Clear
  <2>2. Clear(contents, M \cup {p}) = {x \in Clear(contents, M) : ~InTheWay(p, x)}
    BY DEF Clear
  <2>3. QED
    BY <1>1, <1>8, <2>1, <2>2
<1>10. ASSUME NEW x \in Clear(mid, {p})
       PROVE  mid[x] = IF x \in DOMAIN others THEN others[x] ELSE contents[x]
  <2>1. x \in DOMAIN mid /\ x # p
    BY <1>8, <1>10 DEF Clear
  <2>2. QED
    BY <1>1, <1>4, <2>1
<1>11. Replaced(mid, none, {p}) = Replaced(contents, others, M \cup {p})
  BY <1>2, <1>9, <1>10 DEF Replaced
<1>12. QED
  BY <1>2, <1>3, <1>6, <1>7, <1>11

(* A change of nothing, or of the root only, which rebuild_tree skips.     *)
LEMMA RebuildNothing ==
    ASSUME NEW base, IsTree(base), NEW writes, IsWrites(writes), NEW removes, IsRemoves(removes),
           DOMAIN writes \cup ToSet(removes) \subseteq {Root}
    PROVE  Contents(RebuildTree(base, writes, removes)) = Contents(base)
<1>1. PICK result : result = RebuildTree(base, writes, removes)
  OBVIOUS
<1>2. \A p \in Files(base) : result[p] = base[p]
  BY <1>1, RebuildSpares DEF IsWrites
<1>3. Files(result) \subseteq Files(base)
  <2>1. \A p \in Files(result) : p \in Path /\ p # Root
    BY DirFacts DEF Files
  <2>2. QED
    BY <1>1, <2>1, RebuildTakes
<1>4. Files(base) \subseteq Files(result)
  BY <1>2 DEF Files
<1>5. QED
  BY <1>1, <1>2, <1>3, <1>4, SameContents

(* A batch's writes and removes sum up its calls so far.  The root, which  *)
(* contains every path, is touched alone or not at all when paths are not  *)
(* nested.                                                                 *)
SumsUp(b) ==
    /\ TouchedBy(b.calls) = DOMAIN b.writes \cup ToSet(b.removes)
    /\ ~Nested(TouchedBy(b.calls)) =>
          Contents(AllInTurn(b.base, b.calls))
             = IF Root \in TouchedBy(b.calls) THEN Contents(b.base)
               ELSE Changed(Contents(b.base), b.writes, ToSet(b.removes))

(* What one more call touches.                                             *)
LEMMA TouchedAfter ==
    ASSUME NEW calls \in Seq(Call), NEW c \in Call
    PROVE  TouchedBy(Append(calls, c)) = TouchedBy(calls) \cup DOMAIN c.writes \cup ToSet(c.removes)
<1>1. ToSet(Append(calls, c)) = ToSet(calls) \cup {c}
  BY AppendSet
<1>2. QED
  BY <1>1 DEF TouchedBy

(* With the root touched, nothing else is.                                 *)
LEMMA RootAlone ==
    ASSUME NEW paths, paths \subseteq Dirs, ~Nested(paths), Root \in paths
    PROVE  paths = {Root}
<1>1. ASSUME NEW p \in paths PROVE p = Root
  <2>1. p \in Seq(Name) /\ Root \in Seq(Name) /\ IsPrefix(Root, p) /\ ~IsStrictPrefix(Root, p)
    BY <1>1, DirFacts, PathsAre DEF Nested
  <2>2. QED
    BY <2>1, PrefixOrder
<1>2. QED
  BY <1>1

(* After one more call the sum is right if it makes the same of the        *)
(* contents as the call.                                                   *)
LEMMA SumsUpAfter ==
    ASSUME NEW b \in Batches, SumsUp(b), NEW c \in Call, NEW p \in Dirs,
           DOMAIN c.writes \cup ToSet(c.removes) = {p},
           NEW a \in Batches, a.base = b.base, a.calls = Append(b.calls, c),
           DOMAIN a.writes \cup ToSet(a.removes) = DOMAIN b.writes \cup ToSet(b.removes) \cup {p},
           ASSUME p # Root, Root \notin DOMAIN b.writes \cup ToSet(b.removes),
                  ~Nested(DOMAIN b.writes \cup ToSet(b.removes) \cup {p})
           PROVE  Changed(Changed(Contents(b.base), b.writes, ToSet(b.removes)),
                          c.writes, ToSet(c.removes))
                     = Changed(Contents(b.base), a.writes, ToSet(a.removes))
    PROVE  SumsUp(a)
<1>1. PICK base \in Trees, calls \in Seq(Call) : base = b.base /\ calls = b.calls
  BY DEF Batches
<1>2. PICK U : U = DOMAIN b.writes \cup ToSet(b.removes)
  OBVIOUS
<1>3. PICK V : V = DOMAIN a.writes \cup ToSet(a.removes) /\ V = U \cup {p}
  BY <1>2
<1>4. TouchedBy(calls) = U /\ TouchedBy(a.calls) = V
  <2>1. TouchedBy(calls) = U
    BY <1>1, <1>2 DEF SumsUp
  <2>2. TouchedBy(Append(calls, c)) = TouchedBy(calls) \cup DOMAIN c.writes \cup ToSet(c.removes)
    BY TouchedAfter
  <2>3. TouchedBy(Append(calls, c)) = U \cup {p}
    BY <2>1, <2>2
  <2>4. QED
    BY <1>1, <1>3, <2>1, <2>3
<1>5. PICK t : t = AllInTurn(base, calls)
  OBVIOUS
<1>6. /\ t \in Trees
      /\ AllInTurn(base, a.calls) = RebuildTree(t, c.writes, c.removes)
  BY <1>1, <1>5, OneMoreCall
<1>7. IsTree(t) /\ IsTree(base) /\ IsWrites(c.writes) /\ IsRemoves(c.removes)
      /\ IsWrites(b.writes) /\ IsRemoves(b.removes)
  BY <1>6, SetsAre DEF Call, IsRemoves, Batches
<1>8. U \subseteq Dirs /\ V \subseteq Dirs
  BY <1>2, <1>3, <1>7, InList DEF IsWrites, IsRemoves
<1>9. ASSUME ~Nested(V), Root \in V
      PROVE  Contents(AllInTurn(base, a.calls)) = Contents(base)
  <2>1. V = {Root} /\ U \subseteq {Root} /\ p = Root /\ ~Nested(U)
    BY <1>3, <1>8, <1>9, RootAlone, NestedFewer
  <2>2. Contents(t) = Contents(base)
    <3>1. CASE Root \in U
      BY <1>1, <1>4, <1>5, <2>1, <3>1 DEF SumsUp
    <3>2. CASE Root \notin U
      <4>1. DOMAIN b.writes = {} /\ ToSet(b.removes) = {}
        BY <1>2, <2>1, <3>2
      <4>2. Contents(t) = Changed(Contents(base), b.writes, {})
        BY <1>1, <1>4, <1>5, <2>1, <3>2, <4>1 DEF SumsUp
      <4>3. QED
        BY <4>1, <4>2, ChangedNothing
    <3>3. QED
      BY <3>1, <3>2
  <2>3. Contents(RebuildTree(t, c.writes, c.removes)) = Contents(t)
    BY <1>7, <2>1, RebuildNothing
  <2>4. QED
    BY <1>6, <2>2, <2>3
<1>10. ASSUME ~Nested(V), Root \notin V
       PROVE  Contents(AllInTurn(base, a.calls))
                 = Changed(Contents(base), a.writes, ToSet(a.removes))
  <2>1. ~Nested(U) /\ Root \notin U /\ p # Root
    BY <1>3, <1>10, NestedFewer
  <2>2. Contents(t) = Changed(Contents(base), b.writes, ToSet(b.removes))
    BY <1>1, <1>4, <1>5, <2>1 DEF SumsUp
  <2>3. Root \notin DOMAIN c.writes /\ ~Nested(Mentioned(c.writes, c.removes))
        /\ ToSet(c.removes) \ {Root} = ToSet(c.removes)
    <3>1. Mentioned(c.writes, c.removes) \subseteq V
      BY <1>3 DEF Mentioned
    <3>2. QED
      BY <1>10, <2>1, <3>1, NestedFewer
  <2>4. Contents(RebuildTree(t, c.writes, c.removes))
          = Changed(Contents(t), c.writes, ToSet(c.removes) \ {Root})
    BY <1>7, <2>3, RebuildChanges
  <2>5. Changed(Changed(Contents(base), b.writes, ToSet(b.removes)), c.writes, ToSet(c.removes))
           = Changed(Contents(base), a.writes, ToSet(a.removes))
    BY <1>1, <1>2, <1>3, <1>10, <2>1
  <2>6. QED
    BY <1>6, <2>2, <2>3, <2>4, <2>5
<1>11. QED
  BY <1>1, <1>3, <1>4, <1>9, <1>10 DEF SumsUp

(* Staging a write.                                                        *)
LEMMA StagedSumsUp ==
    ASSUME FsInv, SumsUp(batch), NEW p \in Dirs, NEW d \in Data
    PROVE  SumsUp(Staged(p, d))
<1>1. PICK a, b, c : a = Staged(p, d) /\ b = batch /\ c = WriteCall(p, d)
  OBVIOUS
<1>2. /\ a \in Batches /\ a.base = b.base
      /\ DOMAIN a.writes = DOMAIN b.writes \cup {p}
      /\ ToSet(a.removes) = ToSet(b.removes) \ {p}
      /\ a.writes = Over(OneWrite(p, d), Without(b.writes, p))
      /\ a.calls = Append(b.calls, c)
  BY <1>1, StagedIs
<1>3. b \in Batches /\ SumsUp(b) /\ DOMAIN b.writes \cap ToSet(b.removes) = {}
  BY <1>1 DEF FsInv
<1>4. c \in Call /\ c.writes = OneWrite(p, d) /\ c.removes = <<>>
  BY <1>1, OneWriteIn DEF Call, WriteCall
<1>5. ToSet(<<>>) = {} /\ DOMAIN OneWrite(p, d) = {p}
  <2>1. ToSet(<<>>) = {}
    BY DEF ToSet
  <2>2. DOMAIN OneWrite(p, d) = {p}
    BY OneWriteIs
  <2>. QED
    BY <2>1, <2>2
<1>6. IsWrites(b.writes) /\ IsRemoves(b.removes)
  BY <1>3, SetsAre DEF Batches, IsRemoves
<1>7. ASSUME p # Root, Root \notin DOMAIN b.writes \cup ToSet(b.removes),
             ~Nested(DOMAIN b.writes \cup ToSet(b.removes) \cup {p})
      PROVE  Changed(Changed(Contents(b.base), b.writes, ToSet(b.removes)),
                     c.writes, ToSet(c.removes))
                = Changed(Contents(b.base), a.writes, ToSet(a.removes))
  <2>1. DOMAIN b.writes \subseteq Path /\ ToSet(b.removes) \subseteq Path /\ p \in Path
    BY <1>6, <1>7, InList DEF IsWrites, IsRemoves, Dirs
  <2>2. PICK one : one = OneWrite(p, d)
    OBVIOUS
  <2>3. Changed(Changed(Contents(b.base), b.writes, ToSet(b.removes)), one, {})
          = Changed(Contents(b.base), a.writes, ToSet(b.removes) \ {p})
    BY <1>2, <1>3, <1>7, <2>1, <2>2, ContentsOn, ThenWrite
  <2>4. QED
    BY <1>2, <1>4, <1>5, <2>2, <2>3
<1>8. SumsUp(a)
  <2>1. DOMAIN c.writes \cup ToSet(c.removes) = {p}
    BY <1>4, <1>5
  <2>2. DOMAIN a.writes \cup ToSet(a.removes) = DOMAIN b.writes \cup ToSet(b.removes) \cup {p}
    BY <1>2
  <2>3. QED
    BY <1>2, <1>3, <1>4, <1>7, <2>1, <2>2, SumsUpAfter
<1>9. QED
  BY <1>1, <1>8

(* Staging a remove.                                                       *)
LEMMA RemoveSumsUp ==
    ASSUME FsInv, SumsUp(batch), NEW p \in Dirs, BatchRemove(p)
    PROVE  SumsUp(batch')
<1>1. PICK a, b, c : a = batch' /\ b = batch /\ c = RemoveCall(p)
  OBVIOUS
<1>2. /\ a \in Batches /\ a.base = b.base
      /\ DOMAIN a.writes = DOMAIN b.writes \ {p}
      /\ ToSet(a.removes) = ToSet(b.removes) \cup {p}
      /\ a.writes = Without(b.writes, p)
      /\ a.calls = Append(b.calls, c)
  BY <1>1, BatchRemoveIs
<1>3. b \in Batches /\ SumsUp(b)
  BY <1>1 DEF FsInv
<1>4. c \in Call /\ c.writes = <<>> /\ c.removes = <<p>>
  <2>1. <<>> \in Writes /\ <<p>> \in Seq(Dirs)
    BY SetsAre, NoWriteIs
  <2>2. QED
    BY <1>1, <2>1 DEF Call, RemoveCall
<1>5. ToSet(<<p>>) = {p} /\ DOMAIN <<>> = {}
  BY NoWriteIs DEF ToSet
<1>6. IsWrites(b.writes) /\ IsRemoves(b.removes)
  BY <1>3, SetsAre DEF Batches, IsRemoves
<1>7. ASSUME p # Root, Root \notin DOMAIN b.writes \cup ToSet(b.removes),
             ~Nested(DOMAIN b.writes \cup ToSet(b.removes) \cup {p})
      PROVE  Changed(Changed(Contents(b.base), b.writes, ToSet(b.removes)),
                     c.writes, ToSet(c.removes))
                = Changed(Contents(b.base), a.writes, ToSet(a.removes))
  <2>1. DOMAIN b.writes \subseteq Path /\ ToSet(b.removes) \subseteq Path /\ p \in Path
    BY <1>6, <1>7, InList DEF IsWrites, IsRemoves, Dirs
  <2>2. Changed(Changed(Contents(b.base), b.writes, ToSet(b.removes)), <<>>, {p})
          = Changed(Contents(b.base), a.writes, ToSet(b.removes) \cup {p})
    BY <1>2, <1>7, <2>1, ContentsOn, ThenRemove
  <2>3. QED
    BY <1>2, <1>4, <1>5, <2>2
<1>8. SumsUp(a)
  <2>1. DOMAIN c.writes \cup ToSet(c.removes) = {p}
    BY <1>4, <1>5
  <2>2. DOMAIN a.writes \cup ToSet(a.removes) = DOMAIN b.writes \cup ToSet(b.removes) \cup {p}
    BY <1>2
  <2>3. QED
    BY <1>2, <1>3, <1>4, <1>7, <2>1, <2>2, SumsUpAfter
<1>9. QED
  BY <1>1, <1>8

(* A batch without calls.                                                  *)
LEMMA NewSumsUp ==
    ASSUME NEW b, b.base \in Trees, b.writes = <<>>, b.removes = <<>>, b.calls = <<>>
    PROVE  SumsUp(b)
<1>1. TouchedBy(<<>>) = {} /\ DOMAIN <<>> = {} /\ ToSet(<<>>) = {}
  BY NoWriteIs DEF TouchedBy, ToSet
<1>2. AllInTurn(b.base, <<>>) = b.base
  BY NoCalls
<1>3. Changed(Contents(b.base), <<>>, {}) = Contents(b.base)
  BY <1>1, ChangedNothing
<1>4. QED
  BY <1>1, <1>2, <1>3 DEF SumsUp

(* Steps keep the sum right.                                               *)
LEMMA NextSumsUp ==
    ASSUME FsInv, SumsUp(batch), [Next]_vars
    PROVE  SumsUp(batch')
<1>1. CASE UNCHANGED batch
  BY <1>1
<1>2. Arg \subseteq Dirs
  BY ArgAssumption DEF Dirs
<1>3. CASE NewBatch
  <2>1. batch' = [closed |-> FALSE, base |-> tree, commit |-> ncommits,
                  writes |-> <<>>, removes |-> <<>>, calls |-> <<>>]
    BY <1>3 DEF NewBatch, NoBatch
  <2>2. batch'.base = tree /\ batch'.writes = <<>> /\ batch'.removes = <<>> /\ batch'.calls = <<>>
    BY <2>1
  <2>3. tree \in Trees
    BY DEF FsInv
  <2>4. QED
    BY <2>2, <2>3, NewSumsUp
<1>4. ASSUME NEW p \in Arg, NEW d \in Data, BatchWrite(p, d) PROVE SumsUp(batch')
  BY <1>2, <1>4, StagedSumsUp DEF BatchWrite
<1>5. ASSUME NEW p \in Arg, BatchRemove(p) PROVE SumsUp(batch')
  BY <1>2, <1>5, RemoveSumsUp
<1>6. ASSUME NEW d \in Data, CloseBatchWriter(d) PROVE SumsUp(batch')
  <2>1. writer.path \in Dirs
    BY DEF FsInv, Writers
  <2>2. QED
    BY <1>6, <2>1, StagedSumsUp DEF CloseBatchWriter
<1>7. CASE BatchCommit
  <2>1. /\ batch'.base = batch.base /\ batch'.calls = batch.calls
        /\ batch'.writes = batch.writes /\ batch'.removes = batch.removes
    BY <1>7 DEF BatchCommit, FsInv, Batches
  <2>2. QED
    BY <2>1 DEF SumsUp
<1>8. ASSUME NEW request, Commit(request) \/ DryRun(request) PROVE SumsUp(batch')
  BY <1>1, <1>8 DEF Commit, DryRun
<1>9. CASE BatchClosed \/ UNCHANGED vars
  BY <1>1, <1>9 DEF BatchClosed, vars
<1>10. ASSUME NEW kind, NEW p, OpenWriter(kind, p) PROVE SumsUp(batch')
  BY <1>1, <1>10 DEF OpenWriter
<1>11. ASSUME NEW p, NEW d, NEW r, Write(p, d) \/ Apply(p, d, r) PROVE SumsUp(batch')
  BY <1>8, <1>11 DEF Write, Apply
<1>12. ASSUME NEW src, NEW dest, Rename(src, dest) PROVE SumsUp(batch')
  BY <1>8, <1>12 DEF Rename
<1>13. ASSUME NEW s, NEW dest, NEW b,
              RemovePaths(s, b) \/ Move(s, dest, b) \/ CopyFromRef(s, dest, b)
       PROVE  SumsUp(batch')
  BY <1>8, <1>13, Zenon DEF RemovePaths, Move, CopyFromRef
<1>14. ASSUME NEW d \in Data, CloseFsWriter(d) PROVE SumsUp(batch')
  BY <1>1, <1>14 DEF CloseFsWriter
<1>15. QED
  BY <1>3, <1>4, <1>5, <1>6, <1>7, <1>8, <1>9, <1>10, <1>11, <1>12, <1>13, <1>14, Zenon DEF Next

(* What a batch commits is what its calls, made one by one, come to.       *)
LEMMA SumIsTotal == ASSUME FsInv, SumsUp(batch) PROVE BatchActsInTurn
<1>1. SUFFICES ASSUME ~Nested(TouchedBy(batch.calls))
               PROVE  Contents(RebuildTree(batch.base, batch.writes, batch.removes))
                         = Contents(AllInTurn(batch.base, batch.calls))
  BY BatchActsMeans
<1>2. IsTree(batch.base) /\ IsWrites(batch.writes) /\ IsRemoves(batch.removes)
  BY SetsAre DEF FsInv, Batches, IsRemoves
<1>3. PICK U : U = DOMAIN batch.writes \cup ToSet(batch.removes) /\ U = TouchedBy(batch.calls)
  BY DEF SumsUp
<1>4. U \subseteq Dirs /\ ~Nested(U)
  BY <1>1, <1>2, <1>3, InList DEF IsWrites, IsRemoves
<1>5. CASE Root \in U
  <2>1. DOMAIN batch.writes \cup ToSet(batch.removes) \subseteq {Root}
    BY <1>3, <1>4, <1>5, RootAlone
  <2>2. Contents(RebuildTree(batch.base, batch.writes, batch.removes)) = Contents(batch.base)
    BY <1>2, <2>1, RebuildNothing
  <2>3. QED
    BY <1>1, <1>3, <1>5, <2>2 DEF SumsUp
<1>6. CASE Root \notin U
  <2>1. /\ Root \notin DOMAIN batch.writes /\ ToSet(batch.removes) \ {Root} = ToSet(batch.removes)
        /\ Mentioned(batch.writes, batch.removes) = U
    BY <1>3, <1>6 DEF Mentioned
  <2>2. Contents(RebuildTree(batch.base, batch.writes, batch.removes))
          = Changed(Contents(batch.base), batch.writes, ToSet(batch.removes) \ {Root})
    BY <1>2, <1>4, <2>1, RebuildChanges
  <2>3. QED
    BY <1>1, <1>3, <1>6, <2>1, <2>2 DEF SumsUp
<1>7. QED
  BY <1>5, <1>6

(* Batch::commit makes of the files what the batch's calls, each made as a *)
(* commit of its own, would have made of them, however many calls there    *)
(* are, as long as no path of them lies inside another (batch.cpp, write   *)
(* and remove, which forget earlier calls; tree.cpp, rebuild_tree).        *)
THEOREM BatchesActInTurn == Spec => []BatchActsInTurn
<1>1. Init => FsInv /\ SumsUp(batch)
  <2> SUFFICES ASSUME Init PROVE SumsUp(batch)
    BY InitFsInv
  <2>1. batch.base \in Trees
    BY InitFsInv DEF FsInv, Batches
  <2>2. batch.writes = <<>> /\ batch.removes = <<>> /\ batch.calls = <<>>
    BY DEF Init, NoBatch
  <2>3. QED
    BY <2>1, <2>2, NewSumsUp
<1>2. FsInv /\ SumsUp(batch) /\ [Next]_vars => FsInv' /\ SumsUp(batch)'
  BY NextFsInv, NextSumsUp
<1>3. FsInv /\ SumsUp(batch) => BatchActsInTurn
  BY SumIsTotal
<1>4. QED
  BY <1>1, <1>2, <1>3, PTL DEF Spec

-----------------------------------------------------------------------------
(* Reading a range of a file.                                              *)

(* The bytes that ReadRange returns, whatever the offset and the size.     *)
LEMMA RangeIs ==
    ASSUME NEW length \in 0 .. SizeMax, NEW offset \in 0 .. SizeMax, NEW sz \in 0 .. NoSize,
           NEW range, range = ReadRange(length, offset, sz)
    PROVE  range.start .. range.end - 1 =
             {i \in 0 .. length - 1 : i >= offset /\ (sz = NoSize \/ i < offset + sz)}
<1> DEFINE start == MinOf(offset, length)
           sum == IF start <= SizeMax - sz THEN (start + sz) % (SizeMax + 1) ELSE SizeMax
           end == IF sz = NoSize THEN length ELSE MinOf(sum, length)
<1>1. SizeMax \in Nat /\ length \in Nat /\ offset \in Nat /\ sz \in Nat /\ length <= SizeMax
  BY ReadAssumption DEF NoSize
<1>2. start \in Nat /\ start <= length /\ start = IF offset <= length THEN offset ELSE length
  BY <1>1 DEF MinOf
<1> HIDE DEF start
<1>3. sum = IF start <= SizeMax - sz THEN start + sz ELSE SizeMax
  <2>1. ASSUME start <= SizeMax - sz PROVE (start + sz) % (SizeMax + 1) = start + sz
    <3>1. start + sz \in Nat /\ SizeMax + 1 \in Nat /\ start + sz < SizeMax + 1 /\ SizeMax + 1 > 0
      BY <1>1, <1>2, <2>1
    <3>2. \A a, m \in Nat : a < m => a % m = a
      OBVIOUS
    <3>3. QED
      BY <3>1, <3>2
  <2>2. QED
    BY <2>1
<1> HIDE DEF sum
<1>4. range.start = start /\ range.end = end
  BY DEF ReadRange, start, sum
<1>5. end = IF sz = NoSize THEN length ELSE IF start + sz <= length THEN start + sz ELSE length
  BY <1>1, <1>2, <1>3 DEF MinOf, NoSize
<1> HIDE DEF end
<1>6. end \in Nat
  BY <1>1, <1>2, <1>5
<1>7. ASSUME NEW i \in Int
      PROVE  i \in start .. end - 1
               <=> (i \in 0 .. length - 1 /\ i >= offset /\ (sz = NoSize \/ i < offset + sz))
  BY <1>1, <1>2, <1>5, <1>6
<1>8. QED
  BY <1>1, <1>2, <1>4, <1>6, <1>7

(* Whatever has been written, a range read of a file returns the bytes     *)
(* that offset and size ask for; no sum of size_t wraps around.            *)
THEOREM RangesExact == Spec => []RangesAreExact
<1>1. TypeOK => RangesAreExact
  <2> SUFFICES ASSUME TypeOK, NEW p \in Files(tree), NEW offset \in 0 .. SizeMax,
                      NEW sz \in 0 .. NoSize
               PROVE  ReadRange(SizeOf[tree[p]], offset, sz).start
                        .. ReadRange(SizeOf[tree[p]], offset, sz).end - 1 =
                        {i \in 0 .. SizeOf[tree[p]] - 1 :
                           i >= offset /\ (sz = NoSize \/ i < offset + sz)}
    BY Zenon DEF RangesAreExact
  <2>1. tree[p] \in Data
    BY DEF Files
  <2>2. SizeOf[tree[p]] \in 0 .. SizeMax
    BY <2>1, ReadAssumption
  <2>3. QED
    BY <2>2, RangeIs
<1>2. QED
  BY <1>1, TreesStayTrees, PTL

-----------------------------------------------------------------------------
(* Listing a directory and walking it.                                    *)

(* The entry of a name in a directory.                                     *)
LEMMA ChildIs ==
    ASSUME NEW d \in Dirs, NEW n \in Name
    PROVE  /\ Append(d, n) \in Seq(Name) /\ Len(Append(d, n)) = Len(d) + 1
           /\ Front(Append(d, n)) = d /\ Last(Append(d, n)) = n
           /\ Append(d, n) \in Path <=> Len(d) < MaxDepth
<1>1. d \in Seq(Name) /\ Len(d) \in 0 .. MaxDepth /\ MaxDepth \in Nat
  BY PathsAre, TreeAssumption
<1>2. PICK e \in Seq(Name) : e = Append(d, n)
  BY <1>1, AppendProperties
<1>3. e # <<>> /\ Len(e) = Len(d) + 1 /\ e[Len(d) + 1] = n /\ \A i \in 1 .. Len(d) : e[i] = d[i]
  BY <1>1, <1>2, AppendProperties
<1>4. PICK f \in Seq(Name) : f = Front(e) /\ Len(f) = Len(e) - 1
                             /\ \A i \in 1 .. Len(e) - 1 : f[i] = e[i]
  BY <1>3, FrontIs
<1>5. f = d
  <2>1. Len(f) = Len(d) /\ \A i \in 1 .. Len(d) : f[i] = d[i]
    BY <1>1, <1>3, <1>4
  <2>2. QED
    BY <1>1, <2>1, SeqEqual
<1>6. Last(e) = n
  BY <1>3 DEF Last
<1>7. e \in Path <=> Len(d) < MaxDepth
  BY <1>1, <1>3, PathsAre
<1>8. QED
  BY <1>2, <1>3, <1>4, <1>5, <1>6, <1>7

(* Every path is the entry of its last name in the directory it is in.     *)
LEMMA PathIsChild ==
    ASSUME NEW p \in Path
    PROVE  Front(p) \in Dirs /\ Last(p) \in Name /\ p = Append(Front(p), Last(p))
<1>1. p \in Seq(Name) /\ Len(p) \in 1 .. MaxDepth /\ MaxDepth \in Nat /\ p # <<>>
  BY PathsAre, TreeAssumption
<1>2. Last(p) \in Name /\ Last(p) = p[Len(p)]
  BY <1>1 DEF Last
<1>3. PICK f \in Seq(Name) : f = Front(p) /\ Len(f) = Len(p) - 1
                             /\ \A i \in 1 .. Len(p) - 1 : f[i] = p[i]
  BY <1>1, FrontIs
<1>4. PICK e \in Seq(Name) : e = Append(f, Last(p))
  BY <1>2, AppendProperties
<1>5. Len(e) = Len(f) + 1 /\ e[Len(f) + 1] = Last(p) /\ \A i \in 1 .. Len(f) : e[i] = f[i]
  BY <1>2, <1>4, AppendProperties
<1>6. Len(e) = Len(p) /\ \A i \in 1 .. Len(p) : e[i] = p[i]
  BY <1>1, <1>2, <1>3, <1>5
<1>7. e = p
  BY <1>1, <1>6, SeqEqual
<1>8. QED
  BY <1>2, <1>3, <1>4, <1>7, DirFacts

(* list_tree has the names under which the directory has an entry.         *)
LEMMA ListTreeIs ==
    ASSUME NEW d \in Dirs, NEW n
    PROVE  n \in ListTree(d) <=> /\ n \in Name /\ Append(d, n) \in Path
                                 /\ tree[Append(d, n)] # NoEntry
<1>1. ASSUME n \in ListTree(d)
      PROVE  n \in Name /\ Append(d, n) \in Path /\ tree[Append(d, n)] # NoEntry
  <2>1. PICK p \in Path : Front(p) = d /\ tree[p] # NoEntry /\ n = Last(p)
    BY <1>1 DEF ListTree
  <2>2. QED
    BY <2>1, PathIsChild
<1>2. ASSUME n \in Name, Append(d, n) \in Path, tree[Append(d, n)] # NoEntry PROVE n \in ListTree(d)
  <2>1. PICK p \in Path : p = Append(d, n)
    BY <1>2
  <2>2. Len(p) = Len(d) + 1 /\ Front(p) = d /\ Last(p) = n
    BY <1>2, <2>1, ChildIs
  <2>3. QED
    BY <1>2, <2>1, <2>2 DEF ListTree
<1>3. QED
  BY <1>1, <1>2

(* The names of the subdirectories of a directory, its entry in a walk,    *)
(* and the directories at or below it.                                     *)
SubdirsOf(q) == {n \in ListTree(q) : tree[Append(q, n)] = DirEntry}

EntryOf(q) == [dirpath |-> q, dirnames |-> SubdirsOf(q), files |-> ListTree(q) \ SubdirsOf(q)]

DirsBelow(d) == {p \in Dirs : p = d \/ (IsStrictPrefix(d, p) /\ tree[p] = DirEntry)}

(* Subdirectories are directories.                                         *)
LEMMA SubdirsAre ==
    ASSUME NEW d \in Dirs, NEW n
    PROVE  n \in SubdirsOf(d) <=> /\ n \in Name /\ Append(d, n) \in Path
                                  /\ tree[Append(d, n)] = DirEntry
<1>1. DirEntry # NoEntry
  BY DEF DirEntry, NoEntry
<1>2. QED
  BY <1>1, ListTreeIs DEF SubdirsOf

(* What is below a directory is at or below one of its subdirectories.     *)
LEMMA BelowChild ==
    ASSUME NEW d \in Dirs, NEW p \in Dirs, IsStrictPrefix(d, p)
    PROVE  \E n \in Name : Append(d, n) \in Path /\ IsPrefix(Append(d, n), p)
<1>1. /\ d \in Seq(Name) /\ p \in Seq(Name) /\ Len(d) \in Nat /\ Len(p) \in Nat
      /\ Len(p) <= MaxDepth /\ MaxDepth \in Nat
  BY PathsAre, TreeAssumption
<1>2. Len(d) < Len(p) /\ \A i \in 1 .. Len(d) : d[i] = p[i]
  BY <1>1, PrefixMeans
<1>3. PICK n \in Name : n = p[Len(d) + 1]
  BY <1>1, <1>2
<1>4. PICK e \in Seq(Name) : e = Append(d, n)
  BY <1>1, AppendProperties
<1>5. Len(e) = Len(d) + 1 /\ e[Len(d) + 1] = n /\ \A i \in 1 .. Len(d) : e[i] = d[i]
  BY <1>1, <1>4, AppendProperties
<1>6. Len(e) <= Len(p) /\ \A i \in 1 .. Len(e) : e[i] = p[i]
  BY <1>1, <1>2, <1>3, <1>5
<1>7. IsPrefix(e, p)
  BY <1>1, <1>6, PrefixMeans
<1>8. e \in Path
  BY <1>1, <1>2, <1>4, ChildIs
<1>9. QED
  BY <1>4, <1>7, <1>8

(* The directories at or below one are it and those at or below its        *)
(* subdirectories.                                                         *)
LEMMA BelowStep ==
    ASSUME IsTree(tree), NEW d \in Dirs
    PROVE  DirsBelow(d) = {d} \cup UNION {DirsBelow(Append(d, n)) : n \in SubdirsOf(d)}
<1>1. ASSUME NEW p \in DirsBelow(d), p # d
      PROVE  \E n \in SubdirsOf(d) : p \in DirsBelow(Append(d, n))
  <2>1. p \in Dirs /\ IsStrictPrefix(d, p) /\ tree[p] = DirEntry /\ p \in Path
    BY <1>1, DirFacts DEF DirsBelow
  <2>2. PICK n \in Name : Append(d, n) \in Path /\ IsPrefix(Append(d, n), p)
    BY <2>1, BelowChild
  <2>3. PICK e \in Path : e = Append(d, n)
    BY <2>2
  <2>4. e = p \/ IsStrictPrefix(e, p)
    <3>1. e \in Seq(Name) /\ p \in Seq(Name) /\ IsPrefix(e, p)
      BY <2>1, <2>2, <2>3, DirFacts
    <3>2. QED
      BY <3>1, PrefixOrder
  <2>5. tree[e] = DirEntry
    <3>1. DirEntry # NoEntry
      BY DEF DirEntry, NoEntry
    <3>2. QED
      BY <2>1, <2>4, <3>1, InDirectories
  <2>6. n \in SubdirsOf(d)
    BY <2>2, <2>3, <2>5, SubdirsAre
  <2>7. p \in DirsBelow(e)
    BY <2>1, <2>4 DEF DirsBelow
  <2>8. QED
    BY <2>3, <2>6, <2>7
<1>2. ASSUME NEW n \in SubdirsOf(d), NEW p \in DirsBelow(Append(d, n)) PROVE p \in DirsBelow(d)
  <2>1. PICK e \in Path : e = Append(d, n) /\ tree[e] = DirEntry /\ n \in Name
    BY SubdirsAre
  <2>2. Front(e) = d
    BY <2>1, ChildIs
  <2>3. IsStrictPrefix(d, e) /\ d \in Seq(Name) /\ e \in Seq(Name) /\ e \in Dirs
    BY <2>2, DirFacts
  <2>4. p \in Dirs /\ p \in Seq(Name) /\ (p = e \/ (IsStrictPrefix(e, p) /\ tree[p] = DirEntry))
    BY <2>1, DirFacts DEF DirsBelow
  <2>5. IsPrefix(e, p) /\ tree[p] = DirEntry
    BY <2>1, <2>3, <2>4, PrefixOrder
  <2>6. IsStrictPrefix(d, p)
    BY <2>3, <2>4, <2>5, PrefixOrder
  <2>7. QED
    BY <2>4, <2>5, <2>6 DEF DirsBelow
<1>3. d \in DirsBelow(d)
  BY DEF DirsBelow
<1>4. QED
  BY <1>1, <1>2, <1>3

IsWalk(w) ==
    w = [q \in Dirs |-> {EntryOf(q)} \cup UNION {w[Append(q, n)] : n \in SubdirsOf(q)}]

(* The entries of the directories at or below each satisfy the recursion   *)
(* of walk_tree_dirs,                                                      *)
LEMMA WalkExists ==
    ASSUME IsTree(tree)
    PROVE  \E w : IsWalk(w)
<1> DEFINE w == [q \in Dirs |-> {EntryOf(p) : p \in DirsBelow(q)}]
<1>1. ASSUME NEW q \in Dirs
      PROVE  {EntryOf(p) : p \in DirsBelow(q)} =
               {EntryOf(q)} \cup UNION {w[Append(q, n)] : n \in SubdirsOf(q)}
  <2>1. \A n \in SubdirsOf(q) : Append(q, n) \in Dirs
    BY SubdirsAre DEF Dirs
  <2>2. \A n \in SubdirsOf(q) : w[Append(q, n)] = {EntryOf(p) : p \in DirsBelow(Append(q, n))}
    BY <2>1
  <2>3. DirsBelow(q) = {q} \cup UNION {DirsBelow(Append(q, n)) : n \in SubdirsOf(q)}
    BY BelowStep
  <2> HIDE DEF w
  <2>4. ASSUME NEW x
        PROVE  x \in {EntryOf(p) : p \in DirsBelow(q)}
                 <=> x = EntryOf(q) \/ \E n \in SubdirsOf(q) : x \in w[Append(q, n)]
    <3>1. \A p : p \in DirsBelow(q)
                   <=> p = q \/ \E n \in SubdirsOf(q) : p \in DirsBelow(Append(q, n))
      BY <2>3
    <3>2. \A n \in SubdirsOf(q) :
             x \in w[Append(q, n)] <=> \E p \in DirsBelow(Append(q, n)) : x = EntryOf(p)
      BY <2>2
    <3>3. QED
      BY <3>1, <3>2, Zenon
  <2>5. QED
    BY <2>4
<1>2. w = [q \in Dirs |-> {EntryOf(q)} \cup UNION {w[Append(q, n)] : n \in SubdirsOf(q)}]
  BY <1>1, Zenon
<1>3. QED
  BY <1>2 DEF IsWalk

(* and nothing else does.                                                  *)
LEMMA WalkUnique ==
    ASSUME IsTree(tree), NEW w, IsWalk(w), NEW d \in Dirs
    PROVE  w[d] = {EntryOf(p) : p \in DirsBelow(d)}
<1> DEFINE T == {k \in 0 .. MaxDepth : \A q \in Dirs : Len(q) = MaxDepth - k =>
                                          w[q] = {EntryOf(p) : p \in DirsBelow(q)}}
<1>1. MaxDepth \in Nat
  BY TreeAssumption
<1>2. ASSUME NEW q \in Dirs,
             \A n \in SubdirsOf(q) :
                w[Append(q, n)] = {EntryOf(p) : p \in DirsBelow(Append(q, n))}
      PROVE  w[q] = {EntryOf(p) : p \in DirsBelow(q)}
  <2>1. w[q] = {EntryOf(q)} \cup UNION {w[Append(q, n)] : n \in SubdirsOf(q)}
    BY DEF IsWalk
  <2>2. DirsBelow(q) = {q} \cup UNION {DirsBelow(Append(q, n)) : n \in SubdirsOf(q)}
    BY BelowStep
  <2>3. ASSUME NEW x
        PROVE  x \in {EntryOf(p) : p \in DirsBelow(q)}
                 <=> x = EntryOf(q) \/ \E n \in SubdirsOf(q) : x \in w[Append(q, n)]
    <3>1. \A p : p \in DirsBelow(q)
                   <=> p = q \/ \E n \in SubdirsOf(q) : p \in DirsBelow(Append(q, n))
      BY <2>2
    <3>2. \A n \in SubdirsOf(q) :
             x \in w[Append(q, n)] <=> \E p \in DirsBelow(Append(q, n)) : x = EntryOf(p)
      BY <1>2
    <3>3. QED
      BY <3>1, <3>2, Zenon
  <2>4. QED
    BY <2>1, <2>3
<1>3. ASSUME NEW q \in Dirs, NEW n \in SubdirsOf(q)
      PROVE  Append(q, n) \in Dirs /\ Len(Append(q, n)) = Len(q) + 1 /\ Len(q) < MaxDepth
  BY SubdirsAre, ChildIs DEF Dirs
<1>4. \A q \in Dirs : Len(q) \in 0 .. MaxDepth
  BY PathsAre
<1>5. 0 \in T
  <2>1. ASSUME NEW q \in Dirs, Len(q) = MaxDepth - 0
        PROVE  w[q] = {EntryOf(p) : p \in DirsBelow(q)}
    <3>1. \A n \in SubdirsOf(q) : FALSE
      BY <1>1, <1>3, <2>1
    <3>2. QED
      BY <1>2, <3>1, Zenon
  <2>2. QED
    BY <1>1, <2>1
<1>6. ASSUME NEW k \in 0 .. MaxDepth, k < MaxDepth, k \in T PROVE k + 1 \in T
  <2>1. ASSUME NEW q \in Dirs, Len(q) = MaxDepth - (k + 1)
        PROVE  w[q] = {EntryOf(p) : p \in DirsBelow(q)}
    <3>1. \A n \in SubdirsOf(q) : Append(q, n) \in Dirs /\ Len(Append(q, n)) = MaxDepth - k
      BY <1>1, <1>3, <1>4, <1>6, <2>1
    <3>2. \A e \in Dirs : Len(e) = MaxDepth - k => w[e] = {EntryOf(p) : p \in DirsBelow(e)}
      BY <1>6, Zenon
    <3> HIDE DEF T
    <3>3. \A n \in SubdirsOf(q) :
             w[Append(q, n)] = {EntryOf(p) : p \in DirsBelow(Append(q, n))}
      BY <3>1, <3>2, Zenon
    <3>4. QED
      BY <1>2, <3>3, Zenon
  <2>2. k + 1 \in 0 .. MaxDepth
    BY <1>1, <1>6
  <2>3. QED
    BY <2>1, <2>2, Zenon
<1> HIDE DEF T
<1>7. 0 .. MaxDepth \subseteq T
  BY <1>1, <1>5, <1>6, InductionUpTo
<1>8. MaxDepth - Len(d) \in 0 .. MaxDepth /\ Len(d) = MaxDepth - (MaxDepth - Len(d))
  BY <1>1, <1>4
<1>9. MaxDepth - Len(d) \in T
  BY <1>7, <1>8
<1>10. QED
  BY <1>8, <1>9, Zenon DEF T

(* walk_tree_dirs visits the directories at and below its start, each with *)
(* its subdirectories and its files.                                       *)
LEMMA WalkIs ==
    ASSUME IsTree(tree), NEW d \in Dirs
    PROVE  WalkTreeDirs(d) = {EntryOf(p) : p \in DirsBelow(d)}
<1> DEFINE body(w) == [q \in Path \cup {Root} |->
                         {[dirpath |-> q, dirnames |-> SubdirsOf(q),
                           files |-> ListTree(q) \ SubdirsOf(q)]}
                         \cup UNION {w[Append(q, n)] : n \in SubdirsOf(q)}]
           it == CHOOSE w : w = body(w)
<1>1. WalkTreeDirs(d) = it[d]
  BY Zenon DEF WalkTreeDirs, SubdirsOf
<1>2. \A w : (w = body(w)) <=> IsWalk(w)
  BY Zenon DEF IsWalk, EntryOf, Dirs
<1> HIDE DEF body
<1>3. it = body(it)
  BY <1>2, WalkExists, Zenon
<1>4. IsWalk(it)
  BY <1>2, <1>3, Zenon
<1> HIDE DEF it
<1>5. QED
  BY <1>1, <1>4, WalkUnique, Zenon

(* The directory that holds an entry below a directory is at or below it.  *)
LEMMA ParentBelow ==
    ASSUME IsTree(tree), NEW d \in Dirs, NEW x \in Path, IsStrictPrefix(d, x), tree[x] # NoEntry
    PROVE  Front(x) \in DirsBelow(d)
<1>1. PICK p \in Dirs : p = Front(x)
  BY DirFacts
<1>2. IsPrefix(d, p) /\ IsStrictPrefix(p, x) /\ d \in Seq(Name) /\ p \in Seq(Name)
  BY <1>1, DirFacts
<1>3. CASE p = d
  BY <1>1, <1>3 DEF DirsBelow
<1>4. CASE p # d
  <2>1. IsStrictPrefix(d, p)
    BY <1>2, <1>4, PrefixOrder
  <2>2. p \in Path
    BY <2>1, DirFacts
  <2>3. tree[p] = DirEntry
    BY <1>2, <2>2, InDirectories
  <2>4. QED
    BY <1>1, <2>1, <2>3 DEF DirsBelow
<1>5. QED
  BY <1>3, <1>4

(* The subdirectories of the directories at or below one are those below.  *)
LEMMA SubdirsBelow ==
    ASSUME IsTree(tree), NEW d \in Dirs, NEW x
    PROVE  (\E q \in DirsBelow(d) : \E n \in SubdirsOf(q) : x = Append(q, n))
             <=> x \in DirsBelow(d) /\ x # d
<1>1. ASSUME NEW q \in DirsBelow(d), NEW n \in SubdirsOf(q), x = Append(q, n)
      PROVE  x \in DirsBelow(d) /\ x # d
  <2>1. q \in Dirs /\ (q = d \/ IsStrictPrefix(d, q))
    BY DEF DirsBelow
  <2>2. x \in Path /\ n \in Name /\ tree[x] = DirEntry
    BY <1>1, <2>1, SubdirsAre
  <2>3. Front(x) = q
    BY <1>1, <2>1, <2>2, ChildIs
  <2>4. /\ IsStrictPrefix(q, x) /\ x \in Dirs
        /\ q \in Seq(Name) /\ x \in Seq(Name) /\ d \in Seq(Name)
    BY <2>1, <2>2, <2>3, DirFacts
  <2>5. IsPrefix(d, q)
    BY <2>1, <2>4, PrefixOrder
  <2>6. IsStrictPrefix(d, x)
    BY <2>4, <2>5, PrefixOrder
  <2>7. x # d
    BY <2>4, <2>6, PrefixOrder
  <2>8. QED
    BY <2>2, <2>4, <2>6, <2>7 DEF DirsBelow
<1>2. ASSUME x \in DirsBelow(d), x # d
      PROVE  \E q \in DirsBelow(d) : \E n \in SubdirsOf(q) : x = Append(q, n)
  <2>1. x \in Path /\ tree[x] = DirEntry /\ IsStrictPrefix(d, x) /\ DirEntry # NoEntry
    BY <1>2, DirFacts DEF DirsBelow, DirEntry, NoEntry
  <2>2. PICK q \in Dirs, n \in Name : q = Front(x) /\ x = Append(q, n)
    BY <2>1, PathIsChild
  <2>3. q \in DirsBelow(d)
    BY <2>1, <2>2, ParentBelow
  <2>4. n \in SubdirsOf(q)
    BY <2>1, <2>2, SubdirsAre
  <2>5. QED
    BY <2>2, <2>3, <2>4
<1>3. QED
  BY <1>1, <1>2

(* The entries of a walk are as many as the directories, and have the      *)
(* directories other than the start as their subdirectories, each once.    *)
LEMMA EntriesCount ==
    ASSUME IsTree(tree), NEW d \in Dirs, NEW E, E = {EntryOf(p) : p \in DirsBelow(d)},
           NEW f, f = [w \in E |-> f[w]], \A w \in E : f[w] = Cardinality(SubdirsOf(w.dirpath))
    PROVE  /\ IsFiniteSet(E) /\ f \in [E -> Nat]
           /\ \A sum : IsSum(sum, f, E) => Cardinality(E) - 1 = sum[E]
<1> DEFINE c == [w \in E |-> {Append(w.dirpath, n) : n \in w.dirnames}]
           D == DirsBelow(d)
<1>1. ASSUME NEW w \in E
      PROVE  w.dirpath \in D /\ w.dirpath \in Dirs /\ w = EntryOf(w.dirpath)
             /\ w.dirnames = SubdirsOf(w.dirpath)
  <2>1. PICK p \in D : w = EntryOf(p)
    OBVIOUS
  <2>2. w.dirpath = p /\ w.dirnames = SubdirsOf(p)
    BY <2>1 DEF EntryOf
  <2>3. p \in Dirs
    BY <2>1 DEF DirsBelow
  <2>4. QED
    BY <2>1, <2>2, <2>3
<1>2. \A p \in D : EntryOf(p) \in E /\ EntryOf(p).dirpath = p /\ EntryOf(p).dirnames = SubdirsOf(p)
  BY DEF EntryOf
<1>3. D \in SUBSET Dirs /\ d \in D
  BY DEF DirsBelow
<1>4. IsFiniteSet(D)
  <2>1. IsFiniteSet(Dirs)
    BY PathFinite, FS_AddElement DEF Dirs
  <2>2. QED
    BY <1>3, <2>1, FS_Subset
<1> HIDE DEF D
<1>5. IsFiniteSet(E) /\ Cardinality(E) = Cardinality(D)
  <2> DEFINE g == [p \in D |-> EntryOf(p)]
  <2>1. g \in [D -> E] /\ \A p \in D : g[p] = EntryOf(p)
    BY <1>2
  <2> HIDE DEF g
  <2>2. \A x, y \in D : g[x] = g[y] => x = y
    BY <1>2, <2>1
  <2>3. ASSUME NEW z \in E PROVE \E x \in D : z = g[x]
    <3>1. PICK x \in D : z = EntryOf(x)
      BY <1>1
    <3>2. QED
      BY <2>1, <3>1
  <2>4. QED
    BY <1>4, <2>1, <2>2, <2>3, SameNumber
<1>6. ASSUME NEW w \in E PROVE IsFiniteSet(c[w]) /\ Cardinality(c[w]) = f[w] /\ f[w] \in Nat
  <2>1. PICK q \in Dirs : q = w.dirpath /\ w.dirnames = SubdirsOf(q)
    BY <1>1
  <2> DEFINE N == w.dirnames
             C == {Append(w.dirpath, n) : n \in N}
             g == [n \in N |-> Append(w.dirpath, n)]
  <2>2. N \in SUBSET Name /\ IsFiniteSet(N)
    BY <2>1, SubdirsAre, NameAssumption, FS_Subset
  <2>3. /\ g \in [N -> C] /\ \A z \in C : \E n \in N : z = g[n]
        /\ \A n \in N : g[n] = Append(w.dirpath, n)
    OBVIOUS
  <2>4. c[w] = C /\ f[w] = Cardinality(N)
    <3>1. c[w] = C
      OBVIOUS
    <3> HIDE DEF c, C
    <3>2. QED
      BY <2>1, <3>1
  <2>5. \A n \in Name : Last(Append(w.dirpath, n)) = n
    BY <2>1, ChildIs
  <2> HIDE DEF g, C, N
  <2>6. \A x, y \in N : g[x] = g[y] => x = y
    BY <2>2, <2>3, <2>5
  <2>7. IsFiniteSet(C) /\ Cardinality(C) = Cardinality(N)
    BY <2>2, <2>3, <2>6, SameNumber
  <2>8. QED
    BY <2>2, <2>4, <2>7, FS_CardinalityType
<1>7. \A w \in E : c[w] = {Append(w.dirpath, n) : n \in SubdirsOf(w.dirpath)}
  BY <1>1
<1> HIDE DEF c
<1>8. f \in [E -> Nat]
  BY <1>6
<1>9. ASSUME NEW v \in E, NEW w \in E, v # w PROVE c[v] \cap c[w] = {}
  <2>1. ASSUME NEW z \in c[v] \cap c[w] PROVE FALSE
    <3>1. PICK m \in SubdirsOf(v.dirpath), n \in SubdirsOf(w.dirpath) :
             z = Append(v.dirpath, m) /\ z = Append(w.dirpath, n)
      BY <1>7
    <3>2. m \in Name /\ n \in Name /\ v.dirpath \in Dirs /\ w.dirpath \in Dirs
      BY <1>1, SubdirsAre
    <3>3. v.dirpath = Front(z) /\ w.dirpath = Front(z)
      BY <3>1, <3>2, ChildIs
    <3>4. v = EntryOf(v.dirpath) /\ w = EntryOf(w.dirpath)
      BY <1>1
    <3>5. QED
      BY <1>9, <3>3, <3>4, Zenon
  <2>2. QED
    BY <2>1
<1>10. UNION {c[w] : w \in E} = D \ {d}
  <2>1. ASSUME NEW x PROVE (\E w \in E : x \in c[w]) <=> x \in D \ {d}
    <3>1. (\E w \in E : x \in c[w]) <=> \E p \in D : \E n \in SubdirsOf(p) : x = Append(p, n)
      <4>1. ASSUME NEW w \in E, x \in c[w]
            PROVE  \E p \in D : \E n \in SubdirsOf(p) : x = Append(p, n)
        BY <1>1, <1>7, <4>1
      <4>2. ASSUME NEW p \in D, NEW n \in SubdirsOf(p), x = Append(p, n)
            PROVE  \E w \in E : x \in c[w]
        <5>1. PICK w \in E : w = EntryOf(p) /\ w.dirpath = p
          BY <1>2
        <5>2. x \in c[w]
          BY <1>7, <4>2, <5>1
        <5>3. QED
          BY <5>2
      <4>3. QED
        BY <4>1, <4>2
    <3>2. QED
      BY <3>1, SubdirsBelow DEF D
  <2>2. QED
    BY <2>1
<1>11. ASSUME NEW sum, IsSum(sum, f, E) PROVE Cardinality(UNION {c[w] : w \in E}) = sum[E]
  <2>1. \A w \in E : IsFiniteSet(c[w]) /\ Cardinality(c[w]) = f[w]
    BY <1>6
  <2>2. \A v, w \in E : v # w => c[v] \cap c[w] = {}
    BY <1>9
  <2>3. PICK a : a = c
    OBVIOUS
  <2>4. /\ \A w \in E : IsFiniteSet(a[w]) /\ Cardinality(a[w]) = f[w]
        /\ \A v, w \in E : v # w => a[v] \cap a[w] = {}
    BY <2>1, <2>2, <2>3
  <2>5. Cardinality(UNION {a[w] : w \in E}) = sum[E]
    BY ONLY <1>5, <1>8, <1>11, <2>4, SumOfDisjoint
  <2>6. QED
    BY <2>3, <2>5
<1>12. Cardinality(D \ {d}) = Cardinality(D) - 1
  BY <1>3, <1>4, FS_RemoveElement
<1>13. QED
  BY <1>5, <1>8, <1>10, <1>11, <1>12

(* The link counts of the directories that a walk visits, less two each,   *)
(* add up to the entries other than the first.                             *)
LEMMA LinksAddUp ==
    ASSUME IsTree(tree), NEW d \in Dirs, NEW E, E = {EntryOf(p) : p \in DirsBelow(d)},
           Lookup(tree, d) = DirEntry
    PROVE  Cardinality(E) - 1 = MapThenSumSet(LAMBDA w : Stat(w.dirpath).nlink - 2, E)
<1> DEFINE links(w) == Stat(w.dirpath).nlink - 2
           f == [w \in E |-> Cardinality(SubdirsOf(w.dirpath))]
           body(sum) == [s \in SUBSET E |->
                           IF s = {} THEN 0 ELSE links(Chosen(s)) + sum[s \ {Chosen(s)}]]
           it == CHOOSE sum : sum = body(sum)
<1>1. MapThenSumSet(LAMBDA w : Stat(w.dirpath).nlink - 2, E) = it[E]
  BY Zenon DEF MapThenSumSet, MapThenFoldSet, Chosen
<1>2. f = [w \in E |-> f[w]] /\ \A w \in E : f[w] = Cardinality(SubdirsOf(w.dirpath))
  OBVIOUS
<1> HIDE DEF f
<1>3. /\ IsFiniteSet(E) /\ f \in [E -> Nat]
      /\ \A sum : IsSum(sum, f, E) => Cardinality(E) - 1 = sum[E]
  BY <1>2, EntriesCount
<1>4. ASSUME NEW w \in E PROVE links(w) = f[w]
  <2>1. PICK p \in DirsBelow(d) : w = EntryOf(p)
    OBVIOUS
  <2>2. w.dirpath = p /\ p \in Dirs /\ f[w] = Cardinality(SubdirsOf(p)) /\ f[w] \in Nat
    BY <1>2, <1>3, <2>1 DEF EntryOf, DirsBelow
  <2>3. Lookup(tree, p) = DirEntry
    <3>1. CASE p = d
      BY <3>1
    <3>2. CASE p # d
      BY <2>2, <3>2, LookupIs, DirFacts DEF DirsBelow
    <3>3. QED
      BY <3>1, <3>2
  <2>4. Stat(p).nlink = 2 + CountSubdirs(p)
    BY <2>3 DEF Stat
  <2>5. CountSubdirs(p) = Cardinality(SubdirsOf(p))
    BY DEF CountSubdirs, SubdirsOf
  <2>6. QED
    BY <2>2, <2>4, <2>5
<1> HIDE DEF links
<1>5. \A sum : (sum = body(sum)) <=> IsSum(sum, f, E)
  <2> SUFFICES ASSUME NEW sum
               PROVE  body(sum) = [s \in SUBSET E |-> IF s = {} THEN 0
                                     ELSE f[Chosen(s)] + sum[s \ {Chosen(s)}]]
    BY DEF IsSum
  <2>1. \A s \in SUBSET E : s # {} => Chosen(s) \in E
    BY DEF Chosen
  <2>2. QED
    BY <1>4, <2>1
<1>6. \E sum : IsSum(sum, f, E)
  BY <1>3, SumExists
<1> HIDE DEF body
<1>7. it = body(it)
  <2>1. \E sum : sum = body(sum)
    BY <1>5, <1>6, Zenon
  <2>2. QED
    BY <2>1, Zenon
<1>8. IsSum(it, f, E)
  BY <1>5, <1>7, Zenon
<1>9. QED
  BY <1>1, <1>3, <1>8, Zenon

(* The files that the entries of a walk name are those below its start.    *)
LEMMA FilesListed ==
    ASSUME IsTree(tree), NEW d \in Dirs, Lookup(tree, d) = DirEntry
    PROVE  LsRecursive(d) = WalkTree(tree, d)
<1> DEFINE E == {EntryOf(p) : p \in DirsBelow(d)}
<1>1. LsRecursive(d) = UNION {{Append(w.dirpath, n) : n \in w.files} : w \in E}
  BY WalkIs, Zenon DEF LsRecursive
<1>2. ASSUME NEW x
      PROVE  x \in LsRecursive(d) <=>
               \E p \in DirsBelow(d) : \E n \in ListTree(p) \ SubdirsOf(p) : x = Append(p, n)
  <2>1. x \in LsRecursive(d) <=> \E w \in E : \E n \in w.files : x = Append(w.dirpath, n)
    <3> HIDE DEF E
    <3>1. QED
      BY ONLY <1>1
  <2>2. \A p \in DirsBelow(d) : /\ EntryOf(p).dirpath = p
                                /\ EntryOf(p).files = ListTree(p) \ SubdirsOf(p)
    BY DEF EntryOf
  <2>3. (\E w \in E : \E n \in w.files : x = Append(w.dirpath, n))
          <=> \E p \in DirsBelow(d) : \E n \in EntryOf(p).files : x = Append(EntryOf(p).dirpath, n)
    BY Zenon
  <2>4. QED
    BY <2>1, <2>2, <2>3, Zenon
<1>3. ASSUME NEW p \in DirsBelow(d), NEW n \in ListTree(p) \ SubdirsOf(p)
      PROVE  Append(p, n) \in WalkTree(tree, d)
  <2>1. p \in Dirs /\ p \in Seq(Name) /\ d \in Seq(Name) /\ IsPrefix(d, p)
    <3>1. p \in Dirs /\ (p = d \/ IsStrictPrefix(d, p))
      BY DEF DirsBelow
    <3>2. QED
      BY <3>1, DirFacts, PrefixOrder
  <2>2. PICK e \in Path : e = Append(p, n) /\ n \in Name /\ tree[e] # NoEntry
    <3>1. n \in ListTree(p)
      OBVIOUS
    <3>2. n \in Name /\ Append(p, n) \in Path /\ tree[Append(p, n)] # NoEntry
      BY <2>1, <3>1, ListTreeIs, Zenon
    <3>3. QED
      BY <3>2
  <2>3. tree[e] # DirEntry
    BY <2>1, <2>2, SubdirsAre
  <2>4. Front(e) = p
    BY <2>1, <2>2, ChildIs
  <2>5. IsStrictPrefix(d, e)
    BY <2>1, <2>4, DirFacts
  <2>6. tree[e] \in Data
    BY <2>2, <2>3 DEF IsTree
  <2>7. QED
    BY <2>2, <2>5, <2>6 DEF WalkTree, Files
<1>4. ASSUME NEW x \in WalkTree(tree, d)
      PROVE  \E p \in DirsBelow(d) : \E n \in ListTree(p) \ SubdirsOf(p) : x = Append(p, n)
  <2>1. x \in Path /\ x \in Seq(Name) /\ tree[x] \in Data /\ IsStrictPrefix(d, x)
    BY DirFacts DEF WalkTree, Files
  <2>2. tree[x] # NoEntry /\ tree[x] # DirEntry /\ DirEntry # NoEntry
    BY <2>1, TreeAssumption DEF DirEntry, NoEntry
  <2>3. PICK p \in Dirs, n \in Name : p = Front(x) /\ x = Append(p, n)
    BY <2>1, PathIsChild
  <2>4. n \in ListTree(p) \ SubdirsOf(p)
    BY <2>1, <2>2, <2>3, ListTreeIs, SubdirsAre
  <2>5. p \in DirsBelow(d)
    BY <2>1, <2>2, <2>3, ParentBelow
  <2>6. QED
    BY <2>3, <2>4, <2>5
<1>5. \A x : x \in LsRecursive(d) <=> x \in WalkTree(tree, d)
  <2>1. ASSUME NEW x, x \in LsRecursive(d) PROVE x \in WalkTree(tree, d)
    <3>1. PICK p \in DirsBelow(d) : \E n \in ListTree(p) \ SubdirsOf(p) : x = Append(p, n)
      BY <1>2, <2>1, Zenon
    <3>2. PICK n \in ListTree(p) \ SubdirsOf(p) : x = Append(p, n)
      BY <3>1, Zenon
    <3>3. QED
      BY <1>3, <3>2
  <2>2. ASSUME NEW x, x \in WalkTree(tree, d) PROVE x \in LsRecursive(d)
    BY <1>2, <1>4, <2>2, Zenon
  <2>3. QED
    BY <2>1, <2>2, Zenon
<1> HIDE DEF E
<1>6. PICK A, B : A = LsRecursive(d) /\ B = WalkTree(tree, d)
  OBVIOUS
<1>7. A = B
  BY <1>5, <1>6
<1>8. QED
  BY <1>6, <1>7

(* Every directory that a walk visits other than its start is a            *)
(* subdirectory of another one, and the other way round.                   *)
LEMMA DirsListed ==
    ASSUME IsTree(tree), NEW d \in Dirs, NEW E, E = {EntryOf(p) : p \in DirsBelow(d)}
    PROVE  {w.dirpath : w \in E} =
             {d} \cup UNION {{Append(w.dirpath, n) : n \in w.dirnames} : w \in E}
<1>1. \A p \in DirsBelow(d) : /\ EntryOf(p).dirpath = p
                              /\ EntryOf(p).dirnames = SubdirsOf(p)
  BY DEF EntryOf
<1>2. \A x : x \in {w.dirpath : w \in E} <=> x \in DirsBelow(d)
  BY <1>1
<1>3. ASSUME NEW x
      PROVE  x \in UNION {{Append(w.dirpath, n) : n \in w.dirnames} : w \in E}
               <=> \E p \in DirsBelow(d) : \E n \in SubdirsOf(p) : x = Append(p, n)
  <2>1. x \in UNION {{Append(w.dirpath, n) : n \in w.dirnames} : w \in E}
          <=> \E w \in E : \E n \in w.dirnames : x = Append(w.dirpath, n)
    BY ONLY TRUE
  <2>2. (\E w \in E : \E n \in w.dirnames : x = Append(w.dirpath, n))
          <=> \E p \in DirsBelow(d) :
                 \E n \in EntryOf(p).dirnames : x = Append(EntryOf(p).dirpath, n)
    BY Zenon
  <2>3. QED
    BY <1>1, <2>1, <2>2, Zenon
<1>4. d \in DirsBelow(d)
  BY DEF DirsBelow
<1>5. \A x : x \in UNION {{Append(w.dirpath, n) : n \in w.dirnames} : w \in E}
               <=> x \in DirsBelow(d) /\ x # d
  BY <1>3, SubdirsBelow, Zenon
<1>6. PICK A, B : /\ A = {w.dirpath : w \in E}
                  /\ B = UNION {{Append(w.dirpath, n) : n \in w.dirnames} : w \in E}
  OBVIOUS
<1>7. (\A x : x \in A <=> x \in DirsBelow(d)) /\ (\A x : x \in B <=> x \in DirsBelow(d) /\ x # d)
  BY <1>2, <1>5, <1>6, Zenon
<1>8. A = {d} \cup B
  BY <1>4, <1>7
<1>9. QED
  BY <1>6, <1>8, Zenon

(* Whatever has been written, the listings of a directory agree: ls with   *)
(* recursive has the files that walk_tree finds, walk_tree_dirs names each *)
(* directory below its start once, as a subdirectory of another, and the   *)
(* link counts of stat add up to as many (fs.cpp, ls, walk and stat;       *)
(* tree.cpp, walk_tree_dirs and count_subdirs).                            *)
THEOREM ListingsAlwaysAgree == Spec => []ListingsAgree
<1>1. TypeOK => ListingsAgree
  <2> SUFFICES ASSUME TypeOK, NEW d \in Dirs, Lookup(tree, d) = DirEntry
               PROVE  /\ LsRecursive(d) = WalkTree(tree, d)
                      /\ {w.dirpath : w \in WalkTreeDirs(d)} =
                           {d} \cup UNION {{Append(w.dirpath, n) : n \in w.dirnames} :
                                           w \in WalkTreeDirs(d)}
                      /\ Cardinality(WalkTreeDirs(d)) - 1 =
                           MapThenSumSet(LAMBDA w : Stat(w.dirpath).nlink - 2, WalkTreeDirs(d))
    BY Zenon DEF ListingsAgree, Dirs
  <2>1. IsTree(tree)
    BY DEF TypeOK
  <2>2. PICK E : E = WalkTreeDirs(d)
    OBVIOUS
  <2>3. E = {EntryOf(p) : p \in DirsBelow(d)}
    BY <2>1, <2>2, WalkIs, Zenon
  <2>4. {w.dirpath : w \in E} =
          {d} \cup UNION {{Append(w.dirpath, n) : n \in w.dirnames} : w \in E}
    BY <2>1, <2>3, DirsListed, Zenon
  <2>5. Cardinality(E) - 1 = MapThenSumSet(LAMBDA w : Stat(w.dirpath).nlink - 2, E)
    BY <2>1, <2>3, LinksAddUp, Zenon
  <2>6. LsRecursive(d) = WalkTree(tree, d)
    BY <2>1, FilesListed
  <2>7. QED
    BY <2>2, <2>4, <2>5, <2>6, Zenon
<1>2. QED
  BY <1>1, TreesStayTrees, PTL

-----------------------------------------------------------------------------
(* Matching names and paths against glob patterns.                         *)

(* Parts i + 1 to n of a pattern take what comes after the first j of m    *)
(* places, part k the places a + 1 to b for some <<k, a, b>> of R.         *)
Cuts(R, n, m, i, j) ==
    \E cut \in [i .. n -> 0 .. m] :
       /\ cut[i] = j /\ cut[n] = m
       /\ \A k \in i + 1 .. n : cut[k - 1] <= cut[k] /\ <<k, cut[k - 1], cut[k]>> \in R

(* No part is left where no place is.                                      *)
LEMMA CutsEnd ==
    ASSUME NEW R, NEW n \in Nat, NEW m \in Nat, NEW j \in 0 .. m
    PROVE  Cuts(R, n, m, n, j) <=> j = m
<1>1. ASSUME j = m PROVE Cuts(R, n, m, n, j)
  <2> DEFINE cut == [k \in n .. n |-> m]
  <2>1. cut \in [n .. n -> 0 .. m] /\ cut[n] = m /\ n + 1 .. n = {}
    OBVIOUS
  <2> HIDE DEF cut
  <2>2. QED
    BY <1>1, <2>1 DEF Cuts
<1>2. QED
  BY <1>1 DEF Cuts

(* The next part takes some places, and the others the rest.               *)
LEMMA CutsStep ==
    ASSUME NEW R, NEW n \in Nat, NEW m \in Nat, NEW i \in Nat, i < n, NEW j \in 0 .. m
    PROVE  Cuts(R, n, m, i, j)
             <=> \E b \in 0 .. m : j <= b /\ <<i + 1, j, b>> \in R /\ Cuts(R, n, m, i + 1, b)
<1>1. ASSUME Cuts(R, n, m, i, j)
      PROVE  \E b \in 0 .. m : j <= b /\ <<i + 1, j, b>> \in R /\ Cuts(R, n, m, i + 1, b)
  <2>1. PICK cut \in [i .. n -> 0 .. m] :
           /\ cut[i] = j /\ cut[n] = m
           /\ \A k \in i + 1 .. n : cut[k - 1] <= cut[k] /\ <<k, cut[k - 1], cut[k]>> \in R
    BY <1>1 DEF Cuts
  <2>2. i + 1 \in i + 1 .. n /\ (i + 1) - 1 = i
    OBVIOUS
  <2>3. j <= cut[i + 1] /\ <<i + 1, j, cut[i + 1]>> \in R
    BY <2>1, <2>2
  <2> DEFINE rest == [k \in i + 1 .. n |-> cut[k]]
  <2>4. rest \in [i + 1 .. n -> 0 .. m] /\ \A k \in i + 1 .. n : rest[k] = cut[k]
    OBVIOUS
  <2> HIDE DEF rest
  <2>5. ASSUME NEW k \in (i + 1) + 1 .. n
        PROVE  rest[k - 1] <= rest[k] /\ <<k, rest[k - 1], rest[k]>> \in R
    <3>1. k \in i + 1 .. n /\ k - 1 \in i + 1 .. n
      OBVIOUS
    <3>2. rest[k] = cut[k] /\ rest[k - 1] = cut[k - 1]
      BY <2>4, <3>1
    <3>3. QED
      BY <2>1, <3>1, <3>2
  <2>6. Cuts(R, n, m, i + 1, rest[i + 1])
    BY <2>1, <2>4, <2>5 DEF Cuts
  <2>7. rest[i + 1] = cut[i + 1] /\ cut[i + 1] \in 0 .. m
    BY <2>2, <2>4
  <2>8. QED
    BY <2>3, <2>6, <2>7
<1>2. ASSUME NEW b \in 0 .. m, j <= b, <<i + 1, j, b>> \in R, Cuts(R, n, m, i + 1, b)
      PROVE  Cuts(R, n, m, i, j)
  <2>1. PICK cut \in [i + 1 .. n -> 0 .. m] :
           /\ cut[i + 1] = b /\ cut[n] = m
           /\ \A k \in (i + 1) + 1 .. n : cut[k - 1] <= cut[k] /\ <<k, cut[k - 1], cut[k]>> \in R
    BY <1>2 DEF Cuts
  <2> DEFINE all == [k \in i .. n |-> IF k = i THEN j ELSE cut[k]]
  <2>2. /\ all \in [i .. n -> 0 .. m] /\ all[i] = j
        /\ \A k \in i + 1 .. n : all[k] = cut[k]
    OBVIOUS
  <2> HIDE DEF all
  <2>3. ASSUME NEW k \in i + 1 .. n
        PROVE  all[k - 1] <= all[k] /\ <<k, all[k - 1], all[k]>> \in R
    <3>1. CASE k = i + 1
      BY <1>2, <2>1, <2>2, <3>1
    <3>2. CASE k # i + 1
      <4>1. k \in (i + 1) + 1 .. n /\ k - 1 \in i + 1 .. n
        BY <3>2
      <4>2. QED
        BY <2>1, <2>2, <4>1
    <3>3. QED
      BY <3>1, <3>2
  <2>4. all[n] = m
    BY <2>1, <2>2
  <2>5. QED
    BY <2>2, <2>3, <2>4 DEF Cuts
<1>3. QED
  BY <1>1, <1>2

(* What the tokens of a segment take of a name.                            *)
TokenCuts(pattern, name) ==
    {t \in (1 .. Len(pattern)) \X (0 .. Len(name)) \X (0 .. Len(name)) :
       pattern[t[1]] = Star \/ (t[3] = t[2] + 1 /\ Takes(pattern[t[1]], name[t[3]]))}

(* The pattern after its first i tokens fits the name after its first j    *)
(* characters.                                                             *)
FitsFrom(pattern, name, i, j) == Cuts(TokenCuts(pattern, name), Len(pattern), Len(name), i, j)

(* A star takes any number of characters, another token one.               *)
LEMMA FitsStep ==
    ASSUME NEW pattern \in Seq(Token), NEW name \in Seq(STRING),
           NEW i \in 0 .. Len(pattern), NEW j \in 0 .. Len(name)
    PROVE  /\ i = Len(pattern) => (FitsFrom(pattern, name, i, j) <=> j = Len(name))
           /\ i < Len(pattern) /\ pattern[i + 1] = Star
                => (FitsFrom(pattern, name, i, j)
                      <=> \E b \in j .. Len(name) : FitsFrom(pattern, name, i + 1, b))
           /\ i < Len(pattern) /\ pattern[i + 1] # Star
                => (FitsFrom(pattern, name, i, j)
                      <=> /\ j < Len(name) /\ Takes(pattern[i + 1], name[j + 1])
                          /\ FitsFrom(pattern, name, i + 1, j + 1))
<1>1. PICK n \in Nat, m \in Nat : n = Len(pattern) /\ m = Len(name)
  OBVIOUS
<1>2. i \in Nat /\ j \in 0 .. m /\ i <= n
  BY <1>1
<1>3. PICK R : R = TokenCuts(pattern, name)
  OBVIOUS
<1>4. \A x, y : FitsFrom(pattern, name, x, y) <=> Cuts(R, n, m, x, y)
  BY <1>1, <1>3 DEF FitsFrom
<1>5. ASSUME NEW k \in 1 .. n, NEW a \in 0 .. m, NEW b \in 0 .. m
      PROVE  <<k, a, b>> \in R <=> pattern[k] = Star \/ (b = a + 1 /\ Takes(pattern[k], name[b]))
  BY <1>1, <1>3 DEF TokenCuts
<1>6. i = n => (Cuts(R, n, m, i, j) <=> j = m)
  BY <1>2, CutsEnd
<1>7. ASSUME i < n
      PROVE  Cuts(R, n, m, i, j)
               <=> \E b \in 0 .. m : j <= b /\ <<i + 1, j, b>> \in R /\ Cuts(R, n, m, i + 1, b)
  BY <1>2, <1>7, CutsStep
<1>8. ASSUME i < n, pattern[i + 1] = Star
      PROVE  Cuts(R, n, m, i, j) <=> \E b \in j .. m : Cuts(R, n, m, i + 1, b)
  <2>1. \A b \in 0 .. m : <<i + 1, j, b>> \in R
    BY <1>2, <1>5, <1>8
  <2>2. \A b : b \in j .. m <=> b \in 0 .. m /\ j <= b
    BY <1>2
  <2>3. QED
    BY <1>7, <1>8, <2>1, <2>2
<1>9. ASSUME i < n, pattern[i + 1] # Star
      PROVE  Cuts(R, n, m, i, j)
               <=> j < m /\ Takes(pattern[i + 1], name[j + 1]) /\ Cuts(R, n, m, i + 1, j + 1)
  <2>1. \A b \in 0 .. m : <<i + 1, j, b>> \in R <=> b = j + 1 /\ Takes(pattern[i + 1], name[b])
    BY <1>2, <1>5, <1>9
  <2>2. j < m <=> j + 1 \in 0 .. m
    BY <1>2
  <2>3. j <= j + 1
    BY <1>2
  <2>4. QED
    BY <1>7, <1>9, <2>1, <2>2, <2>3
<1>10. QED
  BY <1>1, <1>4, <1>6, <1>8, <1>9

(* k is the first position at or after i that has no star.                 *)
IsSkip(pattern, i, k) ==
    /\ k \in i .. Len(pattern) + 1
    /\ k = Len(pattern) + 1 \/ pattern[k].kind # "star"
    /\ \A l \in i .. k - 1 : pattern[l].kind = "star"

(* There is one.                                                           *)
LEMMA SkipExists ==
    ASSUME NEW pattern \in Seq(Token), NEW i \in 1 .. Len(pattern) + 1
    PROVE  \E k : IsSkip(pattern, i, k)
<1>1. PICK n \in Nat : n = Len(pattern)
  OBVIOUS
<1> DEFINE T == {k \in i .. n + 1 : k = n + 1 \/ pattern[k].kind # "star"}
<1>2. T \subseteq Nat /\ n + 1 \in T
  BY <1>1
<1> HIDE DEF T
<1>3. PICK k \in T : \A y \in T : ~(y < k)
  BY <1>2, LeastNumber
<1>4. k \in i .. n + 1 /\ (k = n + 1 \/ pattern[k].kind # "star")
  BY DEF T
<1>5. ASSUME NEW l \in i .. k - 1 PROVE pattern[l].kind = "star"
  <2>1. l \in i .. n + 1 /\ l < k /\ l # n + 1
    BY <1>1, <1>4
  <2>2. l \notin T
    BY <1>3, <2>1
  <2>3. QED
    BY <2>1, <2>2 DEF T
<1>6. QED
  BY <1>1, <1>4, <1>5 DEF IsSkip

(* The kind tells a star from other tokens.                                *)
LEMMA StarKind == ASSUME NEW t \in Token PROVE t = Star <=> t.kind = "star"
BY DEF Token, Star

(* A run of stars takes what one star takes.                               *)
LEMMA StarRun ==
    ASSUME NEW pattern \in Seq(Token), NEW name \in Seq(STRING),
           NEW k \in 1 .. Len(pattern) + 1, NEW i \in 1 .. Len(pattern), i < k,
           \A l \in i .. k - 1 : pattern[l].kind = "star", NEW j \in 0 .. Len(name)
    PROVE  FitsFrom(pattern, name, i - 1, j)
             <=> \E b \in j .. Len(name) : FitsFrom(pattern, name, k - 1, b)
<1>1. PICK n \in Nat, m \in Nat : n = Len(pattern) /\ m = Len(name)
  OBVIOUS
<1> DEFINE F(x, y) == FitsFrom(pattern, name, x, y)
           Run(x) == \A y \in 0 .. m : F(x - 1, y) <=> \E b \in y .. m : F(k - 1, b)
           T == {r \in 0 .. n : k - 1 - r >= i => Run(k - 1 - r)}
<1>2. ASSUME NEW x \in i .. k - 1, NEW y \in 0 .. m
      PROVE  F(x - 1, y) <=> \E b \in y .. m : F(x, b)
  <2>1. x \in 1 .. n /\ x - 1 \in 0 .. n /\ x - 1 < n /\ (x - 1) + 1 = x
    BY <1>1
  <2>2. pattern[x] \in Token /\ pattern[x].kind = "star"
    BY <1>1, <2>1
  <2>3. pattern[x] = Star
    BY <2>2, StarKind
  <2>4. QED
    BY <1>1, <2>1, <2>3, FitsStep
<1> HIDE DEF F
<1>3. 0 \in T
  BY <1>1, <1>2
<1>4. ASSUME NEW r \in 0 .. n, r < n, r \in T PROVE r + 1 \in T
  <2> SUFFICES ASSUME k - 1 - (r + 1) >= i, NEW y \in 0 .. m
               PROVE  F(k - 1 - (r + 1) - 1, y) <=> \E b \in y .. m : F(k - 1, b)
    BY <1>1, <1>4
  <2>1. PICK x \in Int : x = k - 1 - (r + 1)
    OBVIOUS
  <2>2. x \in i .. k - 1 /\ x + 1 = k - 1 - r /\ x + 1 >= i /\ (x + 1) - 1 = x
    <3>1. k \in Int /\ i \in Int /\ r \in Int /\ 0 <= r /\ x >= i
      BY <1>1, <2>1
    <3>2. QED
      BY ONLY <2>1, <3>1, x \in Int
  <2>3. Run(x + 1)
    BY <1>4, <2>2
  <2>4. \A b \in 0 .. m : F(x, b) <=> \E c \in b .. m : F(k - 1, c)
    BY <2>2, <2>3
  <2>5. F(x - 1, y) <=> \E b \in y .. m : F(x, b)
    BY <1>2, <2>2
  <2>6. F(x - 1, y) <=> \E b \in y .. m : F(k - 1, b)
    <3>1. \A b \in y .. m : b \in 0 .. m /\ b \in b .. m
      BY <1>1
    <3>2. \A b \in y .. m : \A c \in b .. m : c \in y .. m
      BY <1>1
    <3>3. QED
      BY <2>4, <2>5, <3>1, <3>2
  <2>7. QED
    BY <2>1, <2>6
<1>5. 0 .. n \subseteq T
  <2> HIDE DEF T
  <2>1. QED
    BY <1>3, <1>4, InductionUpTo
<1>6. PICK r \in 0 .. n : k - 1 - r = i
  <2>1. k - 1 - i \in 0 .. n /\ k - 1 - (k - 1 - i) = i
    BY <1>1
  <2>2. QED
    BY <2>1
<1>7. r \in T
  BY <1>5
<1> HIDE DEF Run
<1>8. Run(k - 1 - r)
  BY <1>6, <1>7
<1>9. QED
  BY <1>1, <1>6, <1>8 DEF F, Run

(* What the recursion of fnmatch says of position i of the pattern and j   *)
(* of the name, with s for the position after the stars at i.              *)
MatchStep(f, pattern, name, s, i, j) ==
    IF i = Len(pattern) + 1 \/ j = Len(name) + 1
    THEN s = Len(pattern) + 1 /\ j = Len(name) + 1
    ELSE IF pattern[i].kind = "star"
    THEN s = Len(pattern) + 1 \/ \E k \in j .. Len(name) + 1 : f[<<s, k>>]
    ELSE Takes(pattern[i], name[j]) /\ f[<<i + 1, j + 1>>]

(* f says which suffixes fit, from position i of the pattern on.           *)
TellsFits(f, pattern, name, i) ==
    \A j \in 1 .. Len(name) + 1 : f[<<i, j>>] <=> FitsFrom(pattern, name, i - 1, j - 1)

(* A function that is right about later positions is right about i.        *)
LEMMA MatchStepIs ==
    ASSUME NEW pattern \in Seq(Token), NEW name \in Seq(STRING), NEW f,
           NEW i \in 1 .. Len(pattern) + 1, NEW j \in 1 .. Len(name) + 1,
           NEW s, IsSkip(pattern, i, s),
           \A k \in i + 1 .. Len(pattern) + 1 : TellsFits(f, pattern, name, k)
    PROVE  MatchStep(f, pattern, name, s, i, j) <=> FitsFrom(pattern, name, i - 1, j - 1)
<1>1. PICK n \in Nat, m \in Nat : n = Len(pattern) /\ m = Len(name)
  OBVIOUS
<1>2. /\ s \in i .. n + 1 /\ (s = n + 1 \/ pattern[s].kind # "star")
      /\ \A l \in i .. s - 1 : pattern[l].kind = "star"
  BY <1>1 DEF IsSkip
<1>3. i - 1 \in 0 .. n /\ j - 1 \in 0 .. m
  BY <1>1
<1> DEFINE F(x, y) == FitsFrom(pattern, name, x, y)
<1>4. \A y \in 0 .. m : F(n, y) <=> y = m
  BY <1>1, FitsStep
<1>5. ASSUME NEW x \in 1 .. n, pattern[x].kind # "star", NEW y \in 0 .. m
      PROVE  F(x - 1, y) <=> y < m /\ Takes(pattern[x], name[y + 1]) /\ F(x, y + 1)
  <2>1. x - 1 \in 0 .. n /\ x - 1 < n /\ (x - 1) + 1 = x /\ pattern[x] \in Token
    BY <1>1
  <2>2. pattern[x] # Star
    BY <1>5, <2>1, StarKind
  <2>3. PICK w \in 0 .. n : w = x - 1 /\ w < n /\ w + 1 = x
    BY <2>1
  <2>4. F(w, y) <=> y < m /\ Takes(pattern[w + 1], name[y + 1]) /\ F(w + 1, y + 1)
    <3>1. /\ w \in 0 .. Len(pattern) /\ y \in 0 .. Len(name)
          /\ w < Len(pattern) /\ pattern[w + 1] # Star
      BY <1>1, <2>2, <2>3
    <3>2. FitsFrom(pattern, name, w, y) <=> /\ y < Len(name) /\ Takes(pattern[w + 1], name[y + 1])
                                        /\ FitsFrom(pattern, name, w + 1, y + 1)
      BY <3>1, FitsStep, Zenon
    <3>3. QED
      BY <1>1, <3>2
  <2>5. QED
    BY <2>3, <2>4
<1>6. ASSUME i < s, NEW y \in 0 .. m PROVE F(i - 1, y) <=> \E b \in y .. m : F(s - 1, b)
  <2>1. i \in 1 .. n /\ s \in 1 .. n + 1
    BY <1>1, <1>2, <1>6
  <2>2. QED
    BY <1>1, <1>2, <1>6, <2>1, StarRun
<1>7. ASSUME NEW x \in i + 1 .. n + 1, NEW y \in 1 .. m + 1 PROVE f[<<x, y>>] <=> F(x - 1, y - 1)
  BY <1>1 DEF TellsFits
<1> HIDE DEF F
<1>8. CASE i = n + 1
  <2>1. s = n + 1 /\ i - 1 = n
    BY <1>1, <1>2, <1>8
  <2>2. j = m + 1 <=> j - 1 = m
    BY <1>1
  <2>3. QED
    BY <1>1, <1>3, <1>4, <1>8, <2>1, <2>2 DEF MatchStep, F
<1>9. CASE i # n + 1 /\ j = m + 1
  <2>1. j - 1 = m /\ i \in 1 .. n
    BY <1>1, <1>9
  <2>2. CASE i = s
    <3>1. pattern[i].kind # "star" /\ s # n + 1
      BY <1>2, <1>9, <2>2
    <3>2. ~F(i - 1, m)
      BY <1>5, <2>1, <3>1
    <3>3. QED
      BY <1>1, <1>9, <2>1, <3>1, <3>2 DEF MatchStep, F
  <2>3. CASE i < s
    <3>1. F(i - 1, m) <=> \E b \in m .. m : F(s - 1, b)
      BY <1>6, <2>3
    <3>2. F(i - 1, m) <=> F(s - 1, m)
      BY <3>1
    <3>3. CASE s = n + 1
      <4>1. F(s - 1, m)
        BY <1>4, <3>3
      <4>2. QED
        BY <1>1, <1>9, <2>1, <3>2, <3>3, <4>1 DEF MatchStep, F
    <3>4. CASE s # n + 1
      <4>1. s \in 1 .. n
        BY <1>1, <1>2, <3>4
      <4>2. ~F(s - 1, m)
        <5>1. pattern[s].kind # "star" /\ m \in 0 .. m /\ ~(m < m)
          BY <1>1, <1>2, <3>4
        <5>2. QED
          BY <1>5, <4>1, <5>1
      <4>3. QED
        BY <1>1, <1>9, <2>1, <3>2, <3>4, <4>2 DEF MatchStep, F
    <3>5. QED
      BY <3>3, <3>4
  <2>4. QED
    BY <1>2, <2>2, <2>3
<1>10. CASE i # n + 1 /\ j # m + 1 /\ pattern[i].kind = "star"
  <2>1. i < s
    <3>1. i # s
      BY <1>2, <1>10
    <3>2. QED
      BY <1>2, <3>1
  <2>2. F(i - 1, j - 1) <=> \E b \in j - 1 .. m : F(s - 1, b)
    BY <1>3, <1>6, <2>1
  <2>3. ASSUME s = n + 1 PROVE F(i - 1, j - 1)
    <3>1. m \in j - 1 .. m /\ s - 1 = n
      BY <1>1, <1>3, <2>3
    <3>2. QED
      BY <1>4, <2>2, <3>1
  <2>4. (\E b \in j - 1 .. m : F(s - 1, b)) <=> \E k \in j .. m + 1 : f[<<s, k>>]
    <3>1. s \in i + 1 .. n + 1
      BY <1>2, <2>1
    <3>2. \A k \in j .. m + 1 : k - 1 \in j - 1 .. m /\ (f[<<s, k>>] <=> F(s - 1, k - 1))
      BY <1>1, <1>7, <3>1
    <3>3. \A b \in j - 1 .. m : b + 1 \in j .. m + 1 /\ (b + 1) - 1 = b
      BY <1>1
    <3>4. ASSUME NEW b \in j - 1 .. m, F(s - 1, b) PROVE \E k \in j .. m + 1 : f[<<s, k>>]
      <4>1. PICK k \in j .. m + 1 : k - 1 = b
        BY <3>3
      <4>2. f[<<s, k>>]
        BY <3>2, <3>4, <4>1
      <4>3. QED
        BY <4>2
    <3>5. ASSUME NEW k \in j .. m + 1, f[<<s, k>>] PROVE \E b \in j - 1 .. m : F(s - 1, b)
      BY <3>2, <3>5
    <3>6. QED
      BY <3>4, <3>5
  <2>5. MatchStep(f, pattern, name, s, i, j)
          <=> (s = n + 1 \/ \E k \in j .. m + 1 : f[<<s, k>>])
    BY <1>1, <1>10 DEF MatchStep
  <2>6. QED
    BY <2>2, <2>3, <2>4, <2>5 DEF F
<1>11. CASE i # n + 1 /\ j # m + 1 /\ pattern[i].kind # "star"
  <2>1. /\ i \in 1 .. n /\ i + 1 \in i + 1 .. n + 1
        /\ j - 1 < m /\ (j - 1) + 1 = j /\ j + 1 \in 1 .. m + 1
    BY <1>1, <1>3, <1>11
  <2>2. F(i - 1, j - 1) <=> Takes(pattern[i], name[j]) /\ F(i, j)
    BY <1>3, <1>5, <1>11, <2>1
  <2>3. f[<<i + 1, j + 1>>] <=> F(i, j)
    <3>1. (i + 1) - 1 = i /\ (j + 1) - 1 = j
      OBVIOUS
    <3>2. QED
      BY <1>7, <2>1, <3>1
  <2>4. MatchStep(f, pattern, name, s, i, j) <=> Takes(pattern[i], name[j]) /\ f[<<i + 1, j + 1>>]
    BY <1>1, <1>11 DEF MatchStep
  <2>5. QED
    BY <2>2, <2>3, <2>4 DEF F
<1>12. QED
  BY <1>8, <1>9, <1>10, <1>11

(* glob::fnmatch finds out whether the pattern fits the name.              *)
LEMMA FnMatchIs ==
    ASSUME NEW pattern \in Seq(Token), NEW name \in Seq(STRING)
    PROVE  FnMatch(pattern, name) <=> FitsFrom(pattern, name, 0, 0)
<1> DEFINE plen == Len(pattern) + 1
           nlen == Len(name) + 1
           skipStars(i) == CHOOSE k \in i .. plen :
                              /\ k = plen \/ pattern[k].kind # "star"
                              /\ \A l \in i .. k - 1 : pattern[l].kind = "star"
           value(f, at) == IF at[1] = plen \/ at[2] = nlen
                           THEN skipStars(at[1]) = plen /\ at[2] = nlen
                           ELSE IF pattern[at[1]].kind = "star"
                           THEN skipStars(at[1]) = plen
                                \/ \E k \in at[2] .. nlen : f[<<skipStars(at[1]), k>>]
                           ELSE Takes(pattern[at[1]], name[at[2]]) /\ f[<<at[1] + 1, at[2] + 1>>]
           D == (1 .. plen) \X (1 .. nlen)
           body(f) == [at \in D |-> value(f, at)]
           it == CHOOSE f : f = body(f)
<1>1. FnMatch(pattern, name) = it[<<1, 1>>]
  BY Zenon DEF FnMatch
<1>2. ASSUME NEW i \in 1 .. plen PROVE IsSkip(pattern, i, skipStars(i))
  <2>1. \E k \in i .. plen : /\ k = plen \/ pattern[k].kind # "star"
                             /\ \A l \in i .. k - 1 : pattern[l].kind = "star"
    BY SkipExists DEF IsSkip
  <2>2. /\ skipStars(i) \in i .. plen
        /\ skipStars(i) = plen \/ pattern[skipStars(i)].kind # "star"
        /\ \A l \in i .. skipStars(i) - 1 : pattern[l].kind = "star"
    BY <2>1, Zenon
  <2> HIDE DEF skipStars
  <2>3. QED
    BY <2>2 DEF IsSkip
<1> HIDE DEF skipStars
<1>3. ASSUME NEW f, NEW at \in D
      PROVE  value(f, at) = MatchStep(f, pattern, name, skipStars(at[1]), at[1], at[2])
  BY Zenon DEF MatchStep
<1> HIDE DEF value
<1>4. ASSUME NEW f, NEW i \in 1 .. plen, NEW j \in 1 .. nlen,
             \A k \in i + 1 .. plen : TellsFits(f, pattern, name, k)
      PROVE  value(f, <<i, j>>) <=> FitsFrom(pattern, name, i - 1, j - 1)
  <2>1. <<i, j>> \in D /\ <<i, j>>[1] = i /\ <<i, j>>[2] = j
    OBVIOUS
  <2>2. value(f, <<i, j>>) = MatchStep(f, pattern, name, skipStars(i), i, j)
    BY <1>3, <2>1
  <2>3. QED
    BY <1>2, <1>4, <2>2, MatchStepIs
<1>5. \E f : f = body(f)
  <2> DEFINE v == [at \in D |-> FitsFrom(pattern, name, at[1] - 1, at[2] - 1)]
             w == [at \in D |-> value(v, at)]
  <2>1. ASSUME NEW k \in 1 .. plen PROVE TellsFits(v, pattern, name, k)
    BY DEF TellsFits
  <2>2. ASSUME NEW i \in 1 .. plen, NEW j \in 1 .. nlen
        PROVE  w[<<i, j>>] <=> FitsFrom(pattern, name, i - 1, j - 1)
    <3>1. \A k \in i + 1 .. plen : k \in 1 .. plen
      OBVIOUS
    <3>2. <<i, j>> \in D
      OBVIOUS
    <3>3. w[<<i, j>>] = value(v, <<i, j>>)
      BY <3>2
    <3> HIDE DEF v, w
    <3>4. \A k \in i + 1 .. plen : TellsFits(v, pattern, name, k)
      BY <2>1, <3>1
    <3>5. QED
      BY <1>4, <3>3, <3>4
  <2>3. ASSUME NEW at \in D PROVE value(v, at) = value(w, at)
    <3>1. PICK i \in 1 .. plen, j \in 1 .. nlen : at = <<i, j>>
      OBVIOUS
    <3> HIDE DEF v, w
    <3>2. \A k \in i + 1 .. plen : TellsFits(v, pattern, name, k) /\ TellsFits(w, pattern, name, k)
      <4>1. \A k \in i + 1 .. plen : k \in 1 .. plen
        OBVIOUS
      <4>2. \A k \in 1 .. plen : TellsFits(w, pattern, name, k)
        BY <2>2 DEF TellsFits
      <4>3. QED
        BY <2>1, <4>1, <4>2
    <3>3. value(v, <<i, j>>) <=> value(w, <<i, j>>)
      BY <1>4, <3>2
    <3>4. value(v, at) \in BOOLEAN /\ value(w, at) \in BOOLEAN
      BY DEF value
    <3>5. QED
      BY <3>1, <3>3, <3>4
  <2>4. w = body(w)
    BY <2>3, Zenon
  <2> HIDE DEF w
  <2>5. QED
    BY <2>4
<1>6. it = body(it)
  <2> HIDE DEF body
  <2>1. QED
    BY <1>5, Zenon
<1> HIDE DEF it
<1>7. PICK f : f = it
  OBVIOUS
<1>8. \A at \in D : f[at] = value(f, at)
  <2>1. f = [at \in D |-> value(f, at)]
    BY <1>6, <1>7, Zenon
  <2>2. QED
    BY <2>1
<1> DEFINE T == {r \in 0 .. Len(pattern) :
                   \A i \in 1 .. plen : i >= plen - r => TellsFits(f, pattern, name, i)}
<1>9. ASSUME NEW i \in 1 .. plen, \A k \in i + 1 .. plen : TellsFits(f, pattern, name, k)
      PROVE  TellsFits(f, pattern, name, i)
  <2> SUFFICES ASSUME NEW j \in 1 .. nlen
               PROVE  f[<<i, j>>] <=> FitsFrom(pattern, name, i - 1, j - 1)
    BY DEF TellsFits
  <2>1. <<i, j>> \in D
    OBVIOUS
  <2>2. f[<<i, j>>] = value(f, <<i, j>>)
    BY <1>8, <2>1
  <2>3. value(f, <<i, j>>) <=> FitsFrom(pattern, name, i - 1, j - 1)
    BY <1>4, <1>9
  <2>4. QED
    BY <2>2, <2>3
<1>10. Len(pattern) \in Nat
  OBVIOUS
<1>11. 0 \in T
  BY <1>9, <1>10
<1>12. ASSUME NEW r \in 0 .. Len(pattern), r < Len(pattern), r \in T PROVE r + 1 \in T
  <2>1. ASSUME NEW i \in 1 .. plen, i >= plen - (r + 1) PROVE TellsFits(f, pattern, name, i)
    <3>1. \A k \in i + 1 .. plen : k \in 1 .. plen /\ k >= plen - r
      BY <1>10, <1>12, <2>1
    <3>2. \A k \in i + 1 .. plen : TellsFits(f, pattern, name, k)
      BY <1>12, <3>1
    <3>3. QED
      BY <1>9, <3>2
  <2>2. r + 1 \in 0 .. Len(pattern)
    BY <1>10, <1>12
  <2>3. QED
    BY <2>1, <2>2
<1> HIDE DEF T
<1>13. 0 .. Len(pattern) \subseteq T
  BY <1>10, <1>11, <1>12, InductionUpTo
<1>14. Len(pattern) \in T
  BY <1>10, <1>13
<1>15. TellsFits(f, pattern, name, 1)
  <2>1. 1 \in 1 .. plen /\ 1 >= plen - Len(pattern)
    BY <1>10
  <2>2. QED
    BY <1>14, <2>1 DEF T
<1>16. f[<<1, 1>>] <=> FitsFrom(pattern, name, 0, 0)
  <2>1. 1 \in 1 .. Len(name) + 1 /\ 1 - 1 = 0
    OBVIOUS
  <2>2. QED
    BY <1>15, <2>1 DEF TellsFits
<1>17. QED
  BY <1>1, <1>7, <1>16

(* A piece of a sequence.                                                  *)
LEMMA PieceIs ==
    ASSUME NEW S, NEW seq \in Seq(S), NEW a \in 0 .. Len(seq), NEW b \in 0 .. Len(seq), a <= b,
           NEW piece, piece = SubSeq(seq, a + 1, b)
    PROVE  /\ piece \in Seq(S) /\ Len(piece) = b - a
           /\ \A i \in 1 .. b - a : piece[i] = seq[a + i]
<1>1. PICK m \in Nat : m = Len(seq) /\ \A i \in 1 .. m : seq[i] \in S
  OBVIOUS
<1>2. a + 1 \in Int /\ b \in Int /\ a \in Int /\ \A i \in a + 1 .. b : seq[i] \in S
  BY <1>1
<1>3. /\ piece \in Seq(S) /\ Len(piece) = IF a + 1 <= b THEN b - (a + 1) + 1 ELSE 0
      /\ \A i \in 1 .. b - (a + 1) + 1 : piece[i] = seq[(a + 1) + i - 1]
  BY <1>2, SubSeqProperties
<1>4. b - (a + 1) + 1 = b - a /\ \A i \in 1 .. b - a : (a + 1) + i - 1 = a + i
  BY <1>2
<1>5. QED
  BY <1>2, <1>3, <1>4

(* A name matches a segment that fits it, hidden names apart.              *)
LEMMA NameMatchesIs ==
    ASSUME NEW segment \in Seq(Token), NEW name \in Seq(STRING)
    PROVE  NameMatches(segment, name)
             <=> (Hidden(name) => segment[1] = Lit(".")) /\ FitsFrom(segment, name, 0, 0)
<1>1. PICK n \in Nat, m \in Nat : n = Len(segment) /\ m = Len(name)
  OBVIOUS
<1> DEFINE taken(i, a, b) == \/ segment[i] = Star
                             \/ Len(SubSeq(name, a + 1, b)) = 1
                                /\ Takes(segment[i], SubSeq(name, a + 1, b)[1])
           R == TokenCuts(segment, name)
<1>2. NameMatches(segment, name)
        <=> /\ Hidden(name) => segment[1] = Lit(".")
            /\ \E cut \in [0 .. Len(segment) -> 0 .. Len(name)] :
                  /\ cut[0] = 0 /\ cut[Len(segment)] = Len(name)
                  /\ \A i \in 1 .. Len(segment) :
                        cut[i - 1] <= cut[i] /\ taken(i, cut[i - 1], cut[i])
  BY Zenon DEF NameMatches, CutsInto
<1>3. ASSUME NEW i \in 1 .. n, NEW a \in 0 .. m, NEW b \in 0 .. m, a <= b
      PROVE  taken(i, a, b) <=> <<i, a, b>> \in R
  <2>1. PICK piece : piece = SubSeq(name, a + 1, b)
    OBVIOUS
  <2>2. Len(piece) = b - a /\ \A k \in 1 .. b - a : piece[k] = name[a + k]
    BY <1>1, <1>3, <2>1, PieceIs
  <2>3. Len(piece) = 1 <=> b = a + 1
    BY <2>2
  <2>4. b = a + 1 => piece[1] = name[b]
    BY <2>2
  <2>5. <<i, a, b>> \in R <=> segment[i] = Star \/ (b = a + 1 /\ Takes(segment[i], name[b]))
    BY <1>1 DEF TokenCuts
  <2> HIDE DEF R
  <2>6. taken(i, a, b) <=> segment[i] = Star \/ (Len(piece) = 1 /\ Takes(segment[i], piece[1]))
    BY <2>1
  <2> HIDE DEF taken
  <2>7. QED
    BY <2>3, <2>4, <2>5, <2>6
<1> HIDE DEF taken, R
<1>4. ASSUME NEW cut \in [0 .. n -> 0 .. m], NEW i \in 1 .. n
      PROVE  (cut[i - 1] <= cut[i] /\ taken(i, cut[i - 1], cut[i]))
               <=> (cut[i - 1] <= cut[i] /\ <<i, cut[i - 1], cut[i]>> \in R)
  <2>1. cut[i - 1] \in 0 .. m /\ cut[i] \in 0 .. m
    OBVIOUS
  <2>2. QED
    BY <1>3, <2>1
<1>5. FitsFrom(segment, name, 0, 0)
        <=> \E cut \in [0 .. n -> 0 .. m] :
               /\ cut[0] = 0 /\ cut[n] = m
               /\ \A i \in 0 + 1 .. n : cut[i - 1] <= cut[i] /\ <<i, cut[i - 1], cut[i]>> \in R
  BY <1>1, Zenon DEF FitsFrom, Cuts, R
<1>6. 0 + 1 .. n = 1 .. n
  OBVIOUS
<1>7. QED
  BY <1>1, <1>2, <1>4, <1>5, <1>6, Zenon

(* glob_match finds out whether a name matches a segment.                  *)
LEMMA GlobMatchIs ==
    ASSUME NEW segment \in Seq(Token), segment # DoubleStar, NEW name \in Seq(STRING)
    PROVE  GlobMatch(segment, name) <=> NameMatches(segment, name)
BY FnMatchIs, NameMatchesIs, Zenon DEF GlobMatch

(* What the segments of a pattern take of a path.                          *)
SegmentCuts(segments, p) ==
    {t \in (1 .. Len(segments)) \X (0 .. Len(p)) \X (0 .. Len(p)) :
       IF segments[t[1]] = DoubleStar
       THEN \A x \in t[2] + 1 .. t[3] : ~Hidden(Spelling[p[x]])
       ELSE t[3] = t[2] + 1 /\ NameMatches(segments[t[1]], Spelling[p[t[3]]])}

(* The pattern after its first i segments leads to p from the directory    *)
(* of p's first d names.                                                   *)
Leads(segments, p, i, d) == Cuts(SegmentCuts(segments, p), Len(segments), Len(p), i, d)

(* A double star takes any number of directories that are not hidden.      *)
LEMMA LeadsStep ==
    ASSUME NEW segments \in Seq(Seq(Token)), NEW p \in Seq(Name),
           NEW i \in 0 .. Len(segments), NEW d \in 0 .. Len(p)
    PROVE  /\ i = Len(segments) => (Leads(segments, p, i, d) <=> d = Len(p))
           /\ i < Len(segments) /\ segments[i + 1] = DoubleStar
                => (Leads(segments, p, i, d)
                      <=> \/ Leads(segments, p, i + 1, d)
                          \/ /\ d < Len(p) /\ ~Hidden(Spelling[p[d + 1]])
                             /\ Leads(segments, p, i, d + 1))
           /\ i < Len(segments) /\ segments[i + 1] # DoubleStar
                => (Leads(segments, p, i, d)
                      <=> /\ d < Len(p) /\ NameMatches(segments[i + 1], Spelling[p[d + 1]])
                          /\ Leads(segments, p, i + 1, d + 1))
<1>1. PICK n \in Nat, m \in Nat : n = Len(segments) /\ m = Len(p)
  OBVIOUS
<1>2. i \in Nat /\ d \in 0 .. m /\ d \in Nat /\ i <= n
  BY <1>1
<1>3. PICK R : R = SegmentCuts(segments, p)
  OBVIOUS
<1>4. \A x, y : Leads(segments, p, x, y) <=> Cuts(R, n, m, x, y)
  BY <1>1, <1>3 DEF Leads
<1>5. ASSUME NEW k \in 1 .. n, NEW a \in 0 .. m, NEW b \in 0 .. m
      PROVE  <<k, a, b>> \in R <=> IF segments[k] = DoubleStar
                                   THEN \A x \in a + 1 .. b : ~Hidden(Spelling[p[x]])
                                   ELSE b = a + 1 /\ NameMatches(segments[k], Spelling[p[b]])
  BY <1>1, <1>3 DEF SegmentCuts
<1>6. i = n => (Cuts(R, n, m, i, d) <=> d = m)
  BY <1>2, CutsEnd
<1>7. ASSUME i < n, NEW e \in 0 .. m
      PROVE  Cuts(R, n, m, i, e)
               <=> \E b \in 0 .. m : e <= b /\ <<i + 1, e, b>> \in R /\ Cuts(R, n, m, i + 1, b)
  <2>1. i \in Nat
    BY <1>2
  <2>2. QED
    <3>1. n \in Nat /\ m \in Nat /\ e \in 0 .. m
      OBVIOUS
    <3>2. QED
      BY <1>7, <2>1, <3>1, CutsStep, ZenonT(30)
<1>8. ASSUME i < n, segments[i + 1] = DoubleStar
      PROVE  Cuts(R, n, m, i, d)
               <=> \/ Cuts(R, n, m, i + 1, d)
                   \/ d < m /\ ~Hidden(Spelling[p[d + 1]]) /\ Cuts(R, n, m, i, d + 1)
  <2>1. \A a, b \in 0 .. m : <<i + 1, a, b>> \in R
                                <=> \A x \in a + 1 .. b : ~Hidden(Spelling[p[x]])
    <3>1. i + 1 \in 1 .. n
      BY <1>2, <1>8
    <3>2. QED
      BY <1>5, <1>8, <3>1, Zenon
  <2>2. ASSUME NEW b \in 0 .. m, d <= b, <<i + 1, d, b>> \in R, Cuts(R, n, m, i + 1, b), d # b
        PROVE  d < m /\ ~Hidden(Spelling[p[d + 1]]) /\ Cuts(R, n, m, i, d + 1)
    <3>1. d < m /\ d + 1 \in 0 .. m /\ d + 1 <= b /\ d + 1 \in d + 1 .. b
      BY <1>2, <2>2
    <3>2. \A x \in d + 1 .. b : ~Hidden(Spelling[p[x]])
      BY <1>2, <2>1, <2>2
    <3>3. \A x \in (d + 1) + 1 .. b : x \in d + 1 .. b
      BY <1>2
    <3>4. <<i + 1, d + 1, b>> \in R
      BY <2>1, <3>1, <3>2, <3>3
    <3>5. QED
      BY <1>7, <1>8, <2>2, <3>1, <3>2, <3>4
  <2>3. ASSUME d < m, ~Hidden(Spelling[p[d + 1]]), Cuts(R, n, m, i, d + 1)
        PROVE  Cuts(R, n, m, i, d)
    <3>1. d + 1 \in 0 .. m
      BY <1>2, <2>3
    <3>2. PICK b \in 0 .. m : d + 1 <= b /\ <<i + 1, d + 1, b>> \in R /\ Cuts(R, n, m, i + 1, b)
      BY <1>7, <1>8, <2>3, <3>1
    <3>3. \A x \in (d + 1) + 1 .. b : ~Hidden(Spelling[p[x]])
      BY <2>1, <3>1, <3>2
    <3>4. \A x \in d + 1 .. b : x = d + 1 \/ x \in (d + 1) + 1 .. b
      BY <1>2
    <3>5. \A x \in d + 1 .. b : ~Hidden(Spelling[p[x]])
      BY <2>3, <3>3, <3>4, Zenon
    <3>6. <<i + 1, d, b>> \in R /\ d <= b
      BY <1>2, <2>1, <3>2, <3>5
    <3>7. QED
      BY <1>2, <1>7, <1>8, <3>2, <3>6
  <2>4. ASSUME Cuts(R, n, m, i + 1, d) PROVE Cuts(R, n, m, i, d)
    <3>1. d + 1 .. d = {} /\ d <= d
      BY <1>2
    <3>2. <<i + 1, d, d>> \in R
      BY <1>2, <2>1, <3>1
    <3>3. QED
      BY <1>2, <1>7, <1>8, <2>4, <3>1, <3>2
  <2>5. ASSUME Cuts(R, n, m, i, d)
        PROVE  \/ Cuts(R, n, m, i + 1, d)
               \/ d < m /\ ~Hidden(Spelling[p[d + 1]]) /\ Cuts(R, n, m, i, d + 1)
    <3>1. PICK b \in 0 .. m : d <= b /\ <<i + 1, d, b>> \in R /\ Cuts(R, n, m, i + 1, b)
      BY <1>2, <1>7, <1>8, <2>5
    <3>2. QED
      BY <2>2, <3>1
  <2>6. QED
    BY <2>3, <2>4, <2>5
<1>9. ASSUME i < n, segments[i + 1] # DoubleStar
      PROVE  Cuts(R, n, m, i, d) <=> /\ d < m /\ NameMatches(segments[i + 1], Spelling[p[d + 1]])
                                     /\ Cuts(R, n, m, i + 1, d + 1)
  <2>1. \A b \in 0 .. m : <<i + 1, d, b>> \in R
                             <=> b = d + 1 /\ NameMatches(segments[i + 1], Spelling[p[b]])
    BY <1>2, <1>5, <1>9
  <2>2. (d < m <=> d + 1 \in 0 .. m) /\ d <= d + 1
    BY <1>2
  <2>3. Cuts(R, n, m, i, d)
          <=> \E b \in 0 .. m : d <= b /\ <<i + 1, d, b>> \in R /\ Cuts(R, n, m, i + 1, b)
    BY <1>2, <1>7, <1>9
  <2>4. QED
    BY <2>1, <2>2, <2>3
<1>10. QED
  BY <1>1, <1>4, <1>6, <1>8, <1>9

(* The same for segment k of the pattern.                                  *)
LEMMA LeadsAt ==
    ASSUME NEW segments \in Seq(Seq(Token)), NEW p \in Seq(Name),
           NEW k \in 1 .. Len(segments), NEW d \in 0 .. Len(p), NEW name, name = Spelling[p[d + 1]]
    PROVE  /\ segments[k] = DoubleStar
                => (Leads(segments, p, k - 1, d)
                      <=> \/ Leads(segments, p, k, d)
                          \/ d < Len(p) /\ ~Hidden(name) /\ Leads(segments, p, k - 1, d + 1))
           /\ segments[k] # DoubleStar
                => (Leads(segments, p, k - 1, d)
                      <=> /\ d < Len(p) /\ NameMatches(segments[k], name)
                          /\ Leads(segments, p, k, d + 1))
<1>1. PICK i \in 0 .. Len(segments) : i = k - 1 /\ i < Len(segments) /\ i + 1 = k
  <2>1. k - 1 \in 0 .. Len(segments) /\ k - 1 < Len(segments) /\ (k - 1) + 1 = k
    OBVIOUS
  <2>2. QED
    BY <2>1
<1>2. /\ segments[i + 1] = DoubleStar
            => (Leads(segments, p, i, d)
                  <=> \/ Leads(segments, p, i + 1, d)
                      \/ /\ d < Len(p) /\ ~Hidden(Spelling[p[d + 1]])
                         /\ Leads(segments, p, i, d + 1))
      /\ segments[i + 1] # DoubleStar
            => (Leads(segments, p, i, d)
                  <=> /\ d < Len(p) /\ NameMatches(segments[i + 1], Spelling[p[d + 1]])
                      /\ Leads(segments, p, i + 1, d + 1))
  BY <1>1, LeadsStep, Zenon
<1>3. QED
  BY <1>1, <1>2, Zenon

(* A pattern that does not end in a double star does not end where names   *)
(* have run out.                                                           *)
LEMMA LeadsNowhere ==
    ASSUME NEW segments \in Seq(Seq(Token)), NEW p \in Seq(Name), segments # <<>>,
           segments[Len(segments)] # DoubleStar, NEW i \in 0 .. Len(segments) - 1
    PROVE  ~Leads(segments, p, i, Len(p))
<1>1. PICK n \in Nat, m \in Nat : n = Len(segments) /\ m = Len(p) /\ n # 0
  OBVIOUS
<1> DEFINE T == {r \in 0 .. n - 1 : ~Leads(segments, p, n - 1 - r, m)}
<1>2. ASSUME NEW k \in 0 .. n - 1, k + 1 < n => ~Leads(segments, p, k + 1, m)
      PROVE  ~Leads(segments, p, k, m)
  <2>1. k \in 0 .. Len(segments) /\ m \in 0 .. Len(p) /\ k < Len(segments) /\ ~(m < Len(p))
    BY <1>1
  <2>2. CASE segments[k + 1] # DoubleStar
    BY <2>1, <2>2, LeadsStep, Zenon
  <2>3. CASE segments[k + 1] = DoubleStar
    <3>1. k + 1 < n
      BY <1>1, <2>3
    <3>2. QED
      BY <1>2, <2>1, <2>3, <3>1, LeadsStep, Zenon
  <2>4. QED
    BY <2>2, <2>3
<1>3. 0 \in T
  <2>1. n - 1 - 0 \in 0 .. n - 1 /\ ~((n - 1 - 0) + 1 < n) /\ 0 \in 0 .. n - 1
    BY <1>1
  <2>2. QED
    BY <1>2, <2>1
<1>4. ASSUME NEW r \in 0 .. n - 1, r < n - 1, r \in T PROVE r + 1 \in T
  <2>1. PICK k \in 0 .. n - 1 : k = n - 1 - (r + 1)
    <3>1. n - 1 - (r + 1) \in 0 .. n - 1
      BY <1>1, <1>4
    <3>2. QED
      BY <3>1
  <2>2. k + 1 = n - 1 - r /\ r + 1 \in 0 .. n - 1
    BY <1>1, <1>4, <2>1
  <2>3. ~Leads(segments, p, k + 1, m)
    BY <1>4, <2>2
  <2>4. ~Leads(segments, p, k, m)
    BY <1>2, <2>3
  <2>5. QED
    BY <2>1, <2>2, <2>4
<1> HIDE DEF T
<1>5. 0 .. n - 1 \subseteq T
  <2>1. PICK k \in Nat : k = n - 1
    <3>1. n - 1 \in Nat
      BY <1>1
    <3>2. QED
      BY <3>1
  <2>2. \A r \in 0 .. k : r < k /\ r \in T => r + 1 \in T
    BY <1>4, <2>1
  <2>3. 0 .. k \subseteq T
    BY <1>3, <2>2, InductionUpTo
  <2>4. QED
    BY <2>1, <2>3
<1>6. n - 1 - i \in 0 .. n - 1 /\ n - 1 - (n - 1 - i) = i
  BY <1>1
<1>7. n - 1 - i \in T
  BY <1>5, <1>6
<1>8. QED
  BY <1>1, <1>6, <1>7 DEF T

(* A path matches a pattern that leads to it from the root.                *)
LEMMA PathMatchesIs ==
    ASSUME NEW segments \in Seq(Seq(Token)), NEW p \in Seq(Name)
    PROVE  PathMatches(segments, p)
             <=> /\ segments # <<>> /\ segments[Len(segments)] # DoubleStar
                 /\ Leads(segments, p, 0, 0)
<1>1. PICK n \in Nat, m \in Nat : n = Len(segments) /\ m = Len(p)
  OBVIOUS
<1> DEFINE taken(i, a, b) ==
             IF segments[i] = DoubleStar
             THEN \A k \in DOMAIN SubSeq(p, a + 1, b) : ~Hidden(Spelling[SubSeq(p, a + 1, b)[k]])
             ELSE /\ Len(SubSeq(p, a + 1, b)) = 1
                  /\ NameMatches(segments[i], Spelling[SubSeq(p, a + 1, b)[1]])
           R == SegmentCuts(segments, p)
<1>2. PathMatches(segments, p)
        <=> /\ segments # <<>> /\ Last(segments) # DoubleStar
            /\ \E cut \in [0 .. Len(segments) -> 0 .. Len(p)] :
                  /\ cut[0] = 0 /\ cut[Len(segments)] = Len(p)
                  /\ \A i \in 1 .. Len(segments) :
                        cut[i - 1] <= cut[i] /\ taken(i, cut[i - 1], cut[i])
  BY Zenon DEF PathMatches, CutsInto
<1>3. ASSUME NEW i \in 1 .. n, NEW a \in 0 .. m, NEW b \in 0 .. m, a <= b
      PROVE  taken(i, a, b) <=> <<i, a, b>> \in R
  <2>1. PICK piece : piece = SubSeq(p, a + 1, b)
    OBVIOUS
  <2>2. piece \in Seq(Name) /\ Len(piece) = b - a /\ \A k \in 1 .. b - a : piece[k] = p[a + k]
    BY <1>1, <1>3, <2>1, PieceIs
  <2>3. DOMAIN piece = 1 .. b - a
    BY <2>2
  <2>4. (Len(piece) = 1 <=> b = a + 1) /\ (b = a + 1 => piece[1] = p[b])
    BY <2>2
  <2>5. (\A k \in DOMAIN piece : ~Hidden(Spelling[piece[k]]))
          <=> \A x \in a + 1 .. b : ~Hidden(Spelling[p[x]])
    <3>1. ASSUME \A k \in DOMAIN piece : ~Hidden(Spelling[piece[k]]), NEW x \in a + 1 .. b
          PROVE  ~Hidden(Spelling[p[x]])
      <4>1. x - a \in DOMAIN piece /\ a + (x - a) = x
        BY <2>3
      <4>2. piece[x - a] = p[x]
        BY <2>2, <2>3, <4>1
      <4>3. QED
        BY <3>1, <4>1, <4>2
    <3>2. ASSUME \A x \in a + 1 .. b : ~Hidden(Spelling[p[x]]), NEW k \in DOMAIN piece
          PROVE  ~Hidden(Spelling[piece[k]])
      <4>1. a + k \in a + 1 .. b /\ piece[k] = p[a + k]
        BY <2>2, <2>3
      <4>2. QED
        BY <3>2, <4>1
    <3>3. QED
      BY <3>1, <3>2
  <2>6. <<i, a, b>> \in R <=> IF segments[i] = DoubleStar
                              THEN \A x \in a + 1 .. b : ~Hidden(Spelling[p[x]])
                              ELSE b = a + 1 /\ NameMatches(segments[i], Spelling[p[b]])
    BY <1>1 DEF SegmentCuts
  <2> HIDE DEF R
  <2>7. taken(i, a, b) <=> IF segments[i] = DoubleStar
                           THEN \A k \in DOMAIN piece : ~Hidden(Spelling[piece[k]])
                           ELSE Len(piece) = 1 /\ NameMatches(segments[i], Spelling[piece[1]])
    BY <2>1, Zenon
  <2> HIDE DEF taken
  <2>8. QED
    BY <2>4, <2>5, <2>6, <2>7
<1> HIDE DEF taken, R
<1>4. ASSUME NEW cut \in [0 .. n -> 0 .. m], NEW i \in 1 .. n
      PROVE  (cut[i - 1] <= cut[i] /\ taken(i, cut[i - 1], cut[i]))
               <=> (cut[i - 1] <= cut[i] /\ <<i, cut[i - 1], cut[i]>> \in R)
  <2>1. cut[i - 1] \in 0 .. m /\ cut[i] \in 0 .. m
    OBVIOUS
  <2>2. QED
    BY <1>3, <2>1
<1>5. Leads(segments, p, 0, 0)
        <=> \E cut \in [0 .. n -> 0 .. m] :
               /\ cut[0] = 0 /\ cut[n] = m
               /\ \A i \in 0 + 1 .. n : cut[i - 1] <= cut[i] /\ <<i, cut[i - 1], cut[i]>> \in R
  BY <1>1, Zenon DEF Leads, Cuts, R
<1>6. 0 + 1 .. n = 1 .. n
  OBVIOUS
<1>7. Last(segments) = segments[Len(segments)]
  BY DEF Last
<1>8. QED
  BY <1>1, <1>2, <1>4, <1>5, <1>6, <1>7, Zenon

(* What the recursion of iglob_recursive says of pattern segment i in the  *)
(* directory of p's first d names.                                         *)
HitStep(f, segments, p, d, i) ==
    IF i > Len(segments) \/ d = Len(p) THEN 0
    ELSE IF segments[i] = DoubleStar
    THEN f[<<d, i + 1>>]
         + (IF d + 1 < Len(p) /\ ~Hidden(Spelling[p[d + 1]]) THEN f[<<d + 1, i>>] ELSE 0)
    ELSE IF ~GlobMatch(segments[i], Spelling[p[d + 1]]) THEN 0
    ELSE IF i = Len(segments) THEN (IF d + 1 < Len(p) THEN 0 ELSE 1)
    ELSE IF d + 1 < Len(p) THEN f[<<d + 1, i + 1>>] ELSE 0

Places(segments, p) == (0 .. Len(p)) \X (1 .. Len(segments) + 1)

IsHits(f, segments, p) ==
    f = [at \in Places(segments, p) |-> HitStep(f, segments, p, at[1], at[2])]

(* Some function satisfies the recursion: one that does so for the last    *)
(* segments and names, and then for one more, and so on.                   *)
LEMMA HitsExist ==
    ASSUME NEW segments \in Seq(Seq(Token)), NEW p \in Seq(Name)
    PROVE  \E f : IsHits(f, segments, p)
<1>1. PICK n \in Nat, m \in Nat : n = Len(segments) /\ m = Len(p)
  OBVIOUS
<1> DEFINE D == (0 .. m) \X (1 .. n + 1)
           step(f, d, i) == HitStep(f, segments, p, d, i)
           Upto(k) == \E f \in [D -> Nat] : \A d \in 0 .. m, i \in 1 .. n + 1 :
                         (m - d) + (n + 1 - i) <= k => f[<<d, i>>] = step(f, d, i)
           T == {k \in 0 .. m + n : Upto(k)}
<1>2. ASSUME NEW f \in [D -> Nat], NEW d \in 0 .. m, NEW i \in 1 .. n + 1
      PROVE  step(f, d, i) \in Nat
  <2>1. CASE i > n \/ d = m
    BY <1>1, <2>1 DEF HitStep
  <2>2. CASE ~(i > n \/ d = m)
    <3>1. <<d, i + 1>> \in D /\ <<d + 1, i>> \in D /\ <<d + 1, i + 1>> \in D
      BY <1>1, <2>2
    <3>2. f[<<d, i + 1>>] \in Nat /\ f[<<d + 1, i>>] \in Nat /\ f[<<d + 1, i + 1>>] \in Nat
      BY <3>1
    <3>3. PICK a \in Nat, b \in Nat, c \in Nat :
             a = f[<<d, i + 1>>] /\ b = f[<<d + 1, i>>] /\ c = f[<<d + 1, i + 1>>]
      BY <3>2
    <3>4. step(f, d, i) \in {a + b, a + 0, 0, 1, c}
      BY <3>3, Zenon DEF HitStep
    <3>5. {a + b, a + 0, 0, 1, c} \subseteq Nat
      OBVIOUS
    <3> HIDE DEF step
    <3>6. QED
      BY <3>4, <3>5
  <2>3. QED
    BY <2>1, <2>2
<1>3. ASSUME NEW f, NEW g, NEW d \in 0 .. m, NEW i \in 1 .. n + 1,
             i <= n /\ d < m => /\ f[<<d, i + 1>>] = g[<<d, i + 1>>]
                                /\ f[<<d + 1, i>>] = g[<<d + 1, i>>]
                                /\ f[<<d + 1, i + 1>>] = g[<<d + 1, i + 1>>]
      PROVE  step(f, d, i) = step(g, d, i)
  <2>1. CASE i > n \/ d = m
    BY <1>1, <2>1 DEF HitStep
  <2>2. CASE ~(i > n \/ d = m)
    <3>1. i <= n /\ d < m
      BY <1>1, <2>2
    <3>2. QED
      BY <1>3, <3>1 DEF HitStep
  <2>3. QED
    BY <2>1, <2>2
<1> HIDE DEF step
<1>4. 0 \in T
  <2> DEFINE f == [at \in D |-> 0]
  <2>1. f \in [D -> Nat]
    OBVIOUS
  <2>2. ASSUME NEW d \in 0 .. m, NEW i \in 1 .. n + 1, (m - d) + (n + 1 - i) <= 0
        PROVE  f[<<d, i>>] = step(f, d, i)
    <3>1. d = m /\ i = n + 1 /\ i > n
      BY <1>1, <2>2
    <3>2. step(f, d, i) = 0
      BY <1>1, <3>1 DEF step, HitStep
    <3>3. QED
      BY <3>2
  <2> HIDE DEF f
  <2>3. Upto(0)
    BY <2>1, <2>2
  <2> HIDE DEF Upto
  <2>4. QED
    BY <1>1, <2>3
<1>5. ASSUME NEW k \in 0 .. m + n, k < m + n, k \in T PROVE k + 1 \in T
  <2>1. PICK f \in [D -> Nat] : \A d \in 0 .. m, i \in 1 .. n + 1 :
                         (m - d) + (n + 1 - i) <= k => f[<<d, i>>] = step(f, d, i)
    BY <1>5
  <2> DEFINE g == [at \in D |-> step(f, at[1], at[2])]
  <2>2. g \in [D -> Nat]
    BY <1>2
  <2>3. \A d \in 0 .. m, i \in 1 .. n + 1 : g[<<d, i>>] = step(f, d, i)
    OBVIOUS
  <2> HIDE DEF g
  <2>4. ASSUME NEW d \in 0 .. m, NEW i \in 1 .. n + 1, (m - d) + (n + 1 - i) <= k
        PROVE  g[<<d, i>>] = f[<<d, i>>]
    BY <2>1, <2>3, <2>4
  <2>5. ASSUME NEW d \in 0 .. m, NEW i \in 1 .. n + 1, (m - d) + (n + 1 - i) <= k + 1
        PROVE  g[<<d, i>>] = step(g, d, i)
    <3>1. ASSUME i <= n, d < m
          PROVE  /\ f[<<d, i + 1>>] = g[<<d, i + 1>>]
                 /\ f[<<d + 1, i>>] = g[<<d + 1, i>>]
                 /\ f[<<d + 1, i + 1>>] = g[<<d + 1, i + 1>>]
      <4>1. d + 1 \in 0 .. m /\ i + 1 \in 1 .. n + 1
        BY <1>1, <3>1
      <4>2. /\ (m - d) + (n + 1 - (i + 1)) <= k /\ (m - (d + 1)) + (n + 1 - i) <= k
            /\ (m - (d + 1)) + (n + 1 - (i + 1)) <= k
        BY <1>1, <1>5, <2>5
      <4>3. QED
        BY <2>4, <4>1, <4>2
    <3>2. step(f, d, i) = step(g, d, i)
      BY <1>3, <3>1
    <3>3. QED
      BY <2>3, <3>2
  <2>6. Upto(k + 1)
    BY <2>2, <2>5
  <2> HIDE DEF Upto
  <2>7. k + 1 \in 0 .. m + n
    BY <1>1, <1>5
  <2>8. QED
    BY <2>6, <2>7
<1>6. PICK last \in Nat : last = m + n
  BY <1>1
<1>7. last \in T
  <2> HIDE DEF T
  <2>1. \A k \in 0 .. last : k < last /\ k \in T => k + 1 \in T
    BY <1>5, <1>6
  <2>2. 0 .. last \subseteq T
    BY <1>4, <2>1, InductionUpTo
  <2>3. QED
    BY <2>2
<1>8. PICK f \in [D -> Nat] : \A d \in 0 .. m, i \in 1 .. n + 1 :
                         (m - d) + (n + 1 - i) <= last => f[<<d, i>>] = step(f, d, i)
  BY <1>7
<1>9. ASSUME NEW at \in D PROVE f[at] = HitStep(f, segments, p, at[1], at[2])
  <2>1. PICK d \in 0 .. m, i \in 1 .. n + 1 : at = <<d, i>>
    OBVIOUS
  <2>2. (m - d) + (n + 1 - i) <= last
    BY <1>1, <1>6
  <2>3. QED
    BY <1>8, <2>1, <2>2 DEF step
<1>10. f = [at \in D |-> HitStep(f, segments, p, at[1], at[2])]
  BY <1>9
<1>11. D = Places(segments, p)
  BY <1>1 DEF Places
<1>12. QED
  BY <1>10, <1>11 DEF IsHits

(* The pattern ends in a segment that is not a double star.                *)
Ends(segments) == segments # <<>> /\ segments[Len(segments)] # DoubleStar

NoStarFrom(segments, i) == \A k \in i .. Len(segments) : segments[k] # DoubleStar

OneStarFrom(segments, i) ==
    \A k, l \in i .. Len(segments) : segments[k] = DoubleStar /\ segments[l] = DoubleStar => k = l

(* From segment i and the first d names on, f counts how often p is found: *)
(* once at most if there is at most one double star, and then only if the  *)
(* names that are left are as many as the segments, or with the double     *)
(* star at least as many as the others.                                    *)
Counts(f, segments, p, d, i) ==
    /\ f[<<d, i>>] \in Nat
    /\ Ends(segments) /\ i <= Len(segments)
         => (f[<<d, i>>] > 0 <=> Leads(segments, p, i - 1, d))
    /\ ~Ends(segments) => f[<<d, i>>] = 0
    /\ NoStarFrom(segments, i)
         => f[<<d, i>>] <= 1 /\ (f[<<d, i>>] > 0 => Len(p) - d = Len(segments) - i + 1)
    /\ OneStarFrom(segments, i)
         => f[<<d, i>>] <= 1 /\ (f[<<d, i>>] > 0 => Len(p) - d >= Len(segments) - i)

(* A function that counts right from later places on does so from this.    *)
LEMMA CountsStep ==
    ASSUME NEW segments \in Seq(Seq(Token)), NEW p \in Seq(Name), NEW f,
           NEW d \in 0 .. Len(p), NEW i \in 1 .. Len(segments) + 1,
           f[<<d, i>>] = HitStep(f, segments, p, d, i),
           i <= Len(segments) /\ d < Len(p) => /\ Counts(f, segments, p, d, i + 1)
                                               /\ Counts(f, segments, p, d + 1, i)
                                               /\ Counts(f, segments, p, d + 1, i + 1)
    PROVE  Counts(f, segments, p, d, i)
<1>1. PICK n \in Nat, m \in Nat : n = Len(segments) /\ m = Len(p)
  OBVIOUS
<1> DEFINE L(x, y) == Leads(segments, p, x, y)
<1>2. PICK h : h = f[<<d, i>>]
  OBVIOUS
<1>3. SUFFICES /\ h \in Nat
               /\ Ends(segments) /\ i <= n => (h > 0 <=> L(i - 1, d))
               /\ ~Ends(segments) => h = 0
               /\ NoStarFrom(segments, i) => h <= 1 /\ (h > 0 => m - d = n - i + 1)
               /\ OneStarFrom(segments, i) => h <= 1 /\ (h > 0 => m - d >= n - i)
  BY <1>1, <1>2 DEF Counts
<1>4. ASSUME Ends(segments), NEW x \in 0 .. n - 1 PROVE ~L(x, m)
  BY <1>1, <1>4, LeadsNowhere DEF Ends
<1>5. CASE i > n \/ d = m
  <2>1. h = 0
    BY <1>1, <1>2, <1>5 DEF HitStep
  <2>2. ASSUME Ends(segments), i <= n PROVE ~L(i - 1, d)
    <3>1. d = m /\ i - 1 \in 0 .. n - 1
      BY <1>1, <1>5, <2>2
    <3>2. QED
      BY <1>4, <2>2, <3>1
  <2> HIDE DEF L
  <2>3. QED
    BY <2>1, <2>2
<1>6. CASE ~(i > n \/ d = m)
  <2>1. /\ i \in 1 .. n /\ i <= n /\ i + 1 \in 1 .. n + 1 /\ i - 1 \in 0 .. n - 1
        /\ d < m /\ d \in Nat /\ d + 1 \in 0 .. m
    <3>1. i \in Nat /\ 1 <= i /\ i <= n /\ d \in Nat /\ d < m
      BY <1>1, <1>6
    <3>2. i \in 1 .. n /\ i + 1 \in 1 .. n + 1 /\ i - 1 \in 0 .. n - 1
      BY <1>1, <3>1
    <3>3. d + 1 \in 0 .. m
      BY <1>1, <3>1
    <3>4. QED
      BY <3>1, <3>2, <3>3
  <2>2. PICK a, b, c : a = f[<<d, i + 1>>] /\ b = f[<<d + 1, i>>] /\ c = f[<<d + 1, i + 1>>]
    OBVIOUS
  <2>3. /\ a \in Nat /\ (Ends(segments) /\ i + 1 <= n => (a > 0 <=> L((i + 1) - 1, d)))
        /\ ~Ends(segments) => a = 0
        /\ NoStarFrom(segments, i + 1) => a <= 1 /\ (a > 0 => m - d = n - (i + 1) + 1)
        /\ OneStarFrom(segments, i + 1) => a <= 1 /\ (a > 0 => m - d >= n - (i + 1))
    BY <1>1, <2>1, <2>2 DEF Counts
  <2>4. /\ b \in Nat /\ (Ends(segments) /\ i <= n => (b > 0 <=> L(i - 1, d + 1)))
        /\ ~Ends(segments) => b = 0
        /\ NoStarFrom(segments, i) => b <= 1 /\ (b > 0 => m - (d + 1) = n - i + 1)
        /\ OneStarFrom(segments, i) => b <= 1 /\ (b > 0 => m - (d + 1) >= n - i)
    BY <1>1, <2>1, <2>2 DEF Counts
  <2>5. /\ c \in Nat /\ (Ends(segments) /\ i + 1 <= n => (c > 0 <=> L((i + 1) - 1, d + 1)))
        /\ ~Ends(segments) => c = 0
        /\ NoStarFrom(segments, i + 1) => c <= 1 /\ (c > 0 => m - (d + 1) = n - (i + 1) + 1)
        /\ OneStarFrom(segments, i + 1) => c <= 1 /\ (c > 0 => m - (d + 1) >= n - (i + 1))
    BY <1>1, <2>1, <2>2 DEF Counts
  <2>6. (i + 1) - 1 = i
    BY <2>1
  <2>7. PICK name : name = Spelling[p[d + 1]]
    OBVIOUS
  <2>8. name \in Seq(STRING) /\ segments[i] \in Seq(Token)
    <3>1. p[d + 1] \in Name
      BY <1>1, <2>1
    <3>2. QED
      BY <1>1, <2>1, <2>7, <3>1, GlobAssumption
  <2>9. h = IF segments[i] = DoubleStar
            THEN a + (IF d + 1 < m /\ ~Hidden(name) THEN b ELSE 0)
            ELSE IF ~GlobMatch(segments[i], name) THEN 0
            ELSE IF i = n THEN (IF d + 1 < m THEN 0 ELSE 1)
            ELSE IF d + 1 < m THEN c ELSE 0
    BY <1>1, <1>2, <1>6, <2>2, <2>7, Zenon DEF HitStep
  <2>10. CASE segments[i] = DoubleStar
    <3>1. PICK e \in Nat : /\ e = (IF d + 1 < m /\ ~Hidden(name) THEN b ELSE 0)
                           /\ e = b \/ e = 0
      BY <2>4
    <3>2. h = a + e
      BY <2>9, <2>10, <3>1
    <3>3. ASSUME Ends(segments) PROVE h > 0 <=> L(i - 1, d)
      <4>1. i # n /\ i + 1 <= n
        <5>1. segments[n] # DoubleStar
          BY <1>1, <3>3 DEF Ends
        <5>2. i # n
          BY <2>10, <5>1, Zenon
        <5>3. i \in Int /\ n \in Int /\ i <= n
          BY <2>1
        <5>4. QED
          BY ONLY <5>2, <5>3
      <4>2. L(i - 1, d) <=> L(i, d) \/ (d < m /\ ~Hidden(name) /\ L(i - 1, d + 1))
        <5>1. i \in 1 .. Len(segments) /\ d \in 0 .. Len(p)
          BY <1>1, <2>1
        <5>2. Leads(segments, p, i - 1, d)
                <=> \/ Leads(segments, p, i, d)
                    \/ d < Len(p) /\ ~Hidden(name) /\ Leads(segments, p, i - 1, d + 1)
          BY <2>7, <2>10, <5>1, LeadsAt, Zenon
        <5>3. QED
          BY <1>1, <5>2
      <4>3. ~(d + 1 < m) => ~L(i - 1, d + 1)
        <5>1. ~(d + 1 < m) => d + 1 = m
          BY <1>1, <2>1
        <5>2. QED
          BY <1>4, <2>1, <3>3, <5>1
      <4> HIDE DEF L
      <4>4. a > 0 <=> L(i, d)
        BY <2>3, <2>6, <3>3, <4>1
      <4>5. e > 0 <=> (d < m /\ ~Hidden(name) /\ L(i - 1, d + 1))
        BY <2>1, <2>4, <3>1, <3>3, <4>3
      <4>6. QED
        BY <2>3, <3>1, <3>2, <4>2, <4>4, <4>5
    <3>4. ~Ends(segments) => h = 0
      BY <2>3, <2>4, <3>1, <3>2
    <3>5. ~NoStarFrom(segments, i)
      <4>1. i \in i .. Len(segments)
        BY <1>1, <2>1
      <4>2. QED
        BY <2>10, <4>1 DEF NoStarFrom
    <3>6. ASSUME OneStarFrom(segments, i) PROVE h <= 1 /\ (h > 0 => m - d >= n - i)
      <4>1. NoStarFrom(segments, i + 1)
        <5>1. ASSUME NEW k \in i + 1 .. Len(segments) PROVE segments[k] # DoubleStar
          <6>1. i \in i .. Len(segments) /\ k \in i .. Len(segments) /\ k # i
            <7>1. Len(segments) \in Nat /\ i <= Len(segments) /\ i \in Nat
              BY <1>1, <2>1
            <7>2. QED
              BY <7>1
          <6>2. QED
            BY <2>10, <3>6, <6>1 DEF OneStarFrom
        <5>2. QED
          BY <5>1 DEF NoStarFrom
      <4>2. a <= 1 /\ (a > 0 => m - d = n - i)
        BY <1>1, <2>1, <2>3, <4>1
      <4>3. e <= 1 /\ (e > 0 => m - (d + 1) >= n - i)
        BY <2>4, <3>1, <3>6
      <4>4. PICK x \in Int, y \in Int : x = m - d /\ y = n - i /\ m - (d + 1) = x - 1
        <5>1. m \in Int /\ d \in Int /\ n \in Int /\ i \in Int
          BY <2>1
        <5>2. m - d \in Int /\ n - i \in Int /\ m - (d + 1) = (m - d) - 1
          BY ONLY <5>1
        <5>3. QED
          BY <5>2, Zenon
      <4>5. /\ a <= 1 /\ (a > 0 => x = y) /\ a \in Nat
            /\ e <= 1 /\ (e > 0 => x - 1 >= y) /\ e \in Nat
        BY <2>3, <3>1, <4>2, <4>3, <4>4
      <4>6. h <= 1 /\ (h > 0 => x >= y)
        BY <3>2, <4>5
      <4>7. QED
        BY <4>4, <4>6
    <3>7. h \in Nat
      BY <2>3, <3>1, <3>2
    <3> HIDE DEF L
    <3>8. QED
      BY <3>3, <3>4, <3>5, <3>6, <3>7
  <2>11. CASE segments[i] # DoubleStar
    <3>1. GlobMatch(segments[i], name) <=> NameMatches(segments[i], name)
      BY <2>8, <2>11, GlobMatchIs
    <3>2. L(i - 1, d) <=> NameMatches(segments[i], name) /\ L(i, d + 1)
      <4>1. i \in 1 .. Len(segments) /\ d \in 0 .. Len(p) /\ d < Len(p)
        BY <1>1, <2>1
      <4>2. QED
        BY <2>7, <2>11, <4>1, LeadsAt, Zenon
    <3>3. L(n, d + 1) <=> d + 1 = m
      <4>1. n \in 0 .. Len(segments) /\ d + 1 \in 0 .. Len(p)
        BY <1>1, <2>1
      <4>2. Leads(segments, p, n, d + 1) <=> d + 1 = Len(p)
        BY <1>1, <4>1, LeadsStep, Zenon
      <4>3. QED
        BY <1>1, <4>2
    <3>4. Ends(segments) /\ i < n => ~L(i, m)
      <4>1. i < n => i \in 0 .. n - 1
        BY <1>1, <2>1
      <4>2. QED
        BY <1>4, <4>1
    <3> HIDE DEF L
    <3>5. ~(d + 1 < m) <=> d + 1 = m
      BY <1>1, <2>1
    <3>6. NoStarFrom(segments, i) => NoStarFrom(segments, i + 1)
      <4>1. \A k \in i + 1 .. Len(segments) : k \in i .. Len(segments)
        BY <1>1, <2>1
      <4>2. QED
        BY <4>1, Zenon DEF NoStarFrom
    <3>7. OneStarFrom(segments, i) => OneStarFrom(segments, i + 1)
      <4>1. \A k \in i + 1 .. Len(segments) : k \in i .. Len(segments)
        BY <1>1, <2>1
      <4>2. QED
        BY <4>1, Zenon DEF OneStarFrom
    <3>8. CASE ~GlobMatch(segments[i], name)
      <4>1. h = 0
        BY <2>9, <2>11, <3>8
      <4>2. QED
        BY <3>1, <3>2, <3>8, <4>1
    <3>9. CASE GlobMatch(segments[i], name) /\ i = n
      <4>1. h = IF d + 1 < m THEN 0 ELSE 1
        BY <2>9, <2>11, <3>9
      <4>2. Ends(segments)
        <5>1. segments # <<>>
          BY <1>1, <2>1
        <5>2. QED
          BY <1>1, <2>11, <3>9, <5>1 DEF Ends
      <4>3. h > 0 <=> L(i - 1, d)
        BY <3>1, <3>2, <3>3, <3>5, <3>9, <4>1
      <4>4. h > 0 => m - d = n - i + 1 /\ m - d >= n - i
        BY <1>1, <2>1, <3>5, <3>9, <4>1
      <4>5. h \in Nat /\ h <= 1
        BY <4>1
      <4>6. QED
        BY <4>2, <4>3, <4>4, <4>5
    <3>10. CASE GlobMatch(segments[i], name) /\ i # n
      <4>1. h = IF d + 1 < m THEN c ELSE 0
        BY <2>9, <2>11, <3>10
      <4>2. i + 1 <= n /\ i < n
        BY <1>1, <2>1, <3>10
      <4>3. Ends(segments) => (h > 0 <=> L(i - 1, d))
        <5>1. Ends(segments) => (c > 0 <=> L(i, d + 1))
          BY <2>5, <2>6, <4>2
        <5>2. CASE d + 1 < m
          BY <3>1, <3>2, <3>10, <4>1, <5>1, <5>2
        <5>3. CASE ~(d + 1 < m)
          BY <3>2, <3>4, <3>5, <4>1, <4>2, <5>3
        <5>4. QED
          BY <5>2, <5>3
      <4>4. h = c \/ h = 0
        BY <4>1
      <4>5. NoStarFrom(segments, i) => h <= 1 /\ (h > 0 => m - d = n - i + 1)
        BY <1>1, <2>1, <2>5, <3>6, <4>4
      <4>6. OneStarFrom(segments, i) => h <= 1 /\ (h > 0 => m - d >= n - i)
        BY <1>1, <2>1, <2>5, <3>7, <4>4
      <4>7. h \in Nat /\ (~Ends(segments) => h = 0)
        BY <2>5, <4>4
      <4>8. QED
        BY <4>3, <4>5, <4>6, <4>7
    <3>11. QED
      BY <3>8, <3>9, <3>10
  <2>12. QED
    BY <2>10, <2>11
<1>7. QED
  BY <1>5, <1>6

(* Only such counts satisfy the recursion.                                 *)
LEMMA HitsCount ==
    ASSUME NEW segments \in Seq(Seq(Token)), NEW p \in Seq(Name), NEW f, IsHits(f, segments, p)
    PROVE  Counts(f, segments, p, 0, 1)
<1>1. PICK n \in Nat, m \in Nat : n = Len(segments) /\ m = Len(p)
  OBVIOUS
<1> DEFINE C(d, i) == Counts(f, segments, p, d, i)
           T == {k \in 0 .. m + n : \A d \in 0 .. m, i \in 1 .. n + 1 :
                                       (m - d) + (n + 1 - i) <= k => C(d, i)}
<1>2. ASSUME NEW d \in 0 .. m, NEW i \in 1 .. n + 1,
             i <= n /\ d < m => C(d, i + 1) /\ C(d + 1, i) /\ C(d + 1, i + 1)
      PROVE  C(d, i)
  <2>1. <<d, i>> \in Places(segments, p) /\ <<d, i>>[1] = d /\ <<d, i>>[2] = i
    BY <1>1 DEF Places
  <2>2. f[<<d, i>>] = HitStep(f, segments, p, d, i)
    BY <2>1 DEF IsHits
  <2>3. QED
    BY <1>1, <1>2, <2>2, CountsStep
<1> HIDE DEF C
<1>3. 0 \in T
  <2>1. ASSUME NEW d \in 0 .. m, NEW i \in 1 .. n + 1, (m - d) + (n + 1 - i) <= 0 PROVE C(d, i)
    <3>1. ~(i <= n /\ d < m)
      BY <1>1, <2>1
    <3>2. QED
      BY <1>2, <3>1
  <2>2. QED
    BY <1>1, <2>1
<1>4. ASSUME NEW k \in 0 .. m + n, k < m + n, k \in T PROVE k + 1 \in T
  <2>1. ASSUME NEW d \in 0 .. m, NEW i \in 1 .. n + 1, (m - d) + (n + 1 - i) <= k + 1 PROVE C(d, i)
    <3>1. ASSUME i <= n, d < m PROVE C(d, i + 1) /\ C(d + 1, i) /\ C(d + 1, i + 1)
      <4>1. d + 1 \in 0 .. m /\ i + 1 \in 1 .. n + 1
        BY <1>1, <3>1
      <4>2. /\ (m - d) + (n + 1 - (i + 1)) <= k /\ (m - (d + 1)) + (n + 1 - i) <= k
            /\ (m - (d + 1)) + (n + 1 - (i + 1)) <= k
        BY <1>1, <1>4, <2>1
      <4>3. \A x \in 0 .. m, y \in 1 .. n + 1 : (m - x) + (n + 1 - y) <= k => C(x, y)
        BY <1>4
      <4>4. QED
        BY <4>1, <4>2, <4>3
    <3>2. QED
      BY <1>2, <3>1
  <2>2. k + 1 \in 0 .. m + n
    BY <1>1, <1>4
  <2>3. QED
    BY <2>1, <2>2
<1>5. PICK last \in Nat : last = m + n
  BY <1>1
<1>6. last \in T
  <2> HIDE DEF T
  <2>1. \A k \in 0 .. last : k < last /\ k \in T => k + 1 \in T
    BY <1>4, <1>5
  <2>2. 0 .. last \subseteq T
    BY <1>3, <2>1, InductionUpTo
  <2>3. QED
    BY <2>2
<1>7. 0 \in 0 .. m /\ 1 \in 1 .. n + 1 /\ (m - 0) + (n + 1 - 1) <= last
  BY <1>1, <1>5
<1>8. QED
  BY <1>6, <1>7 DEF C

(* iglob_recursive counts so.                                              *)
LEMMA IGlobIs ==
    ASSUME NEW segments \in Seq(Seq(Token)), NEW p \in Seq(Name)
    PROVE  \E f : IsHits(f, segments, p) /\ IGlob(segments, p) = f[<<0, 1>>]
<1> DEFINE body(f) ==
             [at \in (0 .. Len(p)) \X (1 .. Len(segments) + 1) |->
                IF at[2] > Len(segments) \/ at[1] = Len(p) THEN 0
                ELSE IF segments[at[2]] = DoubleStar
                THEN f[<<at[1], at[2] + 1>>]
                     + (IF at[1] + 1 < Len(p) /\ ~Hidden(Spelling[p[at[1] + 1]])
                        THEN f[<<at[1] + 1, at[2]>>] ELSE 0)
                ELSE IF ~GlobMatch(segments[at[2]], Spelling[p[at[1] + 1]]) THEN 0
                ELSE IF at[2] = Len(segments) THEN (IF at[1] + 1 < Len(p) THEN 0 ELSE 1)
                ELSE IF at[1] + 1 < Len(p) THEN f[<<at[1] + 1, at[2] + 1>>] ELSE 0]
           it == CHOOSE f : f = body(f)
<1>1. IGlob(segments, p) = it[<<0, 1>>]
  BY Zenon DEF IGlob
<1>2. \A f : (f = body(f)) <=> IsHits(f, segments, p)
  BY Zenon DEF IsHits, HitStep, Places
<1> HIDE DEF body
<1>3. it = body(it)
  BY <1>2, HitsExist, Zenon
<1>4. IsHits(it, segments, p)
  BY <1>2, <1>3, Zenon
<1>5. QED
  BY <1>1, <1>4, Zenon

(* A set of at most one element has no two.                                *)
LEMMA AtMostOne ==
    ASSUME NEW S, IsFiniteSet(S), Cardinality(S) <= 1, NEW x \in S, NEW y \in S
    PROVE  x = y
<1>1. IsFiniteSet(S \ {x}) /\ Cardinality(S \ {x}) = Cardinality(S) - 1
  BY FS_RemoveElement
<1>2. Cardinality(S) \in Nat /\ Cardinality(S \ {x}) \in Nat
  BY <1>1, FS_CardinalityType
<1>3. Cardinality(S \ {x}) = 0
  BY <1>1, <1>2
<1>4. S \ {x} = {}
  BY <1>1, <1>3, FS_EmptySet
<1>5. QED
  BY <1>4

(* Whatever has been written, a glob finds exactly the files whose paths   *)
(* match the pattern, however long they and the pattern are, and with at   *)
(* most one double star it lists none of them twice (fs.cpp,               *)
(* iglob_recursive; glob.cpp, fnmatch and glob_match).                     *)
THEOREM GlobsFindMatches == Spec => []GlobFindsMatches
<1>1. GlobFindsMatches
  <2> SUFFICES ASSUME NEW segments \in Patterns, NEW p \in Files(tree)
               PROVE  /\ IGlob(segments, p) > 0 <=> PathMatches(segments, p)
                      /\ Cardinality({i \in DOMAIN segments : segments[i] = DoubleStar}) <= 1
                           => IGlob(segments, p) <= 1
    BY Zenon DEF GlobFindsMatches
  <2>1. segments \in Seq(Seq(Token)) /\ p \in Seq(Name)
    BY GlobAssumption, PathsAre DEF Files
  <2>2. PICK f : IsHits(f, segments, p) /\ IGlob(segments, p) = f[<<0, 1>>]
    BY <2>1, IGlobIs
  <2>3. Counts(f, segments, p, 0, 1)
    BY <2>1, <2>2, HitsCount
  <2>4. PICK hits : hits = IGlob(segments, p)
    OBVIOUS
  <2>5. /\ hits \in Nat
        /\ Ends(segments) /\ 1 <= Len(segments) => (hits > 0 <=> Leads(segments, p, 1 - 1, 0))
        /\ ~Ends(segments) => hits = 0
        /\ OneStarFrom(segments, 1) => hits <= 1
    BY <2>2, <2>3, <2>4 DEF Counts
  <2>6. Ends(segments) => 1 <= Len(segments)
    BY <2>1 DEF Ends
  <2>7. 1 - 1 = 0
    OBVIOUS
  <2>8. hits > 0 <=> PathMatches(segments, p)
    <3>1. PathMatches(segments, p) <=> Ends(segments) /\ Leads(segments, p, 0, 0)
      BY <2>1, PathMatchesIs, Zenon DEF Ends
    <3>2. QED
      BY <2>5, <2>6, <2>7, <3>1
  <2>9. ASSUME Cardinality({i \in DOMAIN segments : segments[i] = DoubleStar}) <= 1
        PROVE  hits <= 1
    <3> DEFINE S == {i \in DOMAIN segments : segments[i] = DoubleStar}
    <3>1. DOMAIN segments = 1 .. Len(segments) /\ Len(segments) \in Nat
      BY <2>1
    <3>2. IsFiniteSet(S)
      <4>1. IsFiniteSet(1 .. Len(segments))
        BY <3>1, FS_Interval
      <4>2. S \in SUBSET (1 .. Len(segments))
        BY <3>1
      <4>3. QED
        BY <4>1, <4>2, FS_Subset
    <3>3. \A k \in 1 .. Len(segments) : segments[k] = DoubleStar => k \in S
      BY <3>1
    <3> HIDE DEF S
    <3>4. Cardinality(S) <= 1
      BY <2>9 DEF S
    <3>5. \A k, l \in S : k = l
      BY <3>2, <3>4, AtMostOne
    <3>6. OneStarFrom(segments, 1)
      BY <3>3, <3>5, Zenon DEF OneStarFrom
    <3>7. QED
      BY <2>5, <3>6
  <2>10. QED
    BY <2>4, <2>8, <2>9
<1>2. QED
  BY <1>1, PTL
=============================================================================
