--------------------------- MODULE VostCopyProofs ----------------------------
(***************************************************************************)
(* Copies between a branch and a directory on disk, for any trees, filters *)
(* and edits by others: both stay trees wherever a call fails, and a call  *)
(* that nobody interferes with does what it was asked for.                 *)
(***************************************************************************)
EXTENDS VostCopy, VostTreeProofs

-----------------------------------------------------------------------------
(* Paths below the repository directory and below the one on disk.         *)

(* The repository directories a call may have.                             *)
Dests == At \cup {Root}

(* No directory that the path is in has a name that links give.            *)
Placed(p) == \A i \in 1 .. Len(p) - 1 : p[i] \notin Linked

(* A tree in which no directory has such a name.                           *)
Stock(t) ==
    /\ IsTree(t)
    /\ \A p \in Path : t[p] = DirEntry => p[Len(p)] \notin Linked

(* A destination is a path without such names.                             *)
LEMMA DestIs ==
    ASSUME NEW at \in Dests
    PROVE  at \in Dirs /\ at \in Seq(Name) /\ \A i \in 1 .. Len(at) : at[i] \notin Linked
<1>1. at \in Dirs /\ at \in Seq(Name)
  BY DirFacts, CopyAssumption DEF Dests, Dirs
<1>2. ASSUME NEW i \in 1 .. Len(at) PROVE at[i] \notin Linked
  <2>1. at \in At
    BY <1>2, PathsAre DEF Dests
  <2>2. i \in DOMAIN at
    BY <1>1
  <2>3. QED
    BY <2>1, <2>2, LinkAssumption
<1>3. QED
  BY <1>1, <1>2

(* The root is a prefix of everything.                                     *)
LEMMA RootFirst == ASSUME NEW p \in Seq(Name) PROVE Root \in Seq(Name) /\ IsPrefix(Root, p)
<1>1. Root \in Seq(Name) /\ Len(Root) = 0 /\ Len(p) \in Nat
  BY PathsAre
<1>2. IsPrefix(Root, p) <=> Len(Root) <= Len(p) /\ \A i \in 1 .. Len(Root) : Root[i] = p[i]
  BY <1>1, PrefixMeans
<1>3. Len(Root) <= Len(p) /\ 1 .. Len(Root) = {}
  BY <1>1
<1>4. QED
  BY <1>1, <1>2, <1>3

(* The segments of at, followed by those of rel.                           *)
IsUnder(p, at, rel) ==
    /\ Len(p) = Len(at) + Len(rel)
    /\ \A i \in 1 .. Len(at) : p[i] = at[i]
    /\ \A i \in 1 .. Len(rel) : p[Len(at) + i] = rel[i]

(* A path below a directory, and the way back.                             *)
LEMMA UnderIs ==
    ASSUME NEW at \in Seq(Name), NEW rel \in Seq(Name)
    PROVE  /\ Under(at, rel) \in Seq(Name) /\ IsUnder(Under(at, rel), at, rel)
           /\ Under(at, rel) = Renamed(Root, at, rel)
           /\ Relative(at, Under(at, rel)) = rel
<1>1. Root \in Seq(Name) /\ Len(Root) = 0 /\ IsPrefix(Root, rel)
  BY PathsAre, RootFirst
<1>2. Rest(Root, rel) = rel
  <2>1. Root \o Rest(Root, rel) = rel /\ Rest(Root, rel) = SubSeq(rel, 1, Len(rel))
    BY <1>1, RestRenamed DEF Rest
  <2>2. SubSeq(rel, 1, Len(rel)) = rel
    OBVIOUS
  <2>3. QED
    BY <2>1, <2>2
<1>3. Under(at, rel) = Renamed(Root, at, rel)
  BY <1>2 DEF Under, Renamed, Rest
<1>4. Relative(at, Under(at, rel)) = rel
  <2>1. Rest(at, Renamed(Root, at, rel)) = Rest(Root, rel)
    <3>1. PICK root \in Seq(Name) : root = Root /\ IsPrefix(root, rel)
      BY <1>1
    <3>2. Rest(at, Renamed(root, at, rel)) = Rest(root, rel)
      BY <3>1, RestRenamed
    <3>3. QED
      BY <3>1, <3>2
  <2>2. QED
    BY <1>2, <1>3, <2>1 DEF Relative, Rest
<1>5. at \o rel \in Seq(Name) /\ IsUnder(at \o rel, at, rel)
  BY DEF IsUnder
<1>6. QED
  BY <1>3, <1>4, <1>5 DEF Under

(* Paths below a directory lie to one another as they do below it.         *)
LEMMA UnderOrder ==
    ASSUME NEW at \in Seq(Name), NEW p \in Seq(Name), NEW q \in Seq(Name)
    PROVE  /\ IsPrefix(at, Under(at, p))
           /\ IsPrefix(Under(at, p), Under(at, q)) => IsPrefix(p, q)
           /\ IsStrictPrefix(Under(at, p), Under(at, q)) => IsStrictPrefix(p, q)
           /\ IsStrictPrefix(p, q) => IsStrictPrefix(Under(at, p), Under(at, q))
           /\ Under(at, p) = Under(at, q) => p = q
<1>1. Root \in Seq(Name) /\ IsPrefix(Root, p) /\ IsPrefix(Root, q)
  BY RootFirst
<1>2. Under(at, p) = Renamed(Root, at, p) /\ Under(at, q) = Renamed(Root, at, q)
  BY UnderIs
<1>3. ASSUME IsStrictPrefix(p, q) PROVE IsStrictPrefix(Under(at, p), Under(at, q))
  <2>1. PICK u \in Seq(Name), v \in Seq(Name) : u = Under(at, p) /\ v = Under(at, q)
    BY UnderIs
  <2>2. /\ Len(u) = Len(at) + Len(p) /\ Len(v) = Len(at) + Len(q)
        /\ \A i \in 1 .. Len(at) : u[i] = at[i] /\ v[i] = at[i]
        /\ \A i \in 1 .. Len(p) : u[Len(at) + i] = p[i]
        /\ \A i \in 1 .. Len(q) : v[Len(at) + i] = q[i]
    <3>1. IsUnder(u, at, p) /\ IsUnder(v, at, q)
      BY <2>1, UnderIs
    <3>2. QED
      BY <3>1 DEF IsUnder
  <2>3. Len(p) < Len(q) /\ \A i \in 1 .. Len(p) : p[i] = q[i]
    BY <1>3, PrefixMeans
  <2>4. PICK k \in Nat, m \in Nat, n \in Nat : k = Len(at) /\ m = Len(p) /\ n = Len(q)
    OBVIOUS
  <2>5. ASSUME NEW i \in 1 .. k + m PROVE u[i] = v[i]
    <3>1. CASE i <= k
      BY <2>2, <2>4, <3>1
    <3>2. CASE i > k
      <4>1. PICK j \in 1 .. m : i = k + j
        <5>1. i - k \in 1 .. m /\ i = k + (i - k)
          BY <3>2
        <5>2. QED
          BY <5>1
      <4>2. j \in 1 .. n
        BY <2>3, <2>4
      <4>3. QED
        BY <2>2, <2>3, <2>4, <4>1, <4>2
    <3>3. QED
      BY <3>1, <3>2
  <2>6. Len(u) = k + m /\ Len(v) = k + n /\ k + m < k + n
    BY <2>2, <2>3, <2>4
  <2>7. IsPrefix(u, v) /\ Len(u) < Len(v)
    <3>1. Len(u) <= Len(v) /\ Len(u) < Len(v) /\ \A i \in 1 .. Len(u) : u[i] = v[i]
      BY <2>5, <2>6
    <3>2. IsPrefix(u, v) <=> Len(u) <= Len(v) /\ \A i \in 1 .. Len(u) : u[i] = v[i]
      BY PrefixMeans
    <3>3. QED
      BY <3>1, <3>2
  <2>8. QED
    BY <2>1, <2>7, PrefixMeans
<1>4. QED
  BY <1>1, <1>2, <1>3, RenamedOrder

(* The rest of a path.                                                     *)
LEMMA RelativeIs ==
    ASSUME NEW at \in Dirs, NEW p \in Path, IsStrictPrefix(at, p)
    PROVE  Relative(at, p) \in Path /\ Under(at, Relative(at, p)) = p
<1>1. at \in Seq(Name) /\ p \in Seq(Name) /\ Root \in Seq(Name)
  BY DirFacts, PathsAre
<1>2. IsPrefix(at, p) /\ Len(at) < Len(p)
  BY <1>1, PrefixMeans
<1>3. Under(at, Relative(at, p)) = p
  BY <1>1, <1>2, RestRenamed DEF Under, Relative, Rest
<1>4. Relative(at, p) \in Seq(Name)
  <2>1. \A i \in Len(at) + 1 .. Len(p) : p[i] \in Name
    BY <1>1
  <2>2. Len(at) + 1 \in Int /\ Len(p) \in Int
    BY <1>1
  <2>3. QED
    BY <1>1, <2>1, <2>2, SubSeqProperties DEF Relative
<1>5. Len(p) = Len(at) + Len(Relative(at, p))
  BY <1>1, <1>3, <1>4, UnderIs DEF IsUnder
<1>6. Len(p) \in 1 .. MaxDepth /\ Len(at) \in Nat /\ Len(Relative(at, p)) \in Nat
      /\ MaxDepth \in Nat
  BY <1>1, <1>4, PathsAre, TreeAssumption
<1>7. Len(Relative(at, p)) \in 1 .. MaxDepth
  BY <1>2, <1>5, <1>6
<1>8. QED
  BY <1>3, <1>4, <1>7, PathsAre
(* The first segments of a path.                                           *)
LEMMA CutIs ==
    ASSUME NEW p \in Path, NEW i \in 1 .. Len(p) - 1
    PROVE  \E q \in Path : IsStrictPrefix(q, p) /\ Len(q) = i /\ q[i] = p[i]
<1>1. p \in Seq(Name) /\ Len(p) \in 1 .. MaxDepth /\ MaxDepth \in Nat
  BY PathsAre, TreeAssumption
<1>2. PICK q : q = SubSeq(p, 1, i)
  OBVIOUS
<1>3. q \in Seq(Name) /\ Len(q) = i /\ \A j \in 1 .. i : q[j] = p[j]
  <2>1. \A j \in 1 .. i : p[j] \in Name
    BY <1>1
  <2>2. 1 \in Int /\ i \in Int /\ i - 1 + 1 = i /\ \A j \in 1 .. i : 1 + j - 1 = j
    BY <1>1
  <2>3. q \in Seq(Name) /\ Len(q) = i - 1 + 1 /\ \A j \in 1 .. i - 1 + 1 : q[j] = p[1 + j - 1]
    BY <1>1, <1>2, <2>1, <2>2, SubSeqProperties
  <2>4. QED
    BY <2>2, <2>3
<1>4. q \in Path
  BY <1>1, <1>3, PathsAre
<1>5. IsStrictPrefix(q, p)
  <2>1. Len(q) <= Len(p) /\ Len(q) < Len(p) /\ \A j \in 1 .. Len(q) : q[j] = p[j]
    BY <1>1, <1>3
  <2>2. IsPrefix(q, p)
    BY <1>1, <1>3, <2>1, PrefixMeans
  <2>3. QED
    BY <1>1, <1>3, <2>1, <2>2, PrefixMeans
<1>6. QED
  BY <1>3, <1>4, <1>5

(* What is in a tree is in directories without such names.                 *)
LEMMA StockPlaced ==
    ASSUME NEW t, Stock(t), NEW p \in Path, t[p] # NoEntry
    PROVE  Placed(p)
<1> SUFFICES ASSUME NEW i \in 1 .. Len(p) - 1 PROVE p[i] \notin Linked
  BY DEF Placed
<1>1. PICK q \in Path : IsStrictPrefix(q, p) /\ Len(q) = i /\ q[i] = p[i]
  BY CutIs
<1>2. t[q] = DirEntry
  BY <1>1, InDirectories DEF Stock
<1>3. QED
  BY <1>1, <1>2 DEF Stock

(* Nor has a directory such a name that one has to make.                   *)
LEMMA PlacedAbove ==
    ASSUME NEW p \in Path, Placed(p), NEW q \in Path, IsStrictPrefix(q, p)
    PROVE  q[Len(q)] \notin Linked
<1>1. p \in Seq(Name) /\ q \in Seq(Name) /\ Len(p) \in Nat /\ Len(q) \in Nat /\ 1 <= Len(q)
  BY PathsAre
<1>2. Len(q) < Len(p) /\ \A i \in 1 .. Len(q) : q[i] = p[i]
  BY <1>1, PrefixMeans
<1>3. Len(q) \in 1 .. Len(p) - 1 /\ Len(q) \in 1 .. Len(q)
  BY <1>1, <1>2
<1>4. QED
  BY <1>2, <1>3 DEF Placed

(* Below a destination too.                                                *)
LEMMA UnderPlaced ==
    ASSUME NEW at \in Dests, NEW rel \in Path, Placed(rel)
    PROVE  Placed(Under(at, rel))
<1>1. PICK p : p = Under(at, rel)
  OBVIOUS
<1>2. /\ at \in Seq(Name) /\ rel \in Seq(Name)
      /\ \A i \in 1 .. Len(at) : at[i] \notin Linked
  BY DestIs, DirFacts
<1>3. PICK k \in Nat, n \in Nat : k = Len(at) /\ n = Len(rel)
  BY <1>2
<1>4. /\ Len(p) = k + n /\ \A i \in 1 .. k : p[i] = at[i]
      /\ \A i \in 1 .. n : p[k + i] = rel[i]
  BY <1>1, <1>2, <1>3, UnderIs DEF IsUnder
<1>5. ASSUME NEW i \in 1 .. (k + n) - 1 PROVE p[i] \notin Linked
  <2>1. CASE i <= k
    BY <1>2, <1>3, <1>4, <2>1
  <2>2. CASE i > k
    <3>1. PICK j \in 1 .. n - 1 : i = k + j
      <4>1. i - k \in 1 .. n - 1 /\ i = k + (i - k)
        BY <2>2
      <4>2. QED
        BY <4>1
    <3>2. p[i] = rel[j]
      BY <1>4, <3>1
    <3>3. QED
      BY <1>3, <3>1, <3>2 DEF Placed
  <2>3. QED
    BY <2>1, <2>2
<1>6. QED
  BY <1>1, <1>4, <1>5 DEF Placed

(* A path with the segments of another.                                    *)
LEMMA RelativePlaced ==
    ASSUME NEW at \in Dirs, NEW p \in Path, Placed(p), IsStrictPrefix(at, p)
    PROVE  Placed(Relative(at, p))
<1>1. PICK rel \in Path : rel = Relative(at, p) /\ p = Under(at, rel)
  BY RelativeIs
<1>2. at \in Seq(Name) /\ rel \in Seq(Name)
  BY DirFacts
<1>3. PICK k \in Nat, n \in Nat : k = Len(at) /\ n = Len(rel)
  BY <1>2
<1>4. Len(p) = k + n /\ \A i \in 1 .. n : p[k + i] = rel[i]
  <2>1. IsUnder(p, at, rel)
    BY <1>1, <1>2, UnderIs
  <2>2. QED
    BY <1>3, <2>1 DEF IsUnder
<1>5. ASSUME NEW i \in 1 .. n - 1 PROVE rel[i] \notin Linked
  <2>1. k + i \in 1 .. (k + n) - 1 /\ i \in 1 .. n
    OBVIOUS
  <2>2. QED
    BY <1>4, <2>1 DEF Placed
<1>6. QED
  BY <1>1, <1>3, <1>5 DEF Placed

-----------------------------------------------------------------------------
(* Trees stay trees, and directories without the names of links.           *)

(* The root of everything is a tree without anything.                      *)
LEMMA EmptyStock == Stock(EmptyTree)
<1>1. DirEntry # NoEntry
  BY DEF DirEntry, NoEntry
<1>2. QED
  BY <1>1 DEF Stock, IsTree, EmptyTree

(* rebuild_tree with placed paths.                                         *)
LEMMA RebuildStock ==
    ASSUME NEW base, Stock(base), NEW writes, IsWrites(writes), NEW removes, IsRemoves(removes),
           \A p \in Mentioned(writes, removes) : Placed(p)
    PROVE  Stock(RebuildTree(base, writes, removes))
<1>1. IsTree(RebuildTree(base, writes, removes))
  BY RebuildMakesTree DEF Stock
<1>2. Mentioned(writes, removes) \subseteq Path
  BY MentionedPaths DEF IsWrites
<1>3. ASSUME NEW p \in Path, RebuildTree(base, writes, removes)[p] = DirEntry
      PROVE  p[Len(p)] \notin Linked
  <2>1. CASE base[p] = DirEntry
    BY <2>1 DEF Stock
  <2>2. CASE \E w \in Mentioned(writes, removes) : IsStrictPrefix(p, w)
    BY <1>2, <2>2, PlacedAbove
  <2>3. QED
    BY <1>3, <2>1, <2>2, RebuildDirs
<1>4. QED
  BY <1>1, <1>3 DEF Stock

(* The paths that others edit.                                             *)
LEMMA EditIs ==
    ASSUME NEW e \in RepoEdits \cup DiskEdits
    PROVE  /\ e[1] \in Path /\ Placed(e[1]) /\ e[2] \in Data \cup {NoEntry, DirEntry}
           /\ e[2] = DirEntry => e[1][Len(e[1])] \notin Linked
           /\ e \in RepoEdits => e[2] \in Data \cup {NoEntry}
<1>1. /\ e[1] \in Path /\ e[2] \in Data \cup {NoEntry, DirEntry}
      /\ e \in RepoEdits => e[2] \in Data \cup {NoEntry}
  BY CopyAssumption
<1>2. e[1] \in Seq(Name) /\ DOMAIN e[1] = 1 .. Len(e[1]) /\ Len(e[1]) \in Nat /\ Len(e[1]) >= 1
  BY <1>1, PathsAre
<1>3. ASSUME NEW i \in 1 .. Len(e[1]), e[1][i] \in Linked
      PROVE  i = Len(e[1]) /\ e[2] # DirEntry
  BY <1>2, <1>3, LinkAssumption
<1>4. Placed(e[1])
  BY <1>2, <1>3 DEF Placed
<1>5. QED
  BY <1>1, <1>2, <1>3, <1>4

(* Directories are made where no file is in the way.                       *)
LEMMA MakeDirsIs ==
    ASSUME NEW d, Stock(d), NEW p \in Path, Placed(p),
           \A q \in Files(d) : ~IsStrictPrefix(q, p), NEW e, e = MakeDirs(d, p)
    PROVE  /\ Stock(e) /\ e[p] = d[p]
           /\ \A q \in Path : e[q] = IF IsStrictPrefix(q, p) THEN DirEntry ELSE d[q]
           /\ \A q \in Path : IsStrictPrefix(q, p) => d[q] \in {NoEntry, DirEntry}
           /\ Len(p) > 1 => e[Front(p)] = DirEntry
<1>1. \A q \in Path : e[q] = IF IsStrictPrefix(q, p) THEN DirEntry ELSE d[q]
  BY DEF MakeDirs
<1>2. p \in Seq(Name) /\ ~IsStrictPrefix(p, p) /\ d \in [Path -> Data \cup {NoEntry, DirEntry}]
  BY DirFacts, PrefixOrder DEF Stock, IsTree
<1>3. ASSUME NEW q \in Path, e[q] # NoEntry, Len(q) > 1 PROVE e[Front(q)] = DirEntry
  <2>1. Front(q) \in Path /\ IsStrictPrefix(Front(q), q) /\ q \in Seq(Name) /\ Front(q) \in Seq(Name)
    BY <1>3, DirFacts
  <2>2. CASE IsStrictPrefix(q, p)
    <3>1. IsStrictPrefix(Front(q), p)
      BY <1>2, <2>1, <2>2, PrefixOrder
    <3>2. QED
      BY <1>1, <2>1, <3>1
  <2>3. CASE ~IsStrictPrefix(q, p)
    <3>1. d[Front(q)] = DirEntry
      BY <1>1, <1>3, <2>3 DEF Stock, IsTree
    <3>2. QED
      BY <1>1, <2>1, <3>1
  <2>4. QED
    BY <2>2, <2>3
<1>4. IsTree(e)
  <2>1. e \in [Path -> Data \cup {NoEntry, DirEntry}]
    BY <1>2 DEF MakeDirs
  <2>2. QED
    BY <1>3, <2>1 DEF IsTree
<1>5. ASSUME NEW q \in Path, e[q] = DirEntry PROVE q[Len(q)] \notin Linked
  <2>1. CASE IsStrictPrefix(q, p)
    BY <2>1, PlacedAbove
  <2>2. CASE ~IsStrictPrefix(q, p)
    BY <1>1, <1>5, <2>2 DEF Stock
  <2>3. QED
    BY <2>1, <2>2
<1>6. \A q \in Path : IsStrictPrefix(q, p) => d[q] \in {NoEntry, DirEntry}
  BY <1>2 DEF Files
<1>7. Len(p) > 1 => e[Front(p)] = DirEntry
  BY <1>1, DirFacts
<1>8. QED
  BY <1>1, <1>2, <1>4, <1>5, <1>6, <1>7 DEF Stock

(* One entry is put into a directory that is there, or taken away.         *)
LEMMA PutIs ==
    ASSUME NEW d, Stock(d), NEW p \in Path, Len(p) > 1 => d[Front(p)] = DirEntry,
           NEW x \in Data \cup {NoEntry, DirEntry}, x = DirEntry => p[Len(p)] \notin Linked,
           d[p] = DirEntry => ~Holds(d, p), NEW e, e = [d EXCEPT ![p] = x]
    PROVE  Stock(e)
<1>1. /\ d \in [Path -> Data \cup {NoEntry, DirEntry}] /\ e \in [Path -> Data \cup {NoEntry, DirEntry}]
      /\ \A q \in Path : e[q] = IF q = p THEN x ELSE d[q]
  BY DEF Stock, IsTree
<1>2. DirEntry \notin Data /\ NoEntry # DirEntry
  BY TreeAssumption DEF NoEntry, DirEntry
<1>3. ASSUME NEW q \in Path, e[q] # NoEntry, Len(q) > 1 PROVE e[Front(q)] = DirEntry
  <2>1. Front(q) \in Path /\ IsStrictPrefix(Front(q), q) /\ q \in Seq(Name)
    BY <1>3, DirFacts
  <2>2. CASE q = p
    <3>1. Front(q) # p
      BY <2>1, <2>2 DEF IsStrictPrefix
    <3>2. QED
      BY <1>1, <1>3, <2>1, <2>2, <3>1
  <2>3. CASE q # p
    <3>1. d[Front(q)] = DirEntry /\ d[q] # NoEntry
      BY <1>1, <1>3, <2>3 DEF Stock, IsTree
    <3>2. Front(q) # p
      BY <2>1, <3>1 DEF Holds
    <3>3. QED
      BY <1>1, <2>1, <3>1, <3>2
  <2>4. QED
    BY <2>2, <2>3
<1>4. IsTree(e)
  BY <1>1, <1>3 DEF IsTree
<1>5. QED
  BY <1>1, <1>4 DEF Stock

(* Entries go together with what is below them.                            *)
LEMMA CutOutIs ==
    ASSUME NEW d, Stock(d), NEW X,
           \A p \in X \cap Path, q \in Path : IsStrictPrefix(p, q) /\ d[q] # NoEntry => q \in X,
           NEW e, e = [p \in Path |-> IF p \in X THEN NoEntry ELSE d[p]]
    PROVE  Stock(e)
<1>1. /\ d \in [Path -> Data \cup {NoEntry, DirEntry}] /\ e \in [Path -> Data \cup {NoEntry, DirEntry}]
      /\ \A q \in Path : e[q] = IF q \in X THEN NoEntry ELSE d[q]
  BY DEF Stock, IsTree
<1>2. NoEntry # DirEntry
  BY DEF NoEntry, DirEntry
<1>3. ASSUME NEW q \in Path, e[q] # NoEntry, Len(q) > 1 PROVE e[Front(q)] = DirEntry
  <2>1. Front(q) \in Path /\ IsStrictPrefix(Front(q), q)
    BY <1>3, DirFacts
  <2>2. q \notin X /\ d[q] # NoEntry
    BY <1>1, <1>3
  <2>3. d[Front(q)] = DirEntry
    BY <1>3, <2>2 DEF Stock, IsTree
  <2>4. QED
    BY <1>1, <2>1, <2>2, <2>3
<1>4. IsTree(e)
  BY <1>1, <1>3 DEF IsTree
<1>5. QED
  BY <1>1, <1>2, <1>4 DEF Stock

(* The target of a link is a sibling.                                      *)
LEMMA TargetIs ==
    ASSUME NEW d, Stock(d), NEW p \in Path, IsLink(d, p), NEW q, q = LinkTarget(d, p)
    PROVE  /\ q \in Path /\ Len(q) = Len(p) /\ Front(q) = Front(p)
           /\ d[q] # DirEntry
<1>1. /\ p \in Seq(Name) /\ Len(p) \in 1 .. MaxDepth /\ p # <<>>
      /\ MaxDepth \in Nat
  BY PathsAre, TreeAssumption
<1>2. PICK f \in Seq(Name) : f = Front(p) /\ Len(f) = Len(p) - 1
  BY <1>1, FrontIs
<1>3. PICK c \in Linked : c = Content[d[p]] /\ c \in Name
  BY LinkAssumption DEF IsLink, Links, Linked
<1>4. q = Append(f, c)
  BY <1>2, <1>3 DEF LinkTarget
<1>5. q \in Seq(Name) /\ Len(q) = Len(p) /\ q[Len(q)] = c
  BY <1>1, <1>2, <1>3, <1>4
<1>6. q \in Path
  BY <1>1, <1>5, PathsAre
<1>7. Front(q) = f
  <2>1. q # <<>>
    BY <1>1, <1>5
  <2>2. /\ Front(q) \in Seq(Name) /\ Len(Front(q)) = Len(q) - 1
        /\ \A i \in 1 .. Len(q) - 1 : Front(q)[i] = q[i]
    BY <1>5, <2>1, FrontIs
  <2>3. \A i \in 1 .. Len(f) : q[i] = f[i]
    BY <1>4
  <2>4. Len(Front(q)) = Len(f) /\ \A i \in 1 .. Len(f) : Front(q)[i] = f[i]
    BY <1>1, <1>2, <1>5, <2>2, <2>3
  <2>5. QED
    BY <2>2, <2>4, SeqEqual
<1>8. QED
  BY <1>2, <1>3, <1>5, <1>6, <1>7 DEF Stock

(* disk_walk finds files.                                                  *)
LEMMA WalkFinds ==
    ASSUME NEW d, Stock(d), NEW rel \in DiskWalk(d)
    PROVE  rel \in Files(d) /\ rel \in Path /\ Placed(rel)
<1>1. PICK p \in Files(d) :
         rel = IF IsLink(d, p) /\ d[LinkTarget(d, p)] # NoEntry THEN LinkTarget(d, p) ELSE p
  BY DEF DiskWalk
<1>2. p \in Path /\ d \in [Path -> Data \cup {NoEntry, DirEntry}]
  BY DEF Files, Stock, IsTree
<1>3. rel \in Path /\ d[rel] \notin {NoEntry, DirEntry}
  <2>1. CASE IsLink(d, p) /\ d[LinkTarget(d, p)] # NoEntry
    BY <1>1, <1>2, <2>1, TargetIs
  <2>2. CASE ~(IsLink(d, p) /\ d[LinkTarget(d, p)] # NoEntry)
    BY <1>1, <2>2, TreeAssumption DEF Files
  <2>3. QED
    BY <2>1, <2>2
<1>4. QED
  BY <1>2, <1>3, StockPlaced DEF Files

(* All of them, when there are no links.                                   *)
LEMMA WalkFindsAll ==
    ASSUME NEW d, NoLinks(d)
    PROVE  DiskWalk(d) = Files(d)
BY DEF NoLinks, DiskWalk, Files

(* What is written to a file that is there or not.                         *)
LEMMA OverwrittenIs ==
    ASSUME NEW old, NEW data \in Data, Mode[data] # "link"
    PROVE  /\ Overwritten(old, data) \in Data
           /\ Content[Overwritten(old, data)] = Content[data]
           /\ Mode[Overwritten(old, data)] \in {Mode[data], "exec"}
<1>1. PICK mode \in {"blob", "exec"} :
         /\ mode = IF "exec" \in {Mode[data]} \cup (IF old \in Data THEN {Mode[old]} ELSE {})
                   THEN "exec" ELSE "blob"
         /\ mode \in {Mode[data], "exec"}
  <2>1. Mode[data] \in {"blob", "exec"}
    BY CopyAssumption
  <2>2. QED
    BY <2>1
<1>2. \E new \in Data : Content[new] = Content[data] /\ Mode[new] = mode
  BY ModeAssumption
<1>3. Overwritten(old, data) = CHOOSE new \in Data : Content[new] = Content[data] /\ Mode[new] = mode
  BY <1>1 DEF Overwritten
<1>4. /\ Overwritten(old, data) \in Data
      /\ Content[Overwritten(old, data)] = Content[data] /\ Mode[Overwritten(old, data)] = mode
  BY <1>2, <1>3
<1>5. QED
  BY <1>1, <1>4

(* Writing one file, through a link too.                                   *)
LEMMA WrittenIs ==
    ASSUME NEW d, Stock(d), NEW p \in Path, Len(p) > 1 => d[Front(p)] = DirEntry,
           NEW data \in Data,
           Mode[data] = "link" => ~(d[p] = DirEntry /\ Holds(d, p)),
           NEW e, e = Written(d, p, data)
    PROVE  Stock(e)
<1>1. DirEntry \notin Data /\ p \in Path
  BY TreeAssumption
<1>2. CASE Mode[data] = "link"
  <2>1. e = [d EXCEPT ![p] = data]
    BY <1>2 DEF Written
  <2>2. QED
    BY <1>1, <1>2, <2>1, PutIs
<1>3. CASE Mode[data] # "link"
  <2>1. PICK q \in Path : /\ q = IF IsLink(d, p) THEN LinkTarget(d, p) ELSE p
                          /\ Len(q) = Len(p) /\ (Len(q) > 1 => d[Front(q)] = DirEntry)
    <3>1. CASE IsLink(d, p)
      <4>1. PICK q : q = LinkTarget(d, p)
        OBVIOUS
      <4>2. q \in Path /\ Len(q) = Len(p) /\ Front(q) = Front(p)
        BY <3>1, <4>1, TargetIs
      <4>3. QED
        BY <3>1, <4>1, <4>2
    <3>2. CASE ~IsLink(d, p)
      BY <3>2
    <3>3. QED
      BY <3>1, <3>2
  <2>2. e = IF d[q] = DirEntry THEN d ELSE [d EXCEPT ![q] = Overwritten(d[q], data)]
    BY <1>3, <2>1 DEF Written
  <2>3. PICK new \in Data : new = Overwritten(d[q], data)
    BY <1>3, OverwrittenIs
  <2>4. CASE d[q] = DirEntry
    BY <2>2, <2>4
  <2>5. CASE d[q] # DirEntry
    BY <1>1, <2>1, <2>2, <2>3, <2>5, PutIs
  <2>6. QED
    BY <2>4, <2>5
<1>4. QED
  BY <1>2, <1>3

-----------------------------------------------------------------------------
(* The inductive invariant: what calls know is placed, the snapshot is the *)
(* branch's while nobody has committed, and each commit has its call.      *)

AnyFilter == Filters \cup {CHOOSE f \in Filters : TRUE}

Calls ==
    [pc : {"idle", "read", "write", "delete", "prune"},
     op : {"none", "copy_in", "sync_in", "copy_out", "sync_out"},
     at : Dests, filter : AnyFilter, checksum : BOOLEAN, dry_run : BOOLEAN,
     base : Trees, commit : Nat, listed : SUBSET Path, todo : SUBSET Path,
     existing : Writes, writes : Writes,
     add : SUBSET Path, update : SUBSET Path, del : SUBSET Path,
     outcome : {"none", "ok", "error", "NotFound", "NotADirectory", "StaleSnapshot"},
     disk0 : Trees, quiet : BOOLEAN]

(* What a call has listed, and is about to write.                          *)
ListsOK(c) ==
    /\ c.todo \subseteq c.listed
    /\ \A rel \in c.listed : Placed(rel)
    /\ \A p \in DOMAIN c.writes : p \in Path /\ Placed(p)
    /\ \A rel \in DOMAIN c.existing : rel \in Path /\ Placed(rel) /\ Under(c.at, rel) \in Path
    /\ c.pc = "read" => \A rel \in c.listed : Under(c.at, rel) \in Path
    /\ c.pc = "write" => \A rel \in c.listed : Under(c.at, rel) \in Files(c.base)

SnapshotOK ==
    /\ call.commit <= ncommits /\ (call.commit = ncommits => call.base = tree)
    /\ ncommits + (IF call.pc = "read" THEN 1 ELSE 0) <= nops

CopyInv ==
    /\ Stock(tree) /\ Stock(disk)
    /\ nops \in 0 .. MaxOps /\ ncommits \in Nat
    /\ call \in Calls /\ Stock(call.base) /\ ListsOK(call) /\ SnapshotOK

(* The call that nobody has made.                                          *)
LEMMA NoCallIs == NoCall \in Calls /\ Stock(NoCall.base) /\ ListsOK(NoCall)
<1>1. EmptyTree \in Trees /\ NoFiles \in Writes /\ DOMAIN NoFiles = {}
  BY EmptyStock, SetsAre, NoWriteIs DEF Stock, NoFiles
<1>2. PICK t \in Trees, w \in Writes, f \in AnyFilter :
         t = EmptyTree /\ w = NoFiles /\ DOMAIN w = {} /\ f = (CHOOSE g \in Filters : TRUE)
  BY <1>1 DEF AnyFilter
<1>3. NoCall = [pc |-> "idle", op |-> "none", at |-> Root, filter |-> f,
                checksum |-> TRUE, dry_run |-> FALSE, base |-> t, commit |-> 0,
                listed |-> {}, todo |-> {}, existing |-> w, writes |-> w,
                add |-> {}, update |-> {}, del |-> {}, outcome |-> "none",
                disk0 |-> t, quiet |-> TRUE]
  BY <1>2 DEF NoCall
<1>4. Root \in Dests
  BY DEF Dests
<1>5. NoCall \in Calls
  BY <1>3, <1>4 DEF Calls
<1>6. ListsOK(NoCall)
  BY <1>2, <1>3 DEF ListsOK
<1>7. QED
  BY <1>2, <1>3, <1>5, <1>6, EmptyStock

(* A call that begins.                                                     *)
Begun(c, op, at, filter, checksum, dry_run) ==
    /\ c.pc = "idle" /\ c.op = op /\ c.at = at /\ c.filter = filter
    /\ c.checksum = checksum /\ c.dry_run = dry_run
    /\ c.base = tree /\ c.commit = ncommits /\ c.disk0 = disk /\ c.quiet = TRUE
    /\ c.listed = {} /\ c.todo = {} /\ DOMAIN c.existing = {} /\ DOMAIN c.writes = {}
    /\ c.add = {} /\ c.update = {} /\ c.del = {} /\ c.outcome = "none"

(* A call begins so, and well typed.                                       *)
LEMMA BeginIs ==
    ASSUME CopyInv, NEW op \in {"copy_in", "sync_in", "copy_out", "sync_out"}, NEW at \in At,
           NEW filter \in Filters, NEW checksum \in BOOLEAN, NEW dry_run \in BOOLEAN,
           NEW c, c = Begin(op, at, filter, checksum, dry_run)
    PROVE  c \in Calls /\ ListsOK(c) /\ Begun(c, op, at, filter, checksum, dry_run)
<1>1. PICK n \in Calls : n = NoCall
  BY NoCallIs
<1>2. /\ n.pc = "idle" /\ n.listed = {} /\ n.todo = {} /\ n.add = {} /\ n.update = {} /\ n.del = {}
      /\ n.outcome = "none" /\ n.quiet = TRUE /\ DOMAIN n.existing = {} /\ DOMAIN n.writes = {}
  BY <1>1, NoWriteIs DEF NoCall, NoFiles
<1>3. tree \in Trees /\ disk \in Trees /\ ncommits \in Nat /\ at \in Dests /\ filter \in AnyFilter
  BY SetsAre DEF CopyInv, Stock, Dests, AnyFilter
<1>4. c = [n EXCEPT !.op = op, !.at = at, !.filter = filter, !.checksum = checksum,
                    !.dry_run = dry_run, !.base = tree, !.commit = ncommits, !.disk0 = disk]
  BY <1>1 DEF Begin
<1>5. c \in Calls
  <2>1. PICK d \in Calls : d = [n EXCEPT !.op = op, !.at = at, !.filter = filter,
                                         !.checksum = checksum]
    BY <1>3 DEF Calls
  <2>2. PICK e \in Calls : e = [d EXCEPT !.dry_run = dry_run, !.base = tree]
    BY <1>3 DEF Calls
  <2>3. c = [e EXCEPT !.commit = ncommits, !.disk0 = disk]
    BY <1>4, <2>1, <2>2 DEF Calls
  <2>4. QED
    BY <1>3, <2>3 DEF Calls
<1>6. Begun(c, op, at, filter, checksum, dry_run)
  BY <1>2, <1>4 DEF Calls, Begun
<1>7. ListsOK(c)
  BY <1>6 DEF ListsOK, Begun
<1>8. QED
  BY <1>5, <1>6, <1>7

(* What a call keeps until it ends.                                        *)
SameCall(c, e) ==
    /\ e.op = c.op /\ e.at = c.at /\ e.filter = c.filter /\ e.checksum = c.checksum
    /\ e.dry_run = c.dry_run /\ e.base = c.base /\ e.commit = c.commit
    /\ e.listed = c.listed /\ e.existing = c.existing /\ e.disk0 = c.disk0

(* A call that ends.                                                       *)
LEMMA EndedIs ==
    ASSUME NEW c \in Calls,
           NEW outcome \in {"ok", "error", "NotFound", "NotADirectory", "StaleSnapshot"},
           NEW e, e = Ended(c, outcome)
    PROVE  /\ e \in Calls /\ e.pc = "idle" /\ e.outcome = outcome
           /\ ListsOK(c) => ListsOK(e)
           /\ SameCall(c, e) /\ e.todo = c.todo /\ e.quiet = c.quiet
           /\ e.writes = c.writes /\ e.add = c.add /\ e.update = c.update /\ e.del = c.del
<1>1. e = [c EXCEPT !.pc = "idle", !.outcome = outcome]
  BY DEF Ended
<1>2. /\ e \in Calls /\ e.pc = "idle" /\ e.outcome = outcome
      /\ SameCall(c, e) /\ e.todo = c.todo /\ e.quiet = c.quiet
      /\ e.writes = c.writes /\ e.add = c.add /\ e.update = c.update /\ e.del = c.del
  <2>1. e \in Calls
    BY <1>1 DEF Calls
  <2>2. SameCall(c, e)
    BY <1>1 DEF Calls, SameCall
  <2>3. /\ e.pc = "idle" /\ e.outcome = outcome /\ e.todo = c.todo /\ e.quiet = c.quiet
        /\ e.writes = c.writes /\ e.add = c.add /\ e.update = c.update /\ e.del = c.del
    BY <1>1 DEF Calls
  <2>4. QED
    BY <2>1, <2>2, <2>3
<1>3. ASSUME ListsOK(c) PROVE ListsOK(e)
  BY <1>2, <1>3 DEF ListsOK, SameCall
<1>4. QED
  BY <1>2, <1>3

-----------------------------------------------------------------------------
(* The steps of a call.                                                    *)

(* Files below a directory, by their relative paths.                       *)
LEMMA RelativesAre ==
    ASSUME NEW t, Stock(t), NEW d \in Dirs, NEW rel \in {Relative(d, p) : p \in WalkTree(t, d)}
    PROVE  rel \in Path /\ Placed(rel) /\ Under(d, rel) \in Files(t)
<1>1. PICK p \in Files(t) : IsStrictPrefix(d, p) /\ rel = Relative(d, p)
  BY DEF WalkTree
<1>2. p \in Path /\ t[p] # NoEntry
  BY TreeAssumption DEF Files
<1>3. Placed(p)
  BY <1>2, StockPlaced
<1>4. QED
  BY <1>1, <1>2, <1>3, RelativeIs, RelativePlaced

(* What sync_in takes for what is there already.                           *)
LEMMA ExistingIs ==
    ASSUME NEW base, Stock(base), NEW at \in Dests, 2 * Len(at) < MaxDepth,
           NEW x, x = Existing(base, at)
    PROVE  /\ x.error \in {"none", "NotFound", "NotADirectory"} /\ x.files \in Writes
           /\ \A rel \in DOMAIN x.files : rel \in Path /\ Placed(rel) /\ Under(at, rel) \in Path
           /\ at = Root => /\ x.error = "none" /\ DOMAIN x.files = Files(base)
                           /\ \A rel \in Files(base) : x.files[rel] = base[rel]
           /\ at # Root /\ Lookup(base, at) # DirEntry =>
                 x.error = "none" /\ DOMAIN x.files = {}
<1> DEFINE again == at \o at
           rels == {Relative(again, p) : p \in WalkTree(base, again)}
<1>1. /\ at \in Seq(Name) /\ again \in Seq(Name) /\ Len(again) = 2 * Len(at) /\ Len(at) \in Nat
      /\ MaxDepth \in Nat /\ again \in Dirs
  <2>1. at \in Seq(Name)
    BY DestIs
  <2>2. again \in Seq(Name) /\ Len(again) = Len(at) + Len(at) /\ Len(at) \in Nat
    BY <2>1
  <2>3. Len(again) \in 0 .. MaxDepth /\ MaxDepth \in Nat
    BY <2>2, TreeAssumption
  <2>4. QED
    BY <2>1, <2>2, <2>3, PathsAre
<1> HIDE DEF again
<1>2. ASSUME NEW rel \in rels
      PROVE  /\ rel \in Path /\ Placed(rel) /\ Under(at, rel) \in Path
             /\ again \o rel \in Files(base)
  <2>1. rel \in Path /\ Placed(rel) /\ Under(again, rel) \in Files(base)
    BY <1>1, RelativesAre
  <2>2. rel \in Seq(Name) /\ Len(rel) \in Nat /\ 1 <= Len(rel)
    BY <2>1, PathsAre
  <2>3. Len(Under(again, rel)) = Len(again) + Len(rel) /\ Len(Under(again, rel)) <= MaxDepth
    <3>1. IsUnder(Under(again, rel), again, rel)
      BY <1>1, <2>2, UnderIs
    <3>2. Under(again, rel) \in Path
      BY <2>1 DEF Files
    <3>3. QED
      BY <1>1, <3>1, <3>2, PathsAre DEF IsUnder
  <2>4. Under(at, rel) \in Seq(Name) /\ Len(Under(at, rel)) = Len(at) + Len(rel)
    BY <1>1, <2>2, UnderIs DEF IsUnder
  <2>5. Len(Under(at, rel)) \in 1 .. MaxDepth
    BY <1>1, <2>2, <2>3, <2>4
  <2>6. Under(at, rel) \in Path
    BY <2>4, <2>5, PathsAre
  <2>7. QED
    BY <2>1, <2>6 DEF Under
<1> DEFINE files == [rel \in rels |-> base[again \o rel]]
<1> HIDE DEF rels
<1>3. files \in Writes /\ DOMAIN files = rels
  <2>1. files \in [rels -> Data] /\ rels \subseteq Dirs
    BY <1>2, DirFacts DEF Files
  <2>2. QED
    BY <2>1 DEF Writes
<1>4. NoFiles \in Writes /\ DOMAIN NoFiles = {}
  BY NoWriteIs, SetsAre DEF NoFiles
<1>5. Lookup(base, again) \in Data \cup {NoEntry, DirEntry}
  <2>1. base \in [Path -> Data \cup {NoEntry, DirEntry}] /\ (again # Root => again \in Path)
    BY <1>1 DEF Stock, IsTree, Dirs
  <2>2. QED
    BY <1>1, <2>1, LookupIs DEF Stock
<1>6. x = IF at # Root /\ Lookup(base, at) # DirEntry THEN [error |-> "none", files |-> NoFiles]
          ELSE CASE Lookup(base, again) = NoEntry -> [error |-> "NotFound", files |-> NoFiles]
                 [] Lookup(base, again) \in Data -> [error |-> "NotADirectory", files |-> NoFiles]
                 [] OTHER -> [error |-> "none", files |-> files]
  BY DEF Existing, again, rels
<1> HIDE DEF files
<1>7. /\ x.error \in {"none", "NotFound", "NotADirectory"}
      /\ x.files = NoFiles \/ x.files = files
      /\ at # Root /\ Lookup(base, at) # DirEntry => x.error = "none" /\ x.files = NoFiles
      /\ at = Root /\ Lookup(base, again) = DirEntry => x.error = "none" /\ x.files = files
  <2>1. DirEntry # NoEntry /\ DirEntry \notin Data /\ NoEntry \notin Data
    BY TreeAssumption DEF NoEntry, DirEntry
  <2>2. CASE at # Root /\ Lookup(base, at) # DirEntry
    BY <1>6, <2>2
  <2>3. CASE ~(at # Root /\ Lookup(base, at) # DirEntry) /\ Lookup(base, again) = NoEntry
    BY <1>6, <2>1, <2>3
  <2>4. CASE ~(at # Root /\ Lookup(base, at) # DirEntry) /\ Lookup(base, again) \in Data
    BY <1>6, <2>1, <2>4
  <2>5. CASE ~(at # Root /\ Lookup(base, at) # DirEntry) /\ Lookup(base, again) = DirEntry
    BY <1>6, <2>1, <2>5
  <2>6. QED
    BY <1>5, <2>2, <2>3, <2>4, <2>5
<1>8. ASSUME at = Root
      PROVE  /\ x.error = "none" /\ DOMAIN x.files = Files(base)
             /\ \A rel \in Files(base) : x.files[rel] = base[rel]
  <2>1. again = Root
    BY <1>8 DEF again, Root
  <2>2. Lookup(base, again) = DirEntry
    BY <2>1 DEF Lookup
  <2>3. ASSUME NEW p \in Path PROVE Relative(again, p) = p /\ again \o p = p /\ IsStrictPrefix(again, p)
    <3>1. p \in Seq(Name) /\ p \in Dirs /\ p # Root
      BY DirFacts
    <3>2. again \o p = p
      BY <2>1, <3>1 DEF Root
    <3>3. Relative(again, p) = p
      <4>1. Relative(again, Under(again, p)) = p
        BY <1>1, <3>1, UnderIs
      <4>2. QED
        BY <3>2, <4>1 DEF Under
    <3>4. IsPrefix(Root, p)
      BY <3>1, DirFacts
    <3>5. QED
      BY <2>1, <3>1, <3>2, <3>3, <3>4 DEF IsStrictPrefix
  <2>4. WalkTree(base, again) = Files(base)
    BY <2>3 DEF WalkTree, Files
  <2>5. rels = Files(base)
    BY <2>3, <2>4 DEF rels, Files
  <2>6. \A rel \in Files(base) : files[rel] = base[rel]
    BY <2>3, <2>5 DEF files, Files
  <2>7. QED
    BY <1>3, <1>7, <1>8, <2>2, <2>5, <2>6
<1>9. QED
  BY <1>2, <1>3, <1>4, <1>7, <1>8

(* Starting a copy or sync from the disk.                                  *)
StartsIn(op, at, filter, checksum, dry_run) ==
    /\ op \in Ops /\ call.pc = "idle" /\ Start /\ UNCHANGED <<tree, ncommits, disk>>
    /\ call' \in Calls /\ ListsOK(call')
    /\ call'.op = op /\ call'.at = at /\ call'.filter = filter
    /\ call'.checksum = checksum /\ call'.dry_run = dry_run
    /\ call'.base = tree /\ call'.commit = ncommits /\ call'.disk0 = disk /\ call'.quiet = TRUE
    /\ DOMAIN call'.writes = {} /\ call'.add = {} /\ call'.update = {} /\ call'.del = {}
    /\ \/ call'.pc = "idle" /\ call'.outcome \in {"NotFound", "NotADirectory"}
       \/ /\ call'.pc = "read" /\ call'.todo = call'.listed
          /\ call'.listed = {rel \in DiskWalk(disk) : MatchesFilters(filter, rel)}
          /\ call'.existing = IF op = "sync_in" \/ checksum THEN Existing(tree, at).files
                              ELSE NoFiles

(* So copy_in and sync_in start.                                           *)
LEMMA StartInIs ==
    ASSUME CopyInv, NEW op \in {"copy_in", "sync_in"}, NEW at \in At, NEW filter \in Filters,
           NEW checksum \in BOOLEAN, NEW dry_run \in BOOLEAN,
           StartIn(op, at, filter, checksum, dry_run)
    PROVE  StartsIn(op, at, filter, checksum, dry_run)
<1>1. PICK c : c = Begin(op, at, filter, checksum, dry_run)
  OBVIOUS
<1>2. c \in Calls /\ ListsOK(c) /\ Begun(c, op, at, filter, checksum, dry_run)
  BY <1>1, BeginIs
<1>3. at \in Dests /\ 2 * Len(at) < MaxDepth /\ Stock(tree)
  BY CopyAssumption DEF Dests, CopyInv
<1>4. PICK found : found = Existing(tree, at)
  OBVIOUS
<1>5. /\ found.error \in {"none", "NotFound", "NotADirectory"} /\ found.files \in Writes
      /\ \A rel \in DOMAIN found.files : rel \in Path /\ Placed(rel) /\ Under(at, rel) \in Path
  BY <1>3, <1>4, ExistingIs
<1>6. NoFiles \in Writes /\ DOMAIN NoFiles = {}
  BY NoWriteIs, SetsAre DEF NoFiles
<1>7. PICK error \in {"none", "NotFound", "NotADirectory"}, files \in Writes :
         /\ [error |-> error, files |-> files]
               = IF op = "sync_in" \/ checksum THEN [error |-> found.error, files |-> found.files]
                 ELSE [error |-> "none", files |-> NoFiles]
         /\ files = IF op = "sync_in" \/ checksum THEN Existing(tree, at).files ELSE NoFiles
         /\ error = IF op = "sync_in" \/ checksum THEN found.error ELSE "none"
  BY <1>4, <1>5, <1>6
<1>8. PICK listed : listed = {rel \in DiskWalk(disk) : MatchesFilters(filter, rel)}
  OBVIOUS
<1>9. /\ op \in Ops /\ call.pc = "idle" /\ Start /\ UNCHANGED <<tree, ncommits, disk>>
      /\ \A rel \in listed : Under(at, rel) \in Path
      /\ call' = IF error # "none" THEN Ended(c, error)
                 ELSE [c EXCEPT !.pc = "read", !.existing = files,
                                !.listed = listed, !.todo = listed]
  BY <1>1, <1>4, <1>7, <1>8 DEF StartIn
<1>10. \A rel \in listed : rel \in Path /\ Placed(rel)
  BY <1>8, WalkFinds DEF CopyInv
<1>11. CASE error # "none"
  <2>1. call' = Ended(c, error) /\ error \in {"NotFound", "NotADirectory"}
    BY <1>9, <1>11
  <2>2. QED
    BY <1>2, <1>9, <2>1, EndedIs DEF StartsIn, Begun, SameCall
<1>12. CASE error = "none"
  <2>1. call' = [c EXCEPT !.pc = "read", !.existing = files, !.listed = listed, !.todo = listed]
    BY <1>9, <1>12
  <2>2. call' \in Calls
    BY <1>2, <1>10, <2>1 DEF Calls
  <2>3. /\ call'.pc = "read" /\ call'.existing = files /\ call'.listed = listed /\ call'.todo = listed
        /\ call'.op = op /\ call'.at = at /\ call'.filter = filter
        /\ call'.checksum = checksum /\ call'.dry_run = dry_run
        /\ call'.base = tree /\ call'.commit = ncommits /\ call'.disk0 = disk /\ call'.quiet = TRUE
        /\ DOMAIN call'.writes = {} /\ call'.add = {} /\ call'.update = {} /\ call'.del = {}
    BY <1>2, <2>1 DEF Calls, Begun
  <2>4. \A rel \in DOMAIN files : rel \in Path /\ Placed(rel) /\ Under(at, rel) \in Path
    BY <1>4, <1>5, <1>6, <1>7
  <2>5. ListsOK(call')
    BY <1>9, <1>10, <2>3, <2>4 DEF ListsOK
  <2>6. QED
    BY <1>7, <1>8, <1>9, <2>2, <2>3, <2>5 DEF StartsIn
<1>13. QED
  BY <1>11, <1>12

(* Reading a file: what is written is put with the other writes.           *)
ReadsData(rel) == IF disk[rel] = NoEntry THEN EmptyFile ELSE disk[rel]

ReadsOn(rel) ==
    LET data == ReadsData(rel)
        path == Under(call.at, rel)
        is_update == call.op = "sync_in" /\ rel \in DOMAIN call.existing
    IN /\ data \in Data /\ call'.pc = "read" /\ call'.del = call.del
       /\ call'.outcome = call.outcome /\ call'.todo = call.todo \ {rel}
       /\ Unchanged(call, rel, data) =>
             call'.writes = call.writes /\ call'.add = call.add /\ call'.update = call.update
       /\ ~Unchanged(call, rel, data) =>
             /\ call'.writes = Over(OneWrite(path, data), call.writes)
             /\ call'.add = IF is_update THEN call.add ELSE call.add \cup {path}
             /\ call'.update = IF is_update THEN call.update \cup {path} ELSE call.update

Reads(rel) ==
    /\ call.pc = "read" /\ rel \in call.todo /\ rel \in Path /\ Under(call.at, rel) \in Path
    /\ UNCHANGED <<tree, ncommits, disk, nops>>
    /\ call' \in Calls /\ ListsOK(call') /\ SameCall(call, call') /\ call'.quiet = call.quiet
    /\ \/ ReadsOn(rel)
       \/ call'.pc = "idle" /\ call'.outcome = "error"

(* So a file is read.                                                      *)
LEMMA ReadFileIs == ASSUME CopyInv, NEW rel, ReadFile(rel) PROVE Reads(rel)
<1>1. PICK c \in Calls : c = call /\ ListsOK(c) /\ c.pc = "read" /\ rel \in c.todo
  BY DEF CopyInv, ReadFile
<1>2. /\ rel \in Path /\ Placed(rel) /\ c.at \in Dests /\ Under(c.at, rel) \in Path
      /\ disk \in [Path -> Data \cup {NoEntry, DirEntry}]
  BY <1>1 DEF ListsOK, Calls, CopyInv, Stock, IsTree
<1>3. PICK data \in Data \cup {DirEntry} : data = ReadsData(rel)
  BY <1>2, CopyAssumption DEF ReadsData
<1>4. PICK path \in Path : path = Under(c.at, rel) /\ Placed(path)
  BY <1>2, UnderPlaced
<1>5. PICK is_update \in BOOLEAN : is_update = (c.op = "sync_in" /\ rel \in DOMAIN c.existing)
  OBVIOUS
<1>6. PICK read \in Calls : read = [c EXCEPT !.todo = @ \ {rel}]
  BY <1>1 DEF Calls
<1>7. /\ UNCHANGED <<tree, ncommits, disk, nops>>
      /\ call' = IF data = DirEntry THEN Ended(c, "error")
                 ELSE IF Unchanged(c, rel, data) THEN read
                 ELSE [read EXCEPT !.writes = Over(OneWrite(path, data), @),
                                   !.add = IF is_update THEN @ ELSE @ \cup {path},
                                   !.update = IF is_update THEN @ \cup {path} ELSE @]
  BY <1>1, <1>3, <1>4, <1>5, <1>6 DEF ReadFile, ReadsData
<1>8. CASE data = DirEntry
  <2>1. call' = Ended(c, "error")
    BY <1>7, <1>8
  <2>2. /\ call' \in Calls /\ ListsOK(call') /\ call'.pc = "idle" /\ call'.outcome = "error"
        /\ call'.quiet = c.quiet /\ SameCall(c, call')
    BY <1>1, <2>1, EndedIs
  <2>3. QED
    BY <1>1, <1>2, <1>7, <2>2 DEF Reads
<1>9. CASE data # DirEntry /\ Unchanged(c, rel, data)
  <2>1. call' = [c EXCEPT !.todo = @ \ {rel}] /\ data \in Data
    BY <1>6, <1>7, <1>9
  <2>2. /\ call' \in Calls /\ call'.todo = c.todo \ {rel} /\ call'.pc = "read"
        /\ SameCall(c, call') /\ call'.quiet = c.quiet /\ call'.outcome = c.outcome
        /\ call'.writes = c.writes /\ call'.add = c.add /\ call'.update = c.update
        /\ call'.del = c.del
    <3>1. call' \in Calls /\ SameCall(c, call')
      BY <1>1, <2>1 DEF Calls, SameCall
    <3>2. /\ call'.todo = c.todo \ {rel} /\ call'.pc = "read"
          /\ call'.quiet = c.quiet /\ call'.outcome = c.outcome
          /\ call'.writes = c.writes /\ call'.add = c.add /\ call'.update = c.update
          /\ call'.del = c.del
      BY <1>1, <2>1 DEF Calls
    <3>3. QED
      BY <3>1, <3>2
  <2>3. ListsOK(call')
    BY <1>1, <2>2 DEF ListsOK, SameCall
  <2>4. ReadsOn(rel)
    BY <1>1, <1>3, <1>9, <2>1, <2>2 DEF ReadsOn
  <2>5. QED
    BY <1>1, <1>2, <1>7, <2>2, <2>3, <2>4 DEF Reads
<1>10. CASE data # DirEntry /\ ~Unchanged(c, rel, data)
  <2>1. data \in Data
    BY <1>10
  <2>2. PICK writes \in Writes : /\ writes = Over(OneWrite(path, data), c.writes)
                                 /\ DOMAIN writes = {path} \cup DOMAIN c.writes
    <3>1. OneWrite(path, data) \in Writes /\ DOMAIN OneWrite(path, data) = {path}
      BY <2>1, OneWriteIn, OneWriteIs, DirFacts
    <3>2. c.writes \in Writes
      BY <1>1 DEF Calls
    <3>3. PICK D1 \in SUBSET Dirs, D2 \in SUBSET Dirs :
             OneWrite(path, data) \in [D1 -> Data] /\ c.writes \in [D2 -> Data]
      BY <3>1, <3>2 DEF Writes
    <3>4. Over(OneWrite(path, data), c.writes) \in [D1 \cup D2 -> Data]
          /\ D1 = DOMAIN OneWrite(path, data) /\ D2 = DOMAIN c.writes
      BY <3>3 DEF Over
    <3>5. D1 \cup D2 \in SUBSET Dirs
      OBVIOUS
    <3>6. QED
      BY <3>1, <3>4, <3>5 DEF Writes
  <2>3. PICK add \in SUBSET Path, update \in SUBSET Path :
           /\ add = IF is_update THEN c.add ELSE c.add \cup {path}
           /\ update = IF is_update THEN c.update \cup {path} ELSE c.update
    BY <1>1, <1>4 DEF Calls
  <2>4. call' = [c EXCEPT !.todo = @ \ {rel}, !.writes = writes, !.add = add, !.update = update]
    <3>1. call' = [read EXCEPT !.writes = Over(OneWrite(path, data), @),
                               !.add = IF is_update THEN @ ELSE @ \cup {path},
                               !.update = IF is_update THEN @ \cup {path} ELSE @]
      BY <1>7, <1>10
    <3>2. read.writes = c.writes /\ read.add = c.add /\ read.update = c.update
      BY <1>6 DEF Calls
    <3>3. call' = [read EXCEPT !.writes = writes, !.add = add, !.update = update]
      BY <2>2, <2>3, <3>1, <3>2 DEF Calls
    <3>4. QED
      BY <1>6, <3>3 DEF Calls
  <2>5. /\ call' \in Calls /\ call'.todo = c.todo \ {rel} /\ call'.pc = "read"
        /\ SameCall(c, call') /\ call'.quiet = c.quiet /\ call'.outcome = c.outcome
        /\ call'.writes = writes /\ call'.add = add /\ call'.update = update
        /\ call'.del = c.del
    <3>1. call' \in Calls
      <4> DEFINE todo == c.todo \ {rel}
      <4>1. todo \in SUBSET Path
        BY <1>1 DEF Calls
      <4> HIDE DEF todo
      <4>2. [c EXCEPT !.todo = todo, !.writes = writes] \in Calls
        BY <1>1, <4>1 DEF Calls
      <4>3. call' = [[c EXCEPT !.todo = todo, !.writes = writes] EXCEPT !.add = add, !.update = update]
        BY <1>1, <2>4 DEF Calls, todo
      <4>4. QED
        BY <4>2, <4>3 DEF Calls
    <3>2. SameCall(c, call')
      BY <1>1, <2>4 DEF Calls, SameCall
    <3>3. /\ call'.todo = c.todo \ {rel} /\ call'.pc = "read"
          /\ call'.quiet = c.quiet /\ call'.outcome = c.outcome
          /\ call'.writes = writes /\ call'.add = add /\ call'.update = update
          /\ call'.del = c.del
      BY <1>1, <2>4 DEF Calls
    <3>4. QED
      BY <3>1, <3>2, <3>3
  <2>6. ListsOK(call')
    BY <1>1, <1>4, <2>2, <2>5 DEF ListsOK, SameCall
  <2>7. ReadsOn(rel)
    BY <1>1, <1>3, <1>4, <1>5, <1>10, <2>1, <2>2, <2>3, <2>5 DEF ReadsOn
  <2>8. QED
    BY <1>1, <1>2, <1>7, <2>5, <2>6, <2>7 DEF Reads
<1>11. QED
  BY <1>8, <1>9, <1>10

(* What a sync deletes is in directories that may be made.                 *)
LEMMA ExtrasAre ==
    ASSUME NEW c \in Calls, ListsOK(c), NEW removes, removes = Extras(c)
    PROVE  /\ removes \subseteq Path /\ \A p \in removes : Placed(p)
           /\ IsRemoves(SetToSeq(removes)) /\ ToSet(SetToSeq(removes)) = removes
<1>1. ASSUME NEW p \in removes PROVE p \in Path /\ Placed(p)
  <2>1. PICK rel \in DOMAIN c.existing : p = Under(c.at, rel)
    BY <1>1 DEF Extras
  <2>2. rel \in Path /\ Placed(rel) /\ Under(c.at, rel) \in Path /\ c.at \in Dests
    BY <2>1 DEF ListsOK, Calls
  <2>3. QED
    BY <2>1, <2>2, UnderPlaced
<1>2. IsFiniteSet(removes)
  BY <1>1, PathFinite, FS_Subset
<1>3. SetToSeq(removes) \in Seq(removes) /\ ToSet(SetToSeq(removes)) = removes
  BY <1>2, InSomeOrder
<1>4. removes \subseteq Dirs
  BY <1>1, DirFacts
<1>5. SetToSeq(removes) \in Seq(Dirs)
  BY <1>3, <1>4
<1>6. QED
  BY <1>1, <1>3, <1>5 DEF IsRemoves

(* The end of copy_in and sync_in.                                         *)
Commits ==
    LET removes == Extras(call)
    IN \/ /\ call.dry_run \/ (DOMAIN call.writes = {} /\ removes = {})
          /\ call'.outcome = "ok" /\ UNCHANGED <<tree, ncommits>>
       \/ /\ call'.outcome = "StaleSnapshot" /\ UNCHANGED <<tree, ncommits>>
          /\ call.commit # ncommits
       \/ /\ ~call.dry_run /\ call.commit = ncommits /\ call'.outcome = "ok"
          /\ tree' = RebuildTree(call.base, call.writes, SetToSeq(removes))
          /\ ncommits' = ncommits + 1

CommitsIn ==
    /\ call.pc = "read" /\ call.todo = {} /\ disk' = disk /\ nops' = nops /\ Stock(tree')
    /\ call' \in Calls /\ ListsOK(call') /\ SameCall(call, call') /\ call'.quiet = call.quiet
    /\ call'.pc = "idle" /\ call'.todo = call.todo /\ call'.writes = call.writes
    /\ call'.add = call.add /\ call'.update = call.update /\ call'.del = Extras(call)
    /\ Commits

(* So copy_in and sync_in end.                                             *)
LEMMA CommitInIs == ASSUME CopyInv, CommitIn PROVE CommitsIn
<1>1. PICK c \in Calls : c = call /\ ListsOK(c) /\ c.pc = "read" /\ c.todo = {}
  BY DEF CopyInv, CommitIn
<1>2. PICK removes \in SUBSET Path :
         /\ removes = Extras(c) /\ \A p \in removes : Placed(p)
         /\ IsRemoves(SetToSeq(removes)) /\ ToSet(SetToSeq(removes)) = removes
  BY <1>1, ExtrasAre
<1>3. PICK d \in Calls : /\ d = [c EXCEPT !.del = removes] /\ ListsOK(d) /\ SameCall(c, d)
                         /\ d.quiet = c.quiet /\ d.todo = c.todo /\ d.writes = c.writes
                         /\ d.add = c.add /\ d.update = c.update /\ d.del = removes
  <2>1. PICK d : d = [c EXCEPT !.del = removes]
    OBVIOUS
  <2>2. /\ d \in Calls /\ SameCall(c, d) /\ d.pc = c.pc
        /\ d.quiet = c.quiet /\ d.todo = c.todo /\ d.writes = c.writes
        /\ d.add = c.add /\ d.update = c.update /\ d.del = removes
    BY <1>1, <2>1 DEF Calls, SameCall
  <2>3. ListsOK(d)
    BY <1>1, <2>2 DEF ListsOK, SameCall
  <2>4. QED
    BY <2>1, <2>2, <2>3
<1>4. PICK outcome \in {"ok", "StaleSnapshot"} :
         /\ call' = Ended(d, outcome) /\ disk' = disk /\ nops' = nops
         /\ \/ /\ c.dry_run \/ (DOMAIN c.writes = {} /\ removes = {})
               /\ outcome = "ok" /\ tree' = tree /\ ncommits' = ncommits
            \/ /\ c.commit # ncommits
               /\ outcome = "StaleSnapshot" /\ tree' = tree /\ ncommits' = ncommits
            \/ /\ ~c.dry_run /\ c.commit = ncommits /\ outcome = "ok"
               /\ tree' = RebuildTree(c.base, c.writes, SetToSeq(removes))
               /\ ncommits' = ncommits + 1
  <2>1. CASE c.dry_run \/ (DOMAIN c.writes = {} /\ removes = {})
    BY <1>1, <1>2, <1>3, <2>1 DEF CommitIn
  <2>2. CASE ~(c.dry_run \/ (DOMAIN c.writes = {} /\ removes = {})) /\ c.commit # ncommits
    BY <1>1, <1>2, <1>3, <2>2 DEF CommitIn
  <2>3. CASE ~(c.dry_run \/ (DOMAIN c.writes = {} /\ removes = {})) /\ c.commit = ncommits
    BY <1>1, <1>2, <1>3, <2>3 DEF CommitIn
  <2>4. QED
    BY <2>1, <2>2, <2>3
<1>5. /\ call' \in Calls /\ ListsOK(call') /\ SameCall(c, call') /\ call'.quiet = c.quiet
      /\ call'.pc = "idle" /\ call'.todo = c.todo /\ call'.writes = c.writes
      /\ call'.add = c.add /\ call'.update = c.update /\ call'.del = removes
      /\ call'.outcome = outcome
  <2>1. /\ call' \in Calls /\ ListsOK(call') /\ SameCall(d, call') /\ call'.quiet = d.quiet
        /\ call'.pc = "idle" /\ call'.todo = d.todo /\ call'.writes = d.writes
        /\ call'.add = d.add /\ call'.update = d.update /\ call'.del = d.del
        /\ call'.outcome = outcome
    <3>1. d \in Calls /\ call' = Ended(d, outcome) /\ ListsOK(d)
      BY <1>3, <1>4
    <3>2. outcome \in {"ok", "error", "NotFound", "NotADirectory", "StaleSnapshot"}
      OBVIOUS
    <3>3. QED
      BY <3>1, <3>2, EndedIs
  <2>2. SameCall(c, call')
    BY <1>3, <2>1 DEF SameCall
  <2>3. QED
    BY <1>3, <2>1, <2>2
<1>6. Stock(tree')
  <2>1. Stock(tree) /\ Stock(c.base) /\ IsWrites(c.writes)
    BY <1>1, SetsAre DEF CopyInv, Calls
  <2>2. \A p \in Mentioned(c.writes, SetToSeq(removes)) : Placed(p)
    BY <1>1, <1>2 DEF Mentioned, ListsOK
  <2>3. Stock(RebuildTree(c.base, c.writes, SetToSeq(removes)))
    BY <1>2, <2>1, <2>2, RebuildStock
  <2>4. QED
    BY <1>4, <2>1, <2>3
<1>7. Commits
  BY <1>1, <1>2, <1>4, <1>5 DEF Commits
<1>8. QED
  BY <1>1, <1>2, <1>4, <1>5, <1>6, <1>7 DEF CommitsIn

(* Starting a copy or sync to the disk.                                    *)
StartsOut(op, at, filter) ==
    /\ call.pc = "idle" /\ Start /\ UNCHANGED <<tree, ncommits, disk>>
    /\ call' \in Calls /\ ListsOK(call')
    /\ call'.op = op /\ call'.at = at /\ call'.filter = filter
    /\ call'.base = tree /\ call'.commit = ncommits /\ call'.disk0 = disk /\ call'.quiet = TRUE
    /\ \/ call'.pc = "idle" /\ call'.outcome \in {"NotFound", "NotADirectory"}
       \/ call'.pc = "write" /\ call'.todo = call'.listed

(* So copy_out and sync_out start.                                         *)
LEMMA StartOutIs ==
    ASSUME CopyInv, NEW op \in {"copy_out", "sync_out"}, NEW at \in At, NEW filter \in Filters,
           StartOut(op, at, filter)
    PROVE  StartsOut(op, at, filter)
<1>1. PICK c : c = Begin(op, at, filter, TRUE, FALSE)
  OBVIOUS
<1>2. c \in Calls /\ ListsOK(c) /\ Begun(c, op, at, filter, TRUE, FALSE)
  BY <1>1, BeginIs
<1>3. Stock(tree) /\ IsTree(tree) /\ at \in Dests /\ at \in Dirs
  BY CopyAssumption, DestIs DEF Dests, CopyInv, Stock
<1>4. PICK listed : listed = {rel \in {Relative(at, p) : p \in WalkTree(tree, at)} :
                                MatchesFilters(filter, rel)}
  OBVIOUS
<1>5. \A rel \in listed : rel \in Path /\ Placed(rel) /\ Under(at, rel) \in Files(tree)
  BY <1>3, <1>4, RelativesAre
<1>6. /\ call.pc = "idle" /\ Start /\ UNCHANGED <<tree, ncommits, disk>>
      /\ call' = CASE Lookup(tree, at) = NoEntry -> Ended(c, "NotFound")
                   [] Lookup(tree, at) \in Data -> Ended(c, "NotADirectory")
                   [] OTHER -> [c EXCEPT !.pc = "write", !.listed = listed,
                                         !.todo = listed, !.add = listed]
  BY <1>1, <1>4 DEF StartOut
<1>7. \/ \E outcome \in {"NotFound", "NotADirectory"} : call' = Ended(c, outcome)
      \/ call' = [c EXCEPT !.pc = "write", !.listed = listed, !.todo = listed, !.add = listed]
  <2>1. NoEntry \notin Data
    BY TreeAssumption
  <2>2. CASE Lookup(tree, at) = NoEntry
    BY <1>6, <2>1, <2>2
  <2>3. CASE Lookup(tree, at) \in Data
    BY <1>6, <2>1, <2>3
  <2>4. CASE Lookup(tree, at) # NoEntry /\ Lookup(tree, at) \notin Data
    BY <1>6, <2>4
  <2>5. QED
    BY <2>2, <2>3, <2>4
<1>8. CASE \E outcome \in {"NotFound", "NotADirectory"} : call' = Ended(c, outcome)
  <2>1. PICK outcome \in {"NotFound", "NotADirectory"} : call' = Ended(c, outcome)
    BY <1>8
  <2>2. QED
    BY <1>2, <1>6, <2>1, EndedIs DEF StartsOut, Begun, SameCall
<1>9. CASE call' = [c EXCEPT !.pc = "write", !.listed = listed, !.todo = listed, !.add = listed]
  <2>1. call' \in Calls
    BY <1>2, <1>5, <1>9 DEF Calls
  <2>2. /\ call'.pc = "write" /\ call'.listed = listed /\ call'.todo = listed
        /\ call'.op = op /\ call'.at = at /\ call'.filter = filter
        /\ call'.base = tree /\ call'.commit = ncommits /\ call'.disk0 = disk /\ call'.quiet = TRUE
        /\ DOMAIN call'.writes = {} /\ DOMAIN call'.existing = {}
    BY <1>2, <1>9 DEF Calls, Begun
  <2>3. ListsOK(call')
    BY <1>5, <2>2 DEF ListsOK
  <2>4. QED
    BY <1>6, <2>1, <2>2, <2>3 DEF StartsOut
<1>10. QED
  BY <1>7, <1>8, <1>9

(* Writing a file to the disk.                                             *)
Source(rel) == call.base[Under(call.at, rel)]

WritesOn(rel) ==
    /\ call'.pc = "write" /\ call'.todo = call.todo \ {rel} /\ call'.outcome = call.outcome
    /\ \A q \in Files(disk) : ~IsStrictPrefix(q, rel)
    /\ disk' = Written(MakeDirs(disk, rel), rel, Source(rel))

WritesOut(rel) ==
    /\ call.pc = "write" /\ rel \in call.todo /\ rel \in Path /\ Placed(rel) /\ Source(rel) \in Data
    /\ UNCHANGED <<tree, ncommits, nops>> /\ Stock(disk')
    /\ call' \in Calls /\ ListsOK(call') /\ SameCall(call, call') /\ call'.quiet = call.quiet
    /\ \/ WritesOn(rel)
       \/ call'.pc = "idle" /\ call'.outcome = "error"

(* So a file is written.                                                   *)
LEMMA WriteFileIs == ASSUME CopyInv, NEW rel, WriteFile(rel) PROVE WritesOut(rel)
<1>1. PICK c \in Calls : c = call /\ ListsOK(c) /\ c.pc = "write" /\ rel \in c.todo
  BY DEF CopyInv, WriteFile
<1>2. rel \in Path /\ Placed(rel) /\ Under(c.at, rel) \in Files(c.base) /\ Stock(disk)
  BY <1>1 DEF ListsOK, Calls, CopyInv
<1>3. PICK data \in Data : data = c.base[Under(c.at, rel)] /\ data = Source(rel)
  BY <1>1, <1>2 DEF Files, Source
<1>4. PICK blocked, full, dirs :
         /\ blocked \in BOOLEAN /\ full \in BOOLEAN
         /\ blocked = (\E q \in Files(disk) : IsStrictPrefix(q, rel))
         /\ full = (Mode[data] = "link" /\ disk[rel] = DirEntry /\ Holds(disk, rel))
         /\ dirs = MakeDirs(disk, rel)
  OBVIOUS
<1>5. /\ UNCHANGED <<tree, ncommits, nops>>
      /\ IF blocked \/ full
         THEN call' = Ended(c, "error") /\ disk' = (IF blocked THEN disk ELSE dirs)
         ELSE call' = [c EXCEPT !.todo = @ \ {rel}] /\ disk' = Written(dirs, rel, data)
  BY <1>1, <1>3, <1>4 DEF WriteFile
<1>6. ASSUME ~blocked
      PROVE  /\ Stock(dirs) /\ dirs[rel] = disk[rel]
             /\ Len(rel) > 1 => dirs[Front(rel)] = DirEntry
             /\ Holds(dirs, rel) <=> Holds(disk, rel)
  <2>1. /\ Stock(dirs) /\ dirs[rel] = disk[rel]
        /\ Len(rel) > 1 => dirs[Front(rel)] = DirEntry
        /\ \A q \in Path : dirs[q] = IF IsStrictPrefix(q, rel) THEN DirEntry ELSE disk[q]
    BY <1>2, <1>4, <1>6, MakeDirsIs
  <2>2. \A q \in Path : IsStrictPrefix(rel, q) => ~IsStrictPrefix(q, rel)
    BY <1>2, DirFacts, PrefixOrder
  <2>3. QED
    BY <2>1, <2>2 DEF Holds
<1>7. CASE blocked \/ full
  <2>1. call' = Ended(c, "error") /\ disk' = (IF blocked THEN disk ELSE dirs)
    BY <1>5, <1>7
  <2>2. /\ call' \in Calls /\ ListsOK(call') /\ call'.pc = "idle" /\ call'.outcome = "error"
        /\ call'.quiet = c.quiet /\ SameCall(c, call')
    BY <1>1, <2>1, EndedIs
  <2>3. Stock(disk')
    BY <1>2, <1>6, <2>1
  <2>4. QED
    BY <1>1, <1>2, <1>3, <1>5, <2>2, <2>3 DEF WritesOut
<1>8. CASE ~(blocked \/ full)
  <2>1. call' = [c EXCEPT !.todo = @ \ {rel}] /\ disk' = Written(dirs, rel, data)
    BY <1>5, <1>8
  <2>2. /\ call' \in Calls /\ call'.todo = c.todo \ {rel} /\ call'.pc = "write"
        /\ SameCall(c, call') /\ call'.quiet = c.quiet /\ call'.outcome = c.outcome
        /\ call'.writes = c.writes
    BY <1>1, <2>1 DEF Calls, SameCall
  <2>3. ListsOK(call')
    BY <1>1, <2>2 DEF ListsOK, SameCall
  <2>4. Stock(disk')
    <3>1. Mode[data] = "link" => ~(dirs[rel] = DirEntry /\ Holds(dirs, rel))
      BY <1>4, <1>6, <1>8
    <3>2. Stock(Written(dirs, rel, data))
      BY <1>2, <1>6, <1>8, <3>1, WrittenIs
    <3>3. QED
      BY <2>1, <3>2
  <2>5. WritesOn(rel)
    BY <1>1, <1>3, <1>4, <1>8, <2>1, <2>2 DEF WritesOn
  <2>6. QED
    BY <1>1, <1>2, <1>3, <1>5, <2>2, <2>3, <2>4, <2>5 DEF WritesOut
<1>9. QED
  BY <1>7, <1>8

(* Everything is written.                                                  *)
CopiesOut ==
    /\ call.pc = "write" /\ call.todo = {} /\ UNCHANGED <<tree, ncommits, disk, nops>>
    /\ call' \in Calls /\ ListsOK(call') /\ SameCall(call, call') /\ call'.quiet = call.quiet
    /\ call'.todo = {}
    /\ \/ call.op = "copy_out" /\ call'.pc = "idle" /\ call'.outcome = "ok"
       \/ call.op # "copy_out" /\ call'.pc = "delete"

(* So the last file ends the writing.                                      *)
LEMMA CopiedOutIs == ASSUME CopyInv, CopiedOut PROVE CopiesOut
<1>1. PICK c \in Calls : c = call /\ ListsOK(c) /\ c.pc = "write" /\ c.todo = {}
  BY DEF CopyInv, CopiedOut
<1>2. /\ UNCHANGED <<tree, ncommits, disk, nops>>
      /\ call' = IF c.op = "copy_out" THEN Ended(c, "ok") ELSE [c EXCEPT !.pc = "delete"]
  BY <1>1 DEF CopiedOut
<1>3. CASE c.op = "copy_out"
  <2>1. /\ call' \in Calls /\ ListsOK(call') /\ call'.pc = "idle" /\ call'.outcome = "ok"
        /\ call'.quiet = c.quiet /\ SameCall(c, call') /\ call'.todo = c.todo
    BY <1>1, <1>2, <1>3, EndedIs
  <2>2. QED
    BY <1>1, <1>2, <1>3, <2>1 DEF CopiesOut
<1>4. CASE c.op # "copy_out"
  <2>1. call' = [c EXCEPT !.pc = "delete"]
    BY <1>2, <1>4
  <2>2. /\ call' \in Calls /\ call'.pc = "delete" /\ call'.todo = c.todo
        /\ SameCall(c, call') /\ call'.quiet = c.quiet /\ call'.writes = c.writes
    BY <1>1, <2>1 DEF Calls, SameCall
  <2>3. ListsOK(call')
    BY <1>1, <2>2 DEF ListsOK, SameCall
  <2>4. QED
    BY <1>1, <1>2, <1>4, <2>2, <2>3 DEF CopiesOut
<1>5. QED
  BY <1>3, <1>4

(* What is not in the repository is deleted.                               *)
Surplus ==
    {rel \in DiskWalk(disk) : MatchesFilters(call.filter, rel) /\ rel \notin call.listed}

Deletes ==
    /\ call.pc = "delete" /\ UNCHANGED <<tree, ncommits, nops>> /\ Stock(disk')
    /\ disk' = [p \in Path |-> IF p \in Surplus THEN NoEntry ELSE disk[p]]
    /\ call' \in Calls /\ ListsOK(call') /\ SameCall(call, call') /\ call'.quiet = call.quiet
    /\ call'.pc = "prune" /\ call'.todo = call.todo

(* So sync_out deletes.                                                    *)
LEMMA DeleteExtrasIs == ASSUME CopyInv, DeleteExtras PROVE Deletes
<1>1. PICK c \in Calls : c = call /\ ListsOK(c) /\ c.pc = "delete" /\ Stock(disk)
  BY DEF CopyInv, DeleteExtras
<1>2. PICK extra : extra = Surplus
  OBVIOUS
<1>3. /\ UNCHANGED <<tree, ncommits, nops>>
      /\ disk' = [p \in Path |-> IF p \in extra THEN NoEntry ELSE disk[p]]
      /\ call' = [c EXCEPT !.pc = "prune", !.del = extra]
  BY <1>1, <1>2 DEF DeleteExtras, Surplus
<1>4. extra \subseteq Files(disk) /\ extra \subseteq Path
  BY <1>1, <1>2, WalkFinds DEF Surplus
<1>5. Stock(disk')
  <2>1. ASSUME NEW p \in extra \cap Path, NEW q \in Path, IsStrictPrefix(p, q), disk[q] # NoEntry
        PROVE  q \in extra
    BY <1>1, <1>4, <2>1, FilesApart DEF Stock
  <2>2. QED
    BY <1>1, <1>3, <2>1, CutOutIs
<1>6. /\ call' \in Calls /\ call'.pc = "prune" /\ call'.todo = c.todo
      /\ SameCall(c, call') /\ call'.quiet = c.quiet /\ call'.writes = c.writes
  <2>1. call' \in Calls
    BY <1>1, <1>3, <1>4 DEF Calls
  <2>2. SameCall(c, call')
    BY <1>1, <1>3 DEF Calls, SameCall
  <2>3. /\ call'.pc = "prune" /\ call'.todo = c.todo
        /\ call'.quiet = c.quiet /\ call'.writes = c.writes
    BY <1>1, <1>3 DEF Calls
  <2>4. QED
    BY <2>1, <2>2, <2>3
<1>7. ListsOK(call')
  BY <1>1, <1>6 DEF ListsOK, SameCall
<1>8. QED
  BY <1>1, <1>2, <1>3, <1>5, <1>6, <1>7 DEF Deletes

(* Empty directories are removed.                                          *)
Prunes ==
    /\ call.pc = "prune" /\ UNCHANGED <<tree, ncommits, nops>> /\ Stock(disk')
    /\ disk' = [p \in Path |-> IF disk[p] = DirEntry /\ WalkTree(disk, p) = {}
                               THEN NoEntry ELSE disk[p]]
    /\ call' \in Calls /\ ListsOK(call') /\ SameCall(call, call') /\ call'.quiet = call.quiet
    /\ call'.pc = "idle" /\ call'.todo = call.todo /\ call'.outcome = "ok"

(* So sync_out prunes.                                                     *)
LEMMA PruneDirsIs == ASSUME CopyInv, PruneDirs PROVE Prunes
<1>1. PICK c \in Calls : c = call /\ ListsOK(c) /\ c.pc = "prune" /\ Stock(disk)
  BY DEF CopyInv, PruneDirs
<1>2. PICK empty : empty = {p \in Path : disk[p] = DirEntry /\ WalkTree(disk, p) = {}}
  OBVIOUS
<1>3. /\ UNCHANGED <<tree, ncommits, nops>>
      /\ disk' = [p \in Path |-> IF disk[p] = DirEntry /\ WalkTree(disk, p) = {}
                                 THEN NoEntry ELSE disk[p]]
      /\ call' = Ended(c, "ok")
  BY <1>1 DEF PruneDirs
<1>4. disk' = [p \in Path |-> IF p \in empty THEN NoEntry ELSE disk[p]]
  BY <1>2, <1>3
<1>5. Stock(disk')
  <2>1. ASSUME NEW p \in empty \cap Path, NEW q \in Path, IsStrictPrefix(p, q), disk[q] # NoEntry
        PROVE  q \in empty
    <3>1. WalkTree(disk, p) = {}
      BY <1>2
    <3>2. disk \in [Path -> Data \cup {NoEntry, DirEntry}]
      BY <1>1 DEF Stock, IsTree
    <3>3. q \notin Files(disk)
      BY <2>1, <3>1 DEF WalkTree
    <3>4. disk[q] = DirEntry
      BY <2>1, <3>2, <3>3 DEF Files
    <3>5. \A r \in Path : IsStrictPrefix(q, r) => IsStrictPrefix(p, r)
      BY <2>1, DirFacts, PrefixOrder
    <3>6. WalkTree(disk, q) = {}
      BY <3>1, <3>5 DEF WalkTree, Files
    <3>7. QED
      BY <1>2, <3>4, <3>6
  <2>2. QED
    BY <1>1, <1>4, <2>1, CutOutIs
<1>6. /\ call' \in Calls /\ ListsOK(call') /\ call'.pc = "idle" /\ call'.outcome = "ok"
      /\ call'.quiet = c.quiet /\ SameCall(c, call') /\ call'.todo = c.todo
  BY <1>1, <1>3, EndedIs
<1>7. QED
  BY <1>1, <1>3, <1>5, <1>6 DEF Prunes

-----------------------------------------------------------------------------
(* What others do.                                                         *)

(* A call that is under way goes on, but is no longer undisturbed.         *)
Disturbs ==
    /\ call' \in Calls /\ ListsOK(call') /\ SameCall(call, call') /\ ~call'.quiet
    /\ call'.pc = call.pc /\ call'.outcome = call.outcome /\ call'.todo = call.todo

(* So a call is disturbed.                                                 *)
LEMMA DisturbIs == ASSUME CopyInv, Disturb PROVE Disturbs
<1>1. PICK c \in Calls : c = call /\ ListsOK(c) /\ call' = [c EXCEPT !.quiet = FALSE]
  BY DEF CopyInv, Disturb
<1>2. /\ call' \in Calls /\ call'.pc = c.pc /\ call'.outcome = c.outcome /\ call'.todo = c.todo
      /\ SameCall(c, call') /\ ~call'.quiet /\ call'.writes = c.writes
  BY <1>1 DEF Calls, SameCall
<1>3. ListsOK(call')
  BY <1>1, <1>2 DEF ListsOK, SameCall
<1>4. QED
  BY <1>1, <1>2, <1>3 DEF Disturbs

(* Another commit.                                                         *)
LEMMA RepoEditIs ==
    ASSUME CopyInv, NEW e \in RepoEdits, RepoEdit(e[1], e[2])
    PROVE  Stock(tree') /\ Disturbs /\ ncommits' = ncommits + 1 /\ Start /\ disk' = disk
<1>1. PICK p \in Path, x \in Data \cup {NoEntry} : p = e[1] /\ x = e[2] /\ Placed(p)
  BY EditIs
<1>2. p \in Dirs /\ Stock(tree)
  BY DirFacts DEF CopyInv
<1>3. tree' = IF x = NoEntry THEN RebuildTree(tree, NoFiles, <<p>>)
              ELSE RebuildTree(tree, OneWrite(p, x), <<>>)
  BY <1>1 DEF RepoEdit
<1>4. Stock(tree')
  <2>1. CASE x = NoEntry
    <3>1. IsWrites(NoFiles) /\ DOMAIN NoFiles = {} /\ <<p>> \in Seq(Dirs)
      BY <1>2, NoWriteIs DEF NoFiles
    <3>2. ToSet(<<p>>) = {p}
      BY DEF ToSet
    <3>3. \A q \in Mentioned(NoFiles, <<p>>) : Placed(q)
      BY <1>1, <3>1, <3>2 DEF Mentioned
    <3>4. Stock(RebuildTree(tree, NoFiles, <<p>>))
      BY <1>2, <3>1, <3>3, RebuildStock DEF IsRemoves
    <3>5. QED
      BY <1>3, <2>1, <3>4
  <2>2. CASE x # NoEntry
    <3>1. x \in Data
      BY <2>2
    <3>2. OneWrite(p, x) \in Writes /\ DOMAIN OneWrite(p, x) = {p}
      BY <1>2, <3>1, OneWriteIn, OneWriteIs
    <3>3. <<>> \in Seq(Dirs) /\ ToSet(<<>>) = {}
      BY DEF ToSet
    <3>4. \A q \in Mentioned(OneWrite(p, x), <<>>) : Placed(q)
      BY <1>1, <3>2, <3>3 DEF Mentioned
    <3>5. Stock(RebuildTree(tree, OneWrite(p, x), <<>>))
      BY <1>2, <3>2, <3>3, <3>4, SetsAre, RebuildStock DEF IsRemoves
    <3>6. QED
      BY <1>3, <2>2, <3>5
  <2>3. QED
    BY <2>1, <2>2
<1>5. Disturb /\ ncommits' = ncommits + 1 /\ Start /\ disk' = disk
  BY DEF RepoEdit
<1>6. QED
  BY <1>4, <1>5, DisturbIs

(* Another entry on disk.                                                  *)
LEMMA DiskEditIs ==
    ASSUME CopyInv, NEW e \in DiskEdits, DiskEdit(e[1], e[2])
    PROVE  Stock(disk') /\ Disturbs /\ Start /\ UNCHANGED <<tree, ncommits>>
<1>1. PICK p \in Path, x \in Data \cup {NoEntry, DirEntry} :
         p = e[1] /\ x = e[2] /\ Placed(p) /\ (x = DirEntry => p[Len(p)] \notin Linked)
  BY EditIs
<1>2. /\ \A q \in Files(disk) : ~IsStrictPrefix(q, p)
      /\ disk[p] = DirEntry => x = NoEntry /\ ~Holds(disk, p)
      /\ disk[p] # x
      /\ disk' = IF x = NoEntry THEN [disk EXCEPT ![p] = NoEntry]
                 ELSE [MakeDirs(disk, p) EXCEPT ![p] = x]
      /\ Disturb /\ Start /\ UNCHANGED <<tree, ncommits>>
  BY <1>1 DEF DiskEdit
<1>3. Stock(disk) /\ NoEntry # DirEntry
  BY DEF CopyInv, NoEntry, DirEntry
<1>4. Stock(disk')
  <2>1. CASE x = NoEntry
    <3>1. Len(p) > 1 => disk[Front(p)] = DirEntry
      BY <1>2, <1>3, <2>1 DEF Stock, IsTree
    <3>2. disk' = [disk EXCEPT ![p] = NoEntry]
      BY <1>2, <2>1
    <3>3. NoEntry \in Data \cup {NoEntry, DirEntry}
      OBVIOUS
    <3>4. QED
      BY <1>2, <1>3, <3>1, <3>2, <3>3, PutIs
  <2>2. CASE x # NoEntry
    <3>1. PICK dirs : dirs = MakeDirs(disk, p)
      OBVIOUS
    <3>2. Stock(dirs) /\ dirs[p] = disk[p] /\ (Len(p) > 1 => dirs[Front(p)] = DirEntry)
      BY <1>1, <1>2, <1>3, <3>1, MakeDirsIs
    <3>3. dirs[p] # DirEntry
      BY <1>2, <2>2, <3>2
    <3>4. disk' = [dirs EXCEPT ![p] = x]
      BY <1>2, <2>2, <3>1
    <3>5. QED
      BY <1>1, <3>2, <3>3, <3>4, PutIs
  <2>3. QED
    BY <2>1, <2>2
<1>5. QED
  BY <1>2, <1>4, DisturbIs

-----------------------------------------------------------------------------
(* The invariant holds.                                                    *)

(* Nothing is called at first.                                             *)
LEMMA InitCopyInv == Init => CopyInv
<1> SUFFICES ASSUME Init PROVE CopyInv
  OBVIOUS
<1>1. PICK c : c = NoCall /\ c = call
  BY DEF Init
<1>2. c \in Calls /\ Stock(c.base) /\ ListsOK(c)
  BY <1>1, NoCallIs
<1>3. c.commit = 0 /\ c.base = EmptyTree /\ c.pc = "idle"
  BY <1>1 DEF NoCall
<1>4. tree = EmptyTree /\ disk = EmptyTree /\ ncommits = 0 /\ nops = 0 /\ nops \in 0 .. MaxOps
  BY CopyAssumption DEF Init
<1>5. SnapshotOK
  BY <1>1, <1>3, <1>4 DEF SnapshotOK
<1>6. QED
  BY <1>1, <1>2, <1>4, <1>5, EmptyStock DEF CopyInv

(* A step of a call that is under way, and the numbers it leaves.          *)
LEMMA StepKeeps ==
    ASSUME CopyInv, Stock(tree'), Stock(disk'), call' \in Calls, ListsOK(call'),
           SameCall(call, call'),
           \/ nops' = nops /\ ncommits' = ncommits /\ tree' = tree /\ call'.pc = "read" /\ call.pc = "read"
           \/ nops' = nops /\ ncommits' = ncommits /\ tree' = tree /\ call'.pc # "read"
           \/ nops' = nops /\ ncommits' = ncommits + 1 /\ call'.pc # "read" /\ call.pc = "read"
           \/ Start /\ ncommits' = ncommits /\ tree' = tree /\ call'.pc = call.pc
           \/ Start /\ ncommits' = ncommits + 1 /\ call'.pc = call.pc
    PROVE  CopyInv'
<1>1. /\ call.commit \in Nat /\ call'.commit = call.commit /\ call'.base = call.base
      /\ Stock(call'.base) /\ ncommits \in Nat /\ nops \in 0 .. MaxOps /\ MaxOps \in Nat
      /\ call.commit <= ncommits /\ (call.commit = ncommits => call.base = tree)
      /\ ncommits + (IF call.pc = "read" THEN 1 ELSE 0) <= nops
  BY CopyAssumption DEF CopyInv, SameCall, Calls, SnapshotOK
<1>2. /\ nops' \in 0 .. MaxOps /\ ncommits' \in Nat /\ call'.commit <= ncommits'
      /\ ncommits' + (IF call'.pc = "read" THEN 1 ELSE 0) <= nops'
  BY <1>1 DEF Start
<1>3. call'.commit = ncommits' => call'.base = tree'
  BY <1>1
<1>4. SnapshotOK'
  BY <1>2, <1>3 DEF SnapshotOK
<1>5. QED
  BY <1>1, <1>2, <1>4 DEF CopyInv

(* A call begins, or fails at once.                                        *)
LEMMA StartKeeps ==
    ASSUME CopyInv, UNCHANGED <<tree, ncommits, disk>>, Start, call' \in Calls, ListsOK(call'),
           call'.base = tree, call'.commit = ncommits, call.pc = "idle"
    PROVE  CopyInv'
<1>1. /\ Stock(call'.base) /\ ncommits \in Nat /\ nops \in 0 .. MaxOps /\ MaxOps \in Nat
      /\ ncommits <= nops
  BY CopyAssumption DEF CopyInv, SnapshotOK
<1>2. /\ nops' \in 0 .. MaxOps /\ ncommits' = ncommits /\ call'.commit <= ncommits'
      /\ ncommits' + (IF call'.pc = "read" THEN 1 ELSE 0) <= nops'
  BY <1>1 DEF Start
<1>3. SnapshotOK'
  BY <1>2 DEF SnapshotOK
<1>4. QED
  BY <1>1, <1>2, <1>3 DEF CopyInv

(* Every step keeps the invariant.                                         *)
LEMMA NextCopyInv == CopyInv /\ [Next]_vars => CopyInv'
<1> SUFFICES ASSUME CopyInv, [Next]_vars PROVE CopyInv'
  OBVIOUS
<1>1. ASSUME NEW op \in {"copy_in", "sync_in"}, NEW at \in At, NEW f \in Filters,
             NEW c \in BOOLEAN, NEW d \in BOOLEAN, StartIn(op, at, f, c, d)
      PROVE  CopyInv'
  <2>1. StartsIn(op, at, f, c, d)
    BY <1>1, StartInIs
  <2>2. QED
    BY <2>1, StartKeeps DEF StartsIn
<1>2. ASSUME NEW rel \in call.todo, ReadFile(rel) PROVE CopyInv'
  <2>1. Reads(rel)
    BY <1>2, ReadFileIs
  <2>2. call'.pc \in {"read", "idle"} /\ call.pc = "read"
    BY <2>1 DEF Reads, ReadsOn
  <2>3. Stock(tree') /\ Stock(disk')
    BY <2>1 DEF Reads, CopyInv
  <2>4. QED
    BY <2>1, <2>2, <2>3, StepKeeps DEF Reads
<1>3. ASSUME NEW rel \in call.todo, WriteFile(rel) PROVE CopyInv'
  <2>1. WritesOut(rel)
    BY <1>3, WriteFileIs
  <2>2. call'.pc # "read"
    BY <2>1 DEF WritesOut, WritesOn
  <2>3. Stock(tree')
    BY <2>1 DEF WritesOut, CopyInv
  <2>4. QED
    BY <2>1, <2>2, <2>3, StepKeeps DEF WritesOut
<1>4. CASE CommitIn
  <2>1. CommitsIn
    BY <1>4, CommitInIs
  <2>2. /\ \/ ncommits' = ncommits /\ tree' = tree
           \/ ncommits' = ncommits + 1
        /\ Stock(disk')
    BY <2>1 DEF CommitsIn, Commits, CopyInv
  <2>3. QED
    BY <2>1, <2>2, StepKeeps DEF CommitsIn
<1>5. ASSUME NEW op \in {"copy_out", "sync_out"}, NEW at \in At, NEW f \in Filters,
             StartOut(op, at, f)
      PROVE  CopyInv'
  <2>1. StartsOut(op, at, f)
    BY <1>5, StartOutIs
  <2>2. QED
    BY <2>1, StartKeeps DEF StartsOut
<1>6. CASE CopiedOut
  <2>1. CopiesOut
    BY <1>6, CopiedOutIs
  <2>2. Stock(tree') /\ Stock(disk')
    BY <2>1 DEF CopiesOut, CopyInv
  <2>3. QED
    BY <2>1, <2>2, StepKeeps DEF CopiesOut
<1>7. CASE DeleteExtras
  <2>1. Deletes
    BY <1>7, DeleteExtrasIs
  <2>2. Stock(tree')
    BY <2>1 DEF Deletes, CopyInv
  <2>3. QED
    BY <2>1, <2>2, StepKeeps DEF Deletes
<1>8. CASE PruneDirs
  <2>1. Prunes
    BY <1>8, PruneDirsIs
  <2>2. Stock(tree')
    BY <2>1 DEF Prunes, CopyInv
  <2>3. QED
    BY <2>1, <2>2, StepKeeps DEF Prunes
<1>9. ASSUME NEW e \in RepoEdits, RepoEdit(e[1], e[2]) PROVE CopyInv'
  <2>1. Stock(tree') /\ Disturbs /\ ncommits' = ncommits + 1 /\ Start /\ disk' = disk
    BY <1>9, RepoEditIs
  <2>2. Stock(disk')
    BY <2>1 DEF CopyInv
  <2>3. QED
    BY <2>1, <2>2, StepKeeps DEF Disturbs
<1>10. ASSUME NEW e \in DiskEdits, DiskEdit(e[1], e[2]) PROVE CopyInv'
  <2>1. Stock(disk') /\ Disturbs /\ Start /\ UNCHANGED <<tree, ncommits>>
    BY <1>10, DiskEditIs
  <2>2. Stock(tree')
    BY <2>1 DEF CopyInv
  <2>3. QED
    BY <2>1, <2>2, StepKeeps DEF Disturbs
<1>11. CASE UNCHANGED vars
  BY <1>11 DEF vars, CopyInv, SnapshotOK, ListsOK
<1>12. QED
  BY <1>1, <1>2, <1>3, <1>4, <1>5, <1>6, <1>7, <1>8, <1>9, <1>10, <1>11 DEF Next

(* The branch and the directory on disk hold trees at every step of every  *)
(* call, also when copy_out or sync_out throws between two files and when  *)
(* somebody edits the disk or commits in the middle of a call.             *)
THEOREM CopiesKeepTrees == Spec => []TypeOK
<1>1. CopyInv => TypeOK
  <2> SUFFICES ASSUME CopyInv PROVE TypeOK
    OBVIOUS
  <2>1. ncommits \in 0 .. MaxOps /\ nops \in 0 .. MaxOps
    BY CopyAssumption DEF CopyInv, SnapshotOK
  <2>2. DOMAIN call.writes \subseteq Path /\ call.todo \subseteq call.listed
    BY DEF CopyInv, ListsOK
  <2>3. QED
    BY <2>1, <2>2 DEF CopyInv, Stock, Calls, TypeOK
<1>2. QED
  BY <1>1, InitCopyInv, NextCopyInv, PTL DEF Spec

-----------------------------------------------------------------------------
(* copy_in and sync_in while nobody interferes: the writes and the report  *)
(* are those of the files that have been read and that differ.             *)

Picked(c) == {rel \in c.listed \ c.todo : ~Unchanged(c, rel, c.disk0[rel])}

Updates(c, rel) == c.op = "sync_in" /\ rel \in DOMAIN c.existing

HasRead(c) ==
    /\ c.op \in {"copy_in", "sync_in"}
    /\ c.listed = {rel \in DiskWalk(c.disk0) : MatchesFilters(c.filter, rel)}
    /\ c.existing = IF c.op = "sync_in" \/ c.checksum THEN Existing(c.base, c.at).files
                    ELSE NoFiles
    /\ \A p : p \in DOMAIN c.writes <=> \E rel \in Picked(c) : p = Under(c.at, rel)
    /\ \A rel \in Picked(c) : c.writes[Under(c.at, rel)] = c.disk0[rel]
    /\ \A p : p \in c.add <=> \E rel \in Picked(c) : p = Under(c.at, rel) /\ ~Updates(c, rel)
    /\ \A p : p \in c.update <=> \E rel \in Picked(c) : p = Under(c.at, rel) /\ Updates(c, rel)

ReadInv ==
    call.pc = "read" /\ call.quiet =>
        HasRead(call) /\ disk = call.disk0 /\ call.commit = ncommits

(* Nothing has been read at first.                                         *)
LEMMA StartHasRead ==
    ASSUME CopyInv, NEW op \in {"copy_in", "sync_in"}, NEW at \in At, NEW filter \in Filters,
           NEW checksum \in BOOLEAN, NEW dry_run \in BOOLEAN,
           StartsIn(op, at, filter, checksum, dry_run)
    PROVE  ReadInv'
<1> SUFFICES ASSUME call'.pc = "read" PROVE HasRead(call') /\ disk' = call'.disk0 /\ call'.commit = ncommits'
  BY DEF ReadInv
<1>1. PICK c : c = call'
  OBVIOUS
<1>2. /\ c.op = op /\ c.at = at /\ c.filter = filter /\ c.checksum = checksum /\ c.base = tree
      /\ c.disk0 = disk /\ c.commit = ncommits /\ disk' = disk /\ ncommits' = ncommits
      /\ DOMAIN c.writes = {} /\ c.add = {} /\ c.update = {} /\ c.todo = c.listed
      /\ c.listed = {rel \in DiskWalk(disk) : MatchesFilters(filter, rel)}
      /\ c.existing = IF op = "sync_in" \/ checksum THEN Existing(tree, at).files ELSE NoFiles
  BY <1>1 DEF StartsIn
<1>3. Picked(c) = {}
  BY <1>2 DEF Picked
<1>4. HasRead(c)
  BY <1>2, <1>3 DEF HasRead
<1>5. QED
  BY <1>1, <1>2, <1>4

(* One more file has been read.                                            *)
LEMMA ReadHasRead ==
    ASSUME CopyInv, ReadInv, NEW rel, Reads(rel)
    PROVE  ReadInv'
<1> SUFFICES ASSUME call'.pc = "read", call'.quiet
             PROVE  HasRead(call') /\ disk' = call'.disk0 /\ call'.commit = ncommits'
  BY DEF ReadInv
<1>1. PICK c \in Calls, e \in Calls : c = call /\ e = call'
  BY DEF CopyInv, Reads
<1>2. /\ HasRead(c) /\ disk = c.disk0 /\ c.commit = ncommits /\ SameCall(c, e) /\ ReadsOn(rel)
      /\ disk' = disk /\ ncommits' = ncommits /\ rel \in c.todo /\ rel \in Path
      /\ Stock(disk) /\ ListsOK(c)
  BY <1>1 DEF Reads, ReadInv, CopyInv
<1>3. PICK path : path = Under(c.at, rel)
  OBVIOUS
<1>4. rel \in c.listed /\ rel \in Files(disk) /\ c.listed \subseteq Path
      /\ \A r \in c.listed : r \in Seq(Name)
  <2>1. rel \in c.listed
    BY <1>2 DEF ListsOK
  <2>2. rel \in DiskWalk(disk)
    BY <1>2, <2>1 DEF HasRead
  <2>3. QED
    BY <1>1, <1>2, <2>1, <2>2, WalkFinds, DirFacts DEF Calls
<1>5. PICK data \in Data : data = disk[rel] /\ data = c.disk0[rel] /\ data = ReadsData(rel)
  <2>1. disk[rel] \in Data /\ NoEntry \notin Data
    BY <1>4, TreeAssumption DEF Files
  <2>2. QED
    BY <1>2, <2>1 DEF ReadsData
<1>6. \A r \in c.listed : Under(c.at, r) = path => r = rel
  <2>1. c.at \in Seq(Name)
    BY <1>1, DestIs DEF Calls
  <2>2. QED
    BY <1>3, <1>4, <2>1, UnderOrder
<1>7. \A r : Unchanged(e, r, c.disk0[r]) <=> Unchanged(c, r, c.disk0[r])
  BY <1>2 DEF Unchanged, SameCall
<1>8. \A r : Updates(e, r) <=> Updates(c, r)
  BY <1>2 DEF Updates, SameCall
<1>9. /\ e.todo = c.todo \ {rel}
      /\ Unchanged(c, rel, data) =>
            e.writes = c.writes /\ e.add = c.add /\ e.update = c.update
      /\ ~Unchanged(c, rel, data) =>
            /\ e.writes = Over(OneWrite(path, data), c.writes)
            /\ e.add = IF Updates(c, rel) THEN c.add ELSE c.add \cup {path}
            /\ e.update = IF Updates(c, rel) THEN c.update \cup {path} ELSE c.update
  BY <1>1, <1>2, <1>3, <1>5 DEF ReadsOn, Updates
<1>10. \A r : r \in Picked(e) <=> r \in Picked(c) \/ (r = rel /\ ~Unchanged(c, rel, data))
  <2>1. e.listed = c.listed /\ e.disk0 = c.disk0
    BY <1>2 DEF SameCall
  <2>2. QED
    BY <1>2, <1>4, <1>5, <1>7, <1>9, <2>1 DEF Picked
<1>11. \A r \in Picked(c) : r \in c.listed /\ r # rel
  BY <1>2 DEF Picked
<1>12. e.at = c.at /\ e.disk0 = c.disk0 /\ e.op = c.op
  BY <1>2 DEF SameCall
<1>13. /\ \A p : p \in DOMAIN c.writes <=> \E r \in Picked(c) : p = Under(c.at, r)
       /\ \A r \in Picked(c) : c.writes[Under(c.at, r)] = c.disk0[r]
       /\ \A p : p \in c.add <=> \E r \in Picked(c) : p = Under(c.at, r) /\ ~Updates(c, r)
       /\ \A p : p \in c.update <=> \E r \in Picked(c) : p = Under(c.at, r) /\ Updates(c, r)
  BY <1>2 DEF HasRead
<1>14. /\ e.op \in {"copy_in", "sync_in"}
       /\ e.listed = {r \in DiskWalk(e.disk0) : MatchesFilters(e.filter, r)}
       /\ e.existing = IF e.op = "sync_in" \/ e.checksum THEN Existing(e.base, e.at).files
                       ELSE NoFiles
  BY <1>2 DEF HasRead, SameCall
<1>15. CASE Unchanged(c, rel, data)
  <2>1. Picked(e) = Picked(c)
    BY <1>10, <1>15
  <2>2. e.writes = c.writes /\ e.add = c.add /\ e.update = c.update
    BY <1>9, <1>15
  <2>3. HasRead(e)
    BY <1>8, <1>12, <1>13, <1>14, <2>1, <2>2 DEF HasRead
  <2>4. QED
    BY <1>1, <1>2, <2>3 DEF SameCall
<1>16. CASE ~Unchanged(c, rel, data)
  <2>1. Picked(e) = Picked(c) \cup {rel}
    BY <1>10, <1>16
  <2>2. /\ DOMAIN e.writes = DOMAIN c.writes \cup {path} /\ e.writes[path] = data
        /\ \A q \in DOMAIN c.writes : q # path => e.writes[q] = c.writes[q]
    <3>1. e.writes = Over(OneWrite(path, data), c.writes)
      BY <1>9, <1>16
    <3>2. QED
      BY <3>1 DEF Over, OneWrite
  <2>3. \A p : p \in DOMAIN e.writes <=> \E r \in Picked(e) : p = Under(e.at, r)
    BY <1>3, <1>12, <1>13, <2>1, <2>2
  <2>4. ASSUME NEW r \in Picked(e) PROVE e.writes[Under(e.at, r)] = e.disk0[r]
    <3>1. CASE r = rel
      BY <1>3, <1>5, <1>12, <2>2, <3>1
    <3>2. CASE r # rel
      <4>1. r \in Picked(c) /\ r \in c.listed
        BY <1>11, <2>1, <3>2
      <4>2. Under(c.at, r) # path /\ Under(c.at, r) \in DOMAIN c.writes
        BY <1>6, <1>13, <3>2, <4>1
      <4>3. e.writes[Under(c.at, r)] = c.writes[Under(c.at, r)]
        BY <2>2, <4>2
      <4>4. c.writes[Under(c.at, r)] = c.disk0[r]
        BY <1>13, <4>1
      <4>5. QED
        BY <1>12, <4>3, <4>4
    <3>3. QED
      BY <3>1, <3>2
  <2>5. \A p : p \in e.add <=> \E r \in Picked(e) : p = Under(e.at, r) /\ ~Updates(e, r)
    BY <1>3, <1>8, <1>9, <1>12, <1>13, <1>16, <2>1
  <2>6. \A p : p \in e.update <=> \E r \in Picked(e) : p = Under(e.at, r) /\ Updates(e, r)
    BY <1>3, <1>8, <1>9, <1>12, <1>13, <1>16, <2>1
  <2>7. HasRead(e)
    BY <1>14, <2>3, <2>4, <2>5, <2>6 DEF HasRead
  <2>8. QED
    BY <1>1, <1>2, <2>7 DEF SameCall
<1>17. QED
  BY <1>15, <1>16

(* The other steps do not read.                                            *)
LEMMA NextReadInv == CopyInv /\ ReadInv /\ [Next]_vars => ReadInv'
<1> SUFFICES ASSUME CopyInv, ReadInv, [Next]_vars PROVE ReadInv'
  OBVIOUS
<1>1. ASSUME NEW op \in {"copy_in", "sync_in"}, NEW at \in At, NEW f \in Filters,
             NEW c \in BOOLEAN, NEW d \in BOOLEAN, StartIn(op, at, f, c, d)
      PROVE  ReadInv'
  BY <1>1, StartInIs, StartHasRead
<1>2. ASSUME NEW rel \in call.todo, ReadFile(rel) PROVE ReadInv'
  BY <1>2, ReadFileIs, ReadHasRead
<1>3. ASSUME NEW rel \in call.todo, WriteFile(rel) PROVE ReadInv'
  <2>1. WritesOut(rel)
    BY <1>3, WriteFileIs
  <2>2. QED
    BY <2>1 DEF WritesOut, WritesOn, ReadInv
<1>4. CASE CommitIn
  BY <1>4, CommitInIs DEF CommitsIn, ReadInv
<1>5. ASSUME NEW op \in {"copy_out", "sync_out"}, NEW at \in At, NEW f \in Filters,
             StartOut(op, at, f)
      PROVE  ReadInv'
  <2>1. StartsOut(op, at, f)
    BY <1>5, StartOutIs
  <2>2. QED
    BY <2>1 DEF StartsOut, ReadInv
<1>6. CASE CopiedOut
  BY <1>6, CopiedOutIs DEF CopiesOut, ReadInv
<1>7. CASE DeleteExtras
  BY <1>7, DeleteExtrasIs DEF Deletes, ReadInv
<1>8. CASE PruneDirs
  BY <1>8, PruneDirsIs DEF Prunes, ReadInv
<1>9. ASSUME NEW e \in RepoEdits, RepoEdit(e[1], e[2]) PROVE ReadInv'
  <2>1. Disturbs
    BY <1>9, RepoEditIs
  <2>2. QED
    BY <2>1 DEF Disturbs, ReadInv
<1>10. ASSUME NEW e \in DiskEdits, DiskEdit(e[1], e[2]) PROVE ReadInv'
  <2>1. Disturbs
    BY <1>10, DiskEditIs
  <2>2. QED
    BY <2>1 DEF Disturbs, ReadInv
<1>11. CASE UNCHANGED vars
  BY <1>11 DEF vars, ReadInv
<1>12. QED
  BY <1>1, <1>2, <1>3, <1>4, <1>5, <1>6, <1>7, <1>8, <1>9, <1>10, <1>11 DEF Next

-----------------------------------------------------------------------------
(* What copy_in and sync_in are asked for.                                 *)

WantedOf(filter, d) == {rel \in Files(d) : MatchesFilters(filter, rel)}

FullOf(at, filter, d) ==
    [p \in {Under(at, rel) : rel \in WantedOf(filter, d)} |-> d[Relative(at, p)]]

SpareOf(at, filter, d, base) ==
    {p \in WalkTree(base, at) : /\ MatchesFilters(filter, Relative(at, p))
                                /\ Relative(at, p) \notin WantedOf(filter, d)}

AskedOf(op, at, filter, d, base) ==
    Changed(Contents(base), FullOf(at, filter, d),
            IF op = "sync_in" THEN SpareOf(at, filter, d, base) ELSE {})

(* AskedFor is the one of the call that has just returned.                 *)
LEMMA AskedIs == AskedFor = AskedOf(call.op, call.at, call.filter, call.disk0, call.base)
BY DEF AskedFor, AskedOf, FullOf, SpareOf, WantedOf, Wanted

(* Paths below the root.                                                   *)
LEMMA BelowRoot ==
    ASSUME NEW p \in Path
    PROVE  Under(Root, p) = p /\ Relative(Root, p) = p /\ IsStrictPrefix(Root, p)
<1>1. p \in Seq(Name) /\ p \in Dirs /\ p # Root /\ Root \in Seq(Name)
  BY DirFacts, PathsAre
<1>2. Root \o p = p
  BY <1>1 DEF Root
<1>3. Relative(Root, p) = p
  <2>1. PICK root \in Seq(Name) : root = Root
    BY <1>1
  <2>2. Relative(root, Under(root, p)) = p
    BY <1>1, UnderIs
  <2>3. QED
    BY <1>2, <2>1, <2>2 DEF Under
<1>4. IsPrefix(Root, p)
  BY <1>1, DirFacts
<1>5. QED
  BY <1>1, <1>2, <1>3, <1>4 DEF IsStrictPrefix, Under

(* All the writes there are to make.                                       *)
LEMMA FullIs ==
    ASSUME NEW at \in Dests, NEW filter, NEW d, Stock(d), NEW wanted, wanted = WantedOf(filter, d),
           \A rel \in wanted : Under(at, rel) \in Path,
           NEW full, full = FullOf(at, filter, d)
    PROVE  /\ \A p : p \in DOMAIN full <=> \E rel \in wanted : p = Under(at, rel)
           /\ \A rel \in wanted : full[Under(at, rel)] = d[rel]
           /\ DOMAIN full \subseteq Path /\ ~Nested(DOMAIN full)
<1>1. full = [p \in {Under(at, rel) : rel \in wanted} |-> d[Relative(at, p)]]
  BY DEF FullOf
<1>2. at \in Seq(Name) /\ wanted \subseteq Files(d) /\ \A rel \in wanted : rel \in Seq(Name)
  BY DestIs, DirFacts DEF WantedOf, Files
<1>3. \A rel \in wanted : Relative(at, Under(at, rel)) = rel
  BY <1>2, UnderIs
<1>4. DOMAIN full = {Under(at, rel) : rel \in wanted}
  BY <1>1
<1>5. ASSUME NEW rel \in wanted PROVE full[Under(at, rel)] = d[rel]
  BY <1>1, <1>3
<1>6. ~Nested(DOMAIN full)
  <2> SUFFICES ASSUME NEW p \in DOMAIN full, NEW q \in DOMAIN full, IsStrictPrefix(p, q) PROVE FALSE
    BY DEF Nested
  <2>1. PICK r \in wanted, s \in wanted : p = Under(at, r) /\ q = Under(at, s)
    BY <1>4
  <2>2. IsStrictPrefix(r, s)
    BY <1>2, <2>1, UnderOrder
  <2>3. r \in Files(d) /\ s \in Path /\ d[s] # NoEntry
    BY <1>2, TreeAssumption DEF Files
  <2>4. QED
    BY <2>2, <2>3, FilesApart DEF Stock
<1>7. QED
  BY <1>4, <1>5, <1>6

(* Files are apart from one another.                                       *)
LEMMA FilesNotNested == ASSUME NEW t, IsTree(t) PROVE ~Nested(Files(t)) /\ DOMAIN Contents(t) = Files(t)
<1>1. ASSUME NEW p \in Files(t), NEW q \in Files(t) PROVE ~IsStrictPrefix(p, q)
  <2>1. q \in Path /\ t[q] # NoEntry
    BY TreeAssumption DEF Files
  <2>2. QED
    BY <2>1, FilesApart
<1>2. QED
  BY <1>1 DEF Nested, Contents

(* Files that would be written as they are can be left out of a change.    *)
LEMMA LeaveOut ==
    ASSUME NEW contents, DOMAIN contents \subseteq Path, ~Nested(DOMAIN contents),
           NEW full, DOMAIN full \subseteq Path, ~Nested(DOMAIN full),
           NEW part, DOMAIN part \subseteq DOMAIN full, \A p \in DOMAIN part : part[p] = full[p],
           \A p \in DOMAIN full \ DOMAIN part : p \in DOMAIN contents /\ contents[p] = full[p],
           NEW removes, removes \subseteq DOMAIN contents, removes \cap DOMAIN full = {}
    PROVE  Changed(contents, part, removes) = Changed(contents, full, removes)
<1>1. PICK P \in SUBSET Path, F \in SUBSET Path, C \in SUBSET Path :
         P = DOMAIN part /\ F = DOMAIN full /\ C = DOMAIN contents
  OBVIOUS
<1>2. /\ Changed(contents, part, removes) = Replaced(contents, part, P \cup removes)
      /\ Changed(contents, full, removes) = Replaced(contents, full, F \cup removes)
  BY <1>1, ChangedIs
<1>3. PICK K, L : K = Clear(contents, P \cup removes) /\ L = Clear(contents, F \cup removes)
  OBVIOUS
<1>4. ASSUME NEW p \in F \ P PROVE p \in K
  <2>1. p \in C
    BY <1>1, <1>4
  <2>2. \A m \in P : ~InTheWay(m, p)
    BY <1>1, <1>4, ApartPaths
  <2>3. \A m \in removes : ~InTheWay(m, p)
    BY <1>1, <1>4, <2>1, ApartPaths
  <2>4. QED
    BY <1>1, <1>3, <2>1, <2>2, <2>3 DEF Clear
<1>5. L \subseteq K
  BY <1>1, <1>3 DEF Clear
<1>6. ASSUME NEW p \in K, p \notin F PROVE p \in L
  <2>1. p \in C /\ \A m \in P \cup removes : ~InTheWay(m, p)
    BY <1>1, <1>3 DEF Clear
  <2>2. ASSUME NEW m \in F \ P PROVE ~InTheWay(m, p)
    <3>1. m \in C /\ m # p
      BY <1>1, <1>6, <2>2
    <3>2. QED
      BY <1>1, <2>1, <3>1, ApartPaths
  <2>3. QED
    BY <1>1, <1>3, <2>1, <2>2 DEF Clear
<1>7. K \cup P = L \cup F
  BY <1>1, <1>4, <1>5, <1>6
<1>8. /\ Replaced(contents, part, P \cup removes)
            = [x \in K \cup P |-> IF x \in P THEN part[x] ELSE contents[x]]
      /\ Replaced(contents, full, F \cup removes)
            = [x \in L \cup F |-> IF x \in F THEN full[x] ELSE contents[x]]
  BY <1>1, <1>3 DEF Replaced
<1>9. \A x \in K \cup P : (IF x \in P THEN part[x] ELSE contents[x])
                            = (IF x \in F THEN full[x] ELSE contents[x])
  BY <1>1
<1>10. QED
  BY <1>2, <1>7, <1>8, <1>9

(* What is below a directory is longer.                                    *)
LEMMA UnderLonger ==
    ASSUME NEW at \in Seq(Name), NEW rel \in Path
    PROVE  IsStrictPrefix(at, Under(at, rel)) /\ Relative(at, Under(at, rel)) = rel
<1>1. rel \in Seq(Name) /\ Len(rel) \in Nat /\ Len(rel) >= 1 /\ Len(at) \in Nat
  BY PathsAre
<1>2. PICK p \in Seq(Name) : p = Under(at, rel) /\ IsUnder(p, at, rel) /\ Relative(at, p) = rel
  BY <1>1, UnderIs
<1>3. Len(at) < Len(p)
  BY <1>1, <1>2 DEF IsUnder
<1>4. IsPrefix(at, p)
  BY <1>1, <1>2, UnderOrder
<1>5. QED
  BY <1>2, <1>3, <1>4, PrefixMeans

(* A destination that is not a directory yet: what is there is known.      *)
KnowsBase(c) ==
    /\ \A rel \in DOMAIN c.existing :
          /\ rel \in Path /\ Under(c.at, rel) \in Files(c.base)
          /\ c.existing[rel] = c.base[Under(c.at, rel)]
    /\ c.op = "sync_in" \/ c.checksum =>
          \A rel \in Path : Under(c.at, rel) \in Files(c.base) => rel \in DOMAIN c.existing

(* What a call into the root or a new directory has looked up is that.     *)
LEMMA ExistingKnown ==
    ASSUME NEW c \in Calls, Stock(c.base), HasRead(c),
           c.at = Root \/ Lookup(c.base, c.at) # DirEntry
    PROVE  KnowsBase(c)
<1>1. c.at \in Dests /\ c.at \in Dirs /\ c.at \in Seq(Name) /\ 2 * Len(c.at) < MaxDepth
  <2>1. c.at \in Dests
    BY DEF Calls
  <2>2. 2 * Len(Root) < MaxDepth
    BY PathsAre, TreeAssumption
  <2>3. QED
    BY <2>1, <2>2, CopyAssumption, DestIs DEF Dests
<1>2. PICK x : x = Existing(c.base, c.at)
  OBVIOUS
<1>3. /\ c.at = Root => /\ DOMAIN x.files = Files(c.base)
                        /\ \A rel \in Files(c.base) : x.files[rel] = c.base[rel]
      /\ c.at # Root /\ Lookup(c.base, c.at) # DirEntry => DOMAIN x.files = {}
  BY <1>1, <1>2, ExistingIs
<1>4. c.existing = IF c.op = "sync_in" \/ c.checksum THEN x.files ELSE NoFiles
  BY <1>2 DEF HasRead
<1>5. DOMAIN NoFiles = {}
  BY NoWriteIs DEF NoFiles
<1>6. CASE c.at = Root
  <2>1. \A rel \in Path : Under(c.at, rel) = rel
    BY <1>6, BelowRoot
  <2>2. Files(c.base) \subseteq Path
    BY DEF Files
  <2>3. DOMAIN x.files = Files(c.base) /\ \A rel \in Files(c.base) : x.files[rel] = c.base[rel]
    BY <1>3, <1>6
  <2>4. QED
    BY <1>4, <1>5, <2>1, <2>2, <2>3 DEF KnowsBase
<1>7. CASE c.at # Root
  <2>1. Lookup(c.base, c.at) # DirEntry /\ DOMAIN x.files = {}
    BY <1>3, <1>7
  <2>2. WalkTree(c.base, c.at) = {}
    BY <1>1, <2>1, WalkNothing DEF Stock
  <2>3. \A rel \in Path : Under(c.at, rel) \notin Files(c.base)
    BY <1>1, <2>2, UnderLonger DEF WalkTree
  <2>4. DOMAIN c.existing = {}
    BY <1>4, <1>5, <2>1
  <2>5. QED
    BY <2>3, <2>4 DEF KnowsBase
<1>8. QED
  BY <1>6, <1>7

(* The change that is ready to be committed, and the one asked for.        *)
Ready(c, full, removes) ==
    /\ DOMAIN full \subseteq Path /\ ~Nested(DOMAIN full)
    /\ removes = Extras(c) /\ removes \subseteq Files(c.base) /\ removes \cap DOMAIN full = {}
    /\ DOMAIN c.writes \subseteq DOMAIN full /\ \A p \in DOMAIN c.writes : c.writes[p] = full[p]
    /\ \A p \in DOMAIN full \ DOMAIN c.writes : p \in Files(c.base) /\ c.base[p] = full[p]
    /\ c.checksum => \A p \in DOMAIN c.writes : p \in Files(c.base) => c.base[p] # full[p]
    /\ c.op = "sync_in" => /\ c.add = DOMAIN c.writes \ Files(c.base)
                           /\ c.update = DOMAIN c.writes \cap Files(c.base)

(* A call that has read all its files is ready.                            *)
LEMMA ReadyIs ==
    ASSUME NEW c \in Calls, Stock(c.base), Stock(c.disk0), ListsOK(c), HasRead(c), KnowsBase(c),
           c.pc = "read", c.todo = {}, NoLinks(c.disk0),
           NEW full, full = FullOf(c.at, c.filter, c.disk0),
           NEW removes,
           removes = IF c.op = "sync_in" THEN SpareOf(c.at, c.filter, c.disk0, c.base) ELSE {}
    PROVE  Ready(c, full, removes)
<1>1. PICK at, base, d : at \in Dests /\ at = c.at /\ base = c.base /\ d = c.disk0
  BY DEF Calls
<1>2. at \in Dirs /\ at \in Seq(Name)
  BY <1>1, DestIs
<1>3. PICK wanted : /\ wanted = WantedOf(c.filter, d) /\ wanted = c.listed
                    /\ wanted \subseteq Path /\ \A rel \in wanted : Under(at, rel) \in Path
  <2>1. DiskWalk(d) = Files(d)
    BY <1>1, WalkFindsAll
  <2>2. c.listed = WantedOf(c.filter, d)
    BY <1>1, <2>1 DEF HasRead, WantedOf
  <2>3. c.listed \subseteq Path /\ \A rel \in c.listed : Under(at, rel) \in Path
    BY <1>1 DEF ListsOK, Calls
  <2>4. QED
    BY <2>2, <2>3
<1>4. /\ \A p : p \in DOMAIN full <=> \E rel \in wanted : p = Under(at, rel)
      /\ \A rel \in wanted : full[Under(at, rel)] = d[rel]
      /\ DOMAIN full \subseteq Path /\ ~Nested(DOMAIN full)
  <2>1. PICK filter : filter = c.filter
    OBVIOUS
  <2>2. wanted = WantedOf(filter, d) /\ full = FullOf(at, filter, d) /\ Stock(d)
    BY <1>1, <1>3, <2>1
  <2>3. QED
    BY <1>1, <1>3, <2>2, FullIs
<1>5. /\ \A rel \in DOMAIN c.existing :
            rel \in Path /\ Under(at, rel) \in Files(base) /\ c.existing[rel] = base[Under(at, rel)]
      /\ c.op = "sync_in" \/ c.checksum =>
            \A rel \in Path : Under(at, rel) \in Files(base) => rel \in DOMAIN c.existing
  BY <1>1 DEF KnowsBase
<1>6. /\ \A p : p \in DOMAIN c.writes <=> \E rel \in Picked(c) : p = Under(at, rel)
      /\ \A rel \in Picked(c) : c.writes[Under(at, rel)] = d[rel]
      /\ \A p : p \in c.add <=> \E rel \in Picked(c) : p = Under(at, rel) /\ ~Updates(c, rel)
      /\ \A p : p \in c.update <=> \E rel \in Picked(c) : p = Under(at, rel) /\ Updates(c, rel)
  BY <1>1 DEF HasRead
<1>7. \A rel : rel \in Picked(c) <=> rel \in wanted /\ ~Unchanged(c, rel, d[rel])
  BY <1>1, <1>3 DEF Picked
<1>8. \A rel : Unchanged(c, rel, d[rel]) <=>
         c.checksum /\ rel \in DOMAIN c.existing /\ c.existing[rel] = d[rel]
  BY DEF Unchanged
<1>9. DOMAIN c.writes \subseteq DOMAIN full /\ \A p \in DOMAIN c.writes : c.writes[p] = full[p]
  BY <1>4, <1>6, <1>7
<1>10. ASSUME NEW p \in DOMAIN full \ DOMAIN c.writes PROVE p \in Files(base) /\ base[p] = full[p]
  <2>1. PICK rel \in wanted : p = Under(at, rel)
    BY <1>4, <1>10
  <2>2. full[p] = d[rel]
    BY <1>4, <2>1
  <2>3. Unchanged(c, rel, d[rel])
    BY <1>6, <1>7, <1>10, <2>1
  <2>4. QED
    BY <1>5, <1>8, <2>1, <2>2, <2>3
<1>11. ASSUME c.checksum, NEW p \in DOMAIN c.writes, p \in Files(base) PROVE base[p] # full[p]
  <2>1. PICK rel \in Picked(c) : p = Under(at, rel)
    BY <1>6, <1>11
  <2>2. rel \in wanted /\ ~Unchanged(c, rel, d[rel]) /\ rel \in Path
    BY <1>3, <1>7, <2>1
  <2>3. rel \in DOMAIN c.existing /\ c.existing[rel] = base[p]
    BY <1>5, <1>11, <2>1, <2>2
  <2>4. full[p] = d[rel]
    BY <1>4, <2>1, <2>2
  <2>5. QED
    BY <1>8, <1>11, <2>2, <2>3, <2>4
<1>12. ASSUME c.op = "sync_in"
       PROVE  c.add = DOMAIN c.writes \ Files(base) /\ c.update = DOMAIN c.writes \cap Files(base)
  <2>1. \A rel \in Picked(c) : Updates(c, rel) <=> Under(at, rel) \in Files(base)
    BY <1>3, <1>5, <1>7, <1>12 DEF Updates
  <2>2. QED
    BY <1>6, <2>1
<1>13. removes = Extras(c) /\ removes \subseteq Files(base) /\ removes \cap DOMAIN full = {}
  <2>1. CASE c.op = "copy_in"
    BY <2>1 DEF Extras
  <2>2. CASE c.op = "sync_in"
    <3>1. removes = {p \in WalkTree(base, at) : /\ MatchesFilters(c.filter, Relative(at, p))
                                                /\ Relative(at, p) \notin wanted}
      BY <1>1, <1>3, <2>2 DEF SpareOf
    <3>2. Extras(c) = {Under(at, rel) : rel \in {r \in DOMAIN c.existing \ wanted :
                                                   MatchesFilters(c.filter, r)}}
      BY <1>1, <1>3, <2>2 DEF Extras
    <3>3. ASSUME NEW p \in removes PROVE p \in Extras(c) /\ p \in Files(base)
      <4>1. p \in Files(base) /\ IsStrictPrefix(at, p) /\ p \in Path
        BY <3>1 DEF WalkTree, Files
      <4>2. PICK rel \in Path : rel = Relative(at, p) /\ p = Under(at, rel)
        BY <1>2, <4>1, RelativeIs
      <4>3. rel \in DOMAIN c.existing /\ rel \notin wanted /\ MatchesFilters(c.filter, rel)
        BY <1>5, <2>2, <3>1, <4>1, <4>2
      <4>4. QED
        BY <3>2, <4>1, <4>2, <4>3
    <3>4. ASSUME NEW p \in Extras(c) PROVE p \in removes
      <4>1. PICK rel \in DOMAIN c.existing :
               p = Under(at, rel) /\ rel \notin wanted /\ MatchesFilters(c.filter, rel)
        BY <3>2
      <4>2. rel \in Path /\ p \in Files(base)
        BY <1>5, <4>1
      <4>3. IsStrictPrefix(at, p) /\ Relative(at, p) = rel
        BY <1>2, <4>1, <4>2, UnderLonger
      <4>4. QED
        BY <3>1, <4>1, <4>2, <4>3 DEF WalkTree
    <3>5. ASSUME NEW p \in removes, p \in DOMAIN full PROVE FALSE
      <4>1. PICK rel \in wanted : p = Under(at, rel)
        BY <1>4, <3>5
      <4>2. Relative(at, p) = rel
        BY <1>2, <1>3, <4>1, UnderLonger
      <4>3. QED
        BY <3>1, <4>2
    <3>6. QED
      BY <3>3, <3>4, <3>5
  <2>3. QED
    BY <2>1, <2>2 DEF HasRead
<1>14. QED
  BY <1>1, <1>4, <1>9, <1>10, <1>11, <1>12, <1>13 DEF Ready

(* What the report of a sync says of the change.                           *)
Reports(before, after, add, update, del) ==
    LET gone == DOMAIN before \ DOMAIN after
    IN /\ add = DOMAIN after \ DOMAIN before
       /\ update = {p \in DOMAIN after \cap DOMAIN before : after[p] # before[p]}
       /\ del \subseteq gone
       /\ \A p \in gone \ del : \E q \in add : InTheWay(p, q)

(* The lists of such a call are a correct report.                          *)
LEMMA ReportIs ==
    ASSUME NEW c, IsTree(c.base), NEW full, NEW removes, Ready(c, full, removes),
           c.op = "sync_in", c.checksum, NEW before, before = Contents(c.base),
           NEW after, after = Changed(before, full, removes)
    PROVE  Reports(before, after, c.add, c.update, removes)
<1>1. PICK B \in SUBSET Path, F \in SUBSET Path, W \in SUBSET Path :
         /\ W \subseteq F /\ B = DOMAIN before /\ B = Files(c.base) /\ F = DOMAIN full /\ W = DOMAIN c.writes
         /\ ~Nested(F) /\ ~Nested(B)
  <2>1. /\ DOMAIN full \subseteq Path /\ DOMAIN c.writes \subseteq DOMAIN full
        /\ ~Nested(DOMAIN full)
    BY DEF Ready
  <2>2. DOMAIN before = Files(c.base) /\ ~Nested(Files(c.base)) /\ Files(c.base) \subseteq Path
    BY FilesNotNested DEF Files
  <2>3. QED
    BY <2>1, <2>2
<1>2. /\ removes \subseteq B /\ removes \cap F = {}
      /\ \A p \in F \ W : p \in B /\ before[p] = full[p]
      /\ \A p \in W : p \in B => before[p] # full[p]
      /\ c.add = W \ B /\ c.update = W \cap B
  <2>1. \A p \in B : before[p] = c.base[p]
    BY <1>1 DEF Contents
  <2>2. QED
    BY <1>1, <2>1 DEF Ready
<1>3. PICK L : L = Clear(before, F \cup removes)
  OBVIOUS
<1>4. after = [x \in L \cup F |-> IF x \in F THEN full[x] ELSE before[x]]
  <2>1. after = Replaced(before, full, F \cup removes)
    <3>1. DOMAIN before \subseteq Path /\ DOMAIN full \subseteq Path /\ removes \subseteq Path
      BY <1>1, <1>2
    <3>2. Changed(before, full, removes) = Replaced(before, full, DOMAIN full \cup removes)
      BY <3>1, ChangedIs
    <3>3. QED
      BY <1>1, <3>2
  <2>2. QED
    BY <1>1, <1>3, <2>1 DEF Replaced
<1>5. L \subseteq B /\ \A p \in B : p \notin L => \E m \in F \cup removes : InTheWay(m, p)
  BY <1>1, <1>3 DEF Clear
<1>6. DOMAIN after = L \cup F /\ \A p \in L \cup F : after[p] = IF p \in F THEN full[p] ELSE before[p]
  BY <1>4
<1>7. c.add = DOMAIN after \ DOMAIN before
  BY <1>1, <1>2, <1>5, <1>6
<1>8. c.update = {p \in DOMAIN after \cap DOMAIN before : after[p] # before[p]}
  BY <1>1, <1>2, <1>5, <1>6
<1>9. removes \subseteq DOMAIN before \ DOMAIN after
  <2>1. ASSUME NEW p \in removes PROVE p \notin L
    <3>1. InTheWay(p, p)
      BY <1>1, <1>2, OwnWay
    <3>2. QED
      BY <1>3, <3>1 DEF Clear
  <2>2. QED
    BY <1>1, <1>2, <1>6, <2>1
<1>10. ASSUME NEW p \in (DOMAIN before \ DOMAIN after) \ removes
       PROVE  \E q \in c.add : InTheWay(p, q)
  <2>1. p \in B /\ p \notin L /\ p \notin F
    BY <1>1, <1>6
  <2>2. PICK m \in F \cup removes : InTheWay(m, p)
    BY <1>5, <2>1
  <2>3. m \notin B
    BY <1>1, <1>10, <2>1, <2>2, ApartPaths
  <2>4. m \in c.add
    BY <1>2, <2>2, <2>3
  <2>5. InTheWay(p, m)
    BY <2>2 DEF InTheWay
  <2>6. QED
    BY <2>4, <2>5
<1>11. QED
  BY <1>7, <1>8, <1>9, <1>10 DEF Reports

(* The commit makes the change that was asked for.                         *)
LEMMA CommitMakes ==
    ASSUME CopyInv, CommitsIn, NEW full, NEW removes, Ready(call, full, removes),
           call.commit = ncommits, ~call.dry_run
    PROVE  Contents(tree') = Changed(Contents(call.base), full, removes)
<1>1. PICK c \in Calls : c = call /\ ListsOK(c) /\ Stock(c.base) /\ c.base = tree /\ Ready(c, full, removes)
  BY DEF CopyInv, SnapshotOK
<1>2. IsTree(c.base) /\ IsWrites(c.writes)
  BY <1>1, SetsAre DEF Stock, Calls
<1>3. PICK contents : contents = Contents(c.base) /\ DOMAIN contents = Files(c.base)
                      /\ DOMAIN contents \subseteq Path /\ ~Nested(DOMAIN contents)
  BY <1>2, FilesNotNested DEF Files
<1>4. /\ DOMAIN full \subseteq Path /\ ~Nested(DOMAIN full) /\ removes = Extras(c)
      /\ removes \subseteq DOMAIN contents /\ removes \cap DOMAIN full = {}
      /\ DOMAIN c.writes \subseteq DOMAIN full /\ \A p \in DOMAIN c.writes : c.writes[p] = full[p]
  BY <1>1, <1>3 DEF Ready
<1>5. \A p \in DOMAIN full \ DOMAIN c.writes : p \in DOMAIN contents /\ contents[p] = full[p]
  BY <1>1, <1>3 DEF Ready, Contents
<1>6. Changed(contents, c.writes, removes) = Changed(contents, full, removes)
  <2>1. PICK writes : writes = c.writes
    OBVIOUS
  <2>2. Changed(contents, writes, removes) = Changed(contents, full, removes)
    BY <1>3, <1>4, <1>5, <2>1, LeaveOut
  <2>3. QED
    BY <2>1, <2>2
<1>7. Contents(tree') = Changed(contents, c.writes, removes)
  <2>1. CASE DOMAIN c.writes = {} /\ removes = {} /\ tree' = tree
    BY <1>1, <1>3, <2>1, ChangedNothing
  <2>2. CASE tree' = RebuildTree(c.base, c.writes, SetToSeq(removes))
    <3>1. IsRemoves(SetToSeq(removes)) /\ ToSet(SetToSeq(removes)) = removes
      BY <1>1, <1>4, ExtrasAre
    <3>2. ~Nested(DOMAIN c.writes) /\ Root \notin DOMAIN c.writes
      BY <1>4, NestedFewer, PathsAre
    <3>3. ToSet(SetToSeq(removes)) \ {Root} = removes
      BY <1>3, <1>4, <3>1, PathsAre
    <3>4. PICK writes, seq, base : writes = c.writes /\ seq = SetToSeq(removes) /\ base = c.base
      OBVIOUS
    <3>5. Contents(RebuildTree(base, writes, seq)) = Changed(Contents(base), writes, ToSet(seq) \ {Root})
      <4>1. ToSet(seq) \subseteq Files(base)
        BY <1>3, <1>4, <3>1, <3>4
      <4>2. QED
        BY <1>2, <3>1, <3>2, <3>4, <4>1, RebuildSyncs
    <3>6. QED
      BY <1>3, <2>2, <3>3, <3>4, <3>5
  <2>3. QED
    <3>1. Commits
      BY DEF CommitsIn
    <3>2. QED
      BY <1>1, <1>4, <2>1, <2>2, <3>1 DEF Commits
<1>8. QED
  BY <1>1, <1>3, <1>6, <1>7

(* At the end of a call that nobody has interfered with, both hold.        *)
LEMMA CommitTakesEffect ==
    ASSUME CopyInv, ReadInv, CommitsIn
    PROVE  InCallsTakeEffect' /\ ReportTellsChanges'
<1>1. PICK c \in Calls, e \in Calls : /\ c = call /\ e = call' /\ SameCall(c, e) /\ ListsOK(c)
                                      /\ Stock(c.base) /\ e.quiet = c.quiet /\ c.pc = "read"
                                      /\ c.todo = {} /\ e.del = Extras(c)
                                      /\ e.add = c.add /\ e.update = c.update
  BY DEF CopyInv, CommitsIn
<1>2. PICK full, removes :
         /\ full = FullOf(c.at, c.filter, c.disk0)
         /\ removes = IF c.op = "sync_in" THEN SpareOf(c.at, c.filter, c.disk0, c.base) ELSE {}
  OBVIOUS
<1>3. AskedFor' = Changed(Contents(c.base), full, removes)
  <2>1. AskedFor' = AskedOf(e.op, e.at, e.filter, e.disk0, e.base)
    BY <1>1 DEF AskedFor, AskedOf, FullOf, SpareOf, WantedOf, Wanted
  <2>2. QED
    BY <1>1, <1>2, <2>1 DEF SameCall, AskedOf
<1>4. ASSUME c.quiet, NoLinks(c.disk0), c.at = Root \/ Lookup(c.base, c.at) # DirEntry
      PROVE  Ready(c, full, removes) /\ c.commit = ncommits
  <2>1. HasRead(c) /\ disk = c.disk0 /\ c.commit = ncommits /\ Stock(c.disk0)
    BY <1>1, <1>4 DEF ReadInv, CopyInv
  <2>2. KnowsBase(c)
    BY <1>1, <1>4, <2>1, ExistingKnown
  <2>3. QED
    BY <1>1, <1>2, <1>4, <2>1, <2>2, ReadyIs
<1>5. InCallsTakeEffect'
  <2> SUFFICES ASSUME e.quiet, ~e.dry_run, NoLinks(e.disk0),
                      e.at = Root \/ Lookup(e.base, e.at) # DirEntry
               PROVE  Contents(tree') = AskedFor'
    BY <1>1 DEF InCallsTakeEffect, JustDid
  <2>1. c.quiet /\ ~c.dry_run /\ NoLinks(c.disk0) /\ (c.at = Root \/ Lookup(c.base, c.at) # DirEntry)
    BY <1>1 DEF SameCall
  <2>2. Ready(c, full, removes) /\ c.commit = ncommits
    BY <1>4, <2>1
  <2>3. QED
    BY <1>1, <1>3, <2>1, <2>2, CommitMakes
<1>6. ReportTellsChanges'
  <2>1. PICK before, after : before = Contents(e.base) /\ after = AskedFor'
    OBVIOUS
  <2>2. SUFFICES ASSUME e.op = "sync_in", e.quiet, e.checksum, NoLinks(e.disk0),
                        e.at = Root \/ Lookup(e.base, e.at) = NoEntry
                 PROVE  Reports(before, after, e.add, e.update, e.del)
    BY <1>1, <2>1 DEF ReportTellsChanges, JustDid, Reports
  <2>3. /\ c.op = "sync_in" /\ c.quiet /\ c.checksum /\ NoLinks(c.disk0)
        /\ (c.at = Root \/ Lookup(c.base, c.at) # DirEntry) /\ before = Contents(c.base)
    BY <1>1, <2>1, <2>2 DEF SameCall, NoEntry, DirEntry
  <2>4. Ready(c, full, removes)
    BY <1>4, <2>3
  <2>5. Reports(before, after, c.add, c.update, removes)
    BY <1>1, <1>3, <2>1, <2>3, <2>4, ReportIs DEF Stock
  <2>6. e.del = removes
    BY <1>1, <2>4 DEF Ready
  <2>7. QED
    BY <1>1, <2>5, <2>6
<1>7. QED
  BY <1>5, <1>6

(* What holds at the end of a call goes on to hold until the next.         *)
LEMMA StaysDone ==
    ASSUME InCallsTakeEffect, ReportTellsChanges, UNCHANGED vars
    PROVE  InCallsTakeEffect' /\ ReportTellsChanges'
<1>1. AskedFor' = AskedFor
  BY DEF vars, AskedFor, Wanted
<1>2. QED
  BY <1>1 DEF vars, InCallsTakeEffect, ReportTellsChanges, JustDid

(* A call under way, one that has failed and one with which somebody has   *)
(* interfered say nothing.                                                 *)
LEMMA NotDone ==
    ASSUME \/ call'.pc # "idle"
           \/ call'.op \notin {"copy_in", "sync_in"}
           \/ call'.outcome # "ok"
           \/ ~call'.quiet
    PROVE  InCallsTakeEffect' /\ ReportTellsChanges'
BY DEF InCallsTakeEffect, ReportTellsChanges, JustDid

(* Calls to the disk are no calls from the disk.                           *)
OutInv == call.pc \in {"write", "delete", "prune"} => call.op \in {"copy_out", "sync_out"}

(* Only calls out reach these steps.                                       *)
LEMMA NextOutInv == CopyInv /\ OutInv /\ [Next]_vars => OutInv'
<1> SUFFICES ASSUME CopyInv, OutInv, [Next]_vars PROVE OutInv'
  OBVIOUS
<1>1. ASSUME NEW op \in {"copy_in", "sync_in"}, NEW at \in At, NEW f \in Filters,
             NEW c \in BOOLEAN, NEW d \in BOOLEAN, StartIn(op, at, f, c, d)
      PROVE  OutInv'
  <2>1. StartsIn(op, at, f, c, d)
    BY <1>1, StartInIs
  <2>2. QED
    BY <2>1 DEF StartsIn, OutInv
<1>2. ASSUME NEW rel \in call.todo, ReadFile(rel) PROVE OutInv'
  BY <1>2, ReadFileIs DEF Reads, ReadsOn, OutInv
<1>3. ASSUME NEW rel \in call.todo, WriteFile(rel) PROVE OutInv'
  BY <1>3, WriteFileIs DEF WritesOut, SameCall, OutInv
<1>4. CASE CommitIn
  BY <1>4, CommitInIs DEF CommitsIn, OutInv
<1>5. ASSUME NEW op \in {"copy_out", "sync_out"}, NEW at \in At, NEW f \in Filters,
             StartOut(op, at, f)
      PROVE  OutInv'
  <2>1. StartsOut(op, at, f)
    BY <1>5, StartOutIs
  <2>2. QED
    BY <2>1 DEF StartsOut, OutInv
<1>6. CASE CopiedOut
  BY <1>6, CopiedOutIs DEF CopiesOut, SameCall, OutInv
<1>7. CASE DeleteExtras
  BY <1>7, DeleteExtrasIs DEF Deletes, SameCall, OutInv
<1>8. CASE PruneDirs
  BY <1>8, PruneDirsIs DEF Prunes, OutInv
<1>9. ASSUME NEW e \in RepoEdits, RepoEdit(e[1], e[2]) PROVE OutInv'
  BY <1>9, RepoEditIs DEF Disturbs, SameCall, OutInv
<1>10. ASSUME NEW e \in DiskEdits, DiskEdit(e[1], e[2]) PROVE OutInv'
  BY <1>10, DiskEditIs DEF Disturbs, SameCall, OutInv
<1>11. CASE UNCHANGED vars
  BY <1>11 DEF vars, OutInv
<1>12. QED
  BY <1>1, <1>2, <1>3, <1>4, <1>5, <1>6, <1>7, <1>8, <1>9, <1>10, <1>11 DEF Next

InDone == InCallsTakeEffect /\ ReportTellsChanges

(* Every step leaves what a finished call promises.                        *)
LEMMA NextInDone == CopyInv /\ ReadInv /\ OutInv /\ InDone /\ [Next]_vars => InDone'
<1> SUFFICES ASSUME CopyInv, ReadInv, OutInv, InDone, [Next]_vars PROVE InDone'
  OBVIOUS
<1>1. ASSUME NEW op \in {"copy_in", "sync_in"}, NEW at \in At, NEW f \in Filters,
             NEW c \in BOOLEAN, NEW d \in BOOLEAN, StartIn(op, at, f, c, d)
      PROVE  InDone'
  <2>1. StartsIn(op, at, f, c, d)
    BY <1>1, StartInIs
  <2>2. call'.pc # "idle" \/ call'.outcome # "ok"
    BY <2>1 DEF StartsIn
  <2>3. QED
    BY <2>2, NotDone DEF InDone
<1>2. ASSUME NEW rel \in call.todo, ReadFile(rel) PROVE InDone'
  <2>1. call'.pc # "idle" \/ call'.outcome # "ok"
    BY <1>2, ReadFileIs DEF Reads, ReadsOn
  <2>2. QED
    BY <2>1, NotDone DEF InDone
<1>3. ASSUME NEW rel \in call.todo, WriteFile(rel) PROVE InDone'
  <2>1. call'.pc # "idle" \/ call'.outcome # "ok"
    BY <1>3, WriteFileIs DEF WritesOut, WritesOn
  <2>2. QED
    BY <2>1, NotDone DEF InDone
<1>4. CASE CommitIn
  BY <1>4, CommitInIs, CommitTakesEffect DEF InDone
<1>5. ASSUME NEW op \in {"copy_out", "sync_out"}, NEW at \in At, NEW f \in Filters,
             StartOut(op, at, f)
      PROVE  InDone'
  <2>1. StartsOut(op, at, f)
    BY <1>5, StartOutIs
  <2>2. call'.pc # "idle" \/ call'.outcome # "ok"
    BY <2>1 DEF StartsOut
  <2>3. QED
    BY <2>2, NotDone DEF InDone
<1>6. CASE CopiedOut
  <2>1. call'.op \notin {"copy_in", "sync_in"}
    BY <1>6, CopiedOutIs DEF CopiesOut, SameCall, OutInv
  <2>2. QED
    BY <2>1, NotDone DEF InDone
<1>7. CASE DeleteExtras
  <2>1. call'.pc # "idle"
    BY <1>7, DeleteExtrasIs DEF Deletes
  <2>2. QED
    BY <2>1, NotDone DEF InDone
<1>8. CASE PruneDirs
  <2>1. call'.op \notin {"copy_in", "sync_in"}
    BY <1>8, PruneDirsIs DEF Prunes, SameCall, OutInv
  <2>2. QED
    BY <2>1, NotDone DEF InDone
<1>9. ASSUME NEW e \in RepoEdits, RepoEdit(e[1], e[2]) PROVE InDone'
  <2>1. ~call'.quiet
    BY <1>9, RepoEditIs DEF Disturbs
  <2>2. QED
    BY <2>1, NotDone DEF InDone
<1>10. ASSUME NEW e \in DiskEdits, DiskEdit(e[1], e[2]) PROVE InDone'
  <2>1. ~call'.quiet
    BY <1>10, DiskEditIs DEF Disturbs
  <2>2. QED
    BY <2>1, NotDone DEF InDone
<1>11. CASE UNCHANGED vars
  BY <1>11, StaysDone DEF InDone
<1>12. QED
  BY <1>1, <1>2, <1>3, <1>4, <1>5, <1>6, <1>7, <1>8, <1>9, <1>10, <1>11 DEF Next

(* None of it is in question before the first call.                        *)
LEMMA InitInDone == Init => ReadInv /\ OutInv /\ InDone
<1> SUFFICES ASSUME Init PROVE ReadInv /\ OutInv /\ InDone
  OBVIOUS
<1>1. call.pc = "idle" /\ call.op = "none"
  BY DEF Init, NoCall
<1>2. QED
  BY <1>1 DEF ReadInv, OutInv, InDone, InCallsTakeEffect, ReportTellsChanges, JustDid

(* copy_in and sync_in have the effect they were asked for: for any disk   *)
(* without links, any filters and any destination that is the root or not  *)
(* a directory yet, with checksums or without, the selected files of the   *)
(* disk are in the branch as they are on disk, a sync has deleted the      *)
(* selected files that are not on disk, and no other file has changed.     *)
THEOREM CopiesInTakeEffect == Spec => []InCallsTakeEffect
<1>1. InDone => InCallsTakeEffect
  BY DEF InDone
<1>2. QED
  BY <1>1, InitCopyInv, NextCopyInv, InitInDone, NextReadInv, NextOutInv, NextInDone, PTL DEF Spec

(* The ChangeReport of a sync_in, of a dry run too, is the difference      *)
(* between the snapshot and the tree that was asked for.                   *)
THEOREM ReportsAreExact == Spec => []ReportTellsChanges
<1>1. InDone => ReportTellsChanges
  BY DEF InDone
<1>2. QED
  BY <1>1, InitCopyInv, NextCopyInv, InitInDone, NextReadInv, NextOutInv, NextInDone, PTL DEF Spec

-----------------------------------------------------------------------------
(* copy_out and sync_out while nobody interferes.                          *)

Delivered(base, at, d, rel) ==
    /\ d[rel] \in Data
    /\ Content[d[rel]] = Content[base[Under(at, rel)]]
    /\ Mode[d[rel]] \in {Mode[base[Under(at, rel)]], "exec"}

(* What was at a path is still there, or there is a new directory on the   *)
(* way to a file that has been written.                                    *)
Untouched(disk0, done, d, p) ==
    \/ d[p] = disk0[p]
    \/ /\ disk0[p] = NoEntry /\ d[p] = DirEntry
       /\ \E rel \in done : IsStrictPrefix(p, rel)

(* Some of the files have been written.                                    *)
Wrote(base, at, disk0, done, d) ==
    /\ \A rel \in done : Delivered(base, at, d, rel)
    /\ \A p \in Path \ done : Untouched(disk0, done, d, p)

(* And one more.                                                           *)
LEMMA WroteMore ==
    ASSUME NEW base, NEW at, NEW disk0, NoLinks(disk0), NEW d, Stock(d),
           NEW listed, listed \subseteq Path, ~Nested(listed), NEW done, done \subseteq listed,
           Wrote(base, at, disk0, done, d),
           NEW rel \in listed \ done, Placed(rel), disk0[rel] # DirEntry,
           NEW data \in Data, data = base[Under(at, rel)],
           \A q \in Files(d) : ~IsStrictPrefix(q, rel),
           NEW dirs, dirs = MakeDirs(d, rel), NEW e, e = Written(dirs, rel, data)
    PROVE  Wrote(base, at, disk0, done \cup {rel}, e)
<1>1. rel \in Path /\ \A r \in listed : ~IsStrictPrefix(r, rel) /\ ~IsStrictPrefix(rel, r)
  BY DEF Nested
<1>2. /\ dirs[rel] = d[rel] /\ Stock(dirs)
      /\ \A q \in Path : dirs[q] = IF IsStrictPrefix(q, rel) THEN DirEntry ELSE d[q]
      /\ \A q \in Path : IsStrictPrefix(q, rel) => d[q] \in {NoEntry, DirEntry}
  BY <1>1, MakeDirsIs
<1>3. /\ \A r \in done : Delivered(base, at, d, r)
      /\ \A p \in Path \ done : Untouched(disk0, done, d, p)
  BY DEF Wrote
<1>4. d[rel] = disk0[rel] /\ d[rel] # DirEntry /\ ~IsLink(dirs, rel)
  <2>1. Untouched(disk0, done, d, rel)
    BY <1>1, <1>3
  <2>2. d[rel] = disk0[rel]
    BY <1>1, <2>1 DEF Untouched
  <2>3. ~IsLink(disk0, rel)
    BY <1>1 DEF NoLinks
  <2>4. QED
    BY <1>2, <2>2, <2>3 DEF IsLink
<1>5. PICK new \in Data : /\ e = [dirs EXCEPT ![rel] = new] /\ Content[new] = Content[data]
                          /\ Mode[new] \in {Mode[data], "exec"}
  <2>1. CASE Mode[data] = "link"
    BY <2>1 DEF Written
  <2>2. CASE Mode[data] # "link"
    <3>1. e = [dirs EXCEPT ![rel] = Overwritten(dirs[rel], data)]
      BY <1>2, <1>4, <2>2 DEF Written
    <3>2. PICK old : old = dirs[rel]
      OBVIOUS
    <3>3. QED
      BY <2>2, <3>1, <3>2, OverwrittenIs
  <2>3. QED
    BY <2>1, <2>2
<1>6. \A q \in Path : e[q] = IF q = rel THEN new
                             ELSE IF IsStrictPrefix(q, rel) THEN DirEntry ELSE d[q]
  BY <1>1, <1>2, <1>5 DEF Stock, IsTree
<1>7. ASSUME NEW r \in done \cup {rel} PROVE Delivered(base, at, e, r)
  <2>1. CASE r = rel
    BY <1>1, <1>5, <1>6, <2>1 DEF Delivered
  <2>2. CASE r # rel
    <3>1. r \in done /\ r \in Path /\ ~IsStrictPrefix(r, rel)
      BY <1>1, <2>2
    <3>2. e[r] = d[r]
      BY <1>6, <2>2, <3>1
    <3>3. QED
      BY <1>3, <3>1, <3>2 DEF Delivered
  <2>3. QED
    BY <2>1, <2>2
<1>8. ASSUME NEW p \in Path \ (done \cup {rel}) PROVE Untouched(disk0, done \cup {rel}, e, p)
  <2>1. Untouched(disk0, done, d, p)
    BY <1>3, <1>8
  <2>2. CASE IsStrictPrefix(p, rel)
    <3>1. e[p] = DirEntry /\ d[p] \in {NoEntry, DirEntry}
      BY <1>2, <1>6, <1>8, <2>2
    <3>2. QED
      BY <2>1, <2>2, <3>1 DEF Untouched
  <2>3. CASE ~IsStrictPrefix(p, rel)
    <3>1. e[p] = d[p]
      BY <1>6, <1>8, <2>3
    <3>2. QED
      BY <2>1, <3>1 DEF Untouched
  <2>4. QED
    BY <2>2, <2>3
<1>9. QED
  BY <1>7, <1>8 DEF Wrote

(* What is left when the surplus has been deleted.                         *)
Deleted(base, at, filter, disk0, listed, d) ==
    /\ \A rel \in listed : Delivered(base, at, d, rel)
    /\ \A p \in Files(d) \ listed : d[p] = disk0[p] /\ ~MatchesFilters(filter, p)
    /\ \A p \in Files(disk0) \ Files(d) : MatchesFilters(filter, p)

(* Deleting the surplus files leaves the disk so.                          *)
LEMMA DeletedIs ==
    ASSUME NEW base, NEW at, NEW filter, NEW disk0, NoLinks(disk0), IsTree(disk0), NEW d, Stock(d),
           NEW listed, listed \subseteq Path, Wrote(base, at, disk0, listed, d),
           NEW extra,
           extra = {rel \in DiskWalk(d) : MatchesFilters(filter, rel) /\ rel \notin listed},
           NEW e, e = [p \in Path |-> IF p \in extra THEN NoEntry ELSE d[p]]
    PROVE  Deleted(base, at, filter, disk0, listed, e)
<1>1. /\ \A r \in listed : Delivered(base, at, d, r)
      /\ \A p \in Path \ listed : Untouched(disk0, listed, d, p)
  BY DEF Wrote
<1>2. NoEntry \notin Data /\ DirEntry \notin Data
  BY TreeAssumption
<1>3. \A q \in Path : e[q] = IF q \in extra THEN NoEntry ELSE d[q]
  OBVIOUS
<1>4. ASSUME NEW rel \in listed PROVE Delivered(base, at, e, rel)
  <2>1. e[rel] = d[rel]
    BY <1>3
  <2>2. QED
    BY <1>1, <2>1 DEF Delivered
<1>5. ASSUME NEW p \in Files(d) \ listed
      PROVE  d[p] = disk0[p] /\ (MatchesFilters(filter, p) => p \in extra)
  <2>1. p \in Path /\ d[p] \in Data /\ p \notin listed
    BY DEF Files
  <2>2. d[p] = disk0[p]
    BY <1>1, <1>2, <2>1 DEF Untouched
  <2>3. ~IsLink(d, p)
    BY <2>1, <2>2 DEF NoLinks, IsLink
  <2>4. p \in DiskWalk(d)
    BY <2>3 DEF DiskWalk
  <2>5. QED
    BY <2>2, <2>4
<1>6. ASSUME NEW p \in Files(e) \ listed PROVE e[p] = disk0[p] /\ ~MatchesFilters(filter, p)
  <2>1. p \in Path /\ e[p] \in Data
    BY DEF Files
  <2>2. p \notin extra /\ e[p] = d[p]
    BY <1>2, <1>3, <2>1
  <2>3. p \in Files(d) \ listed
    BY <1>6, <2>1, <2>2 DEF Files
  <2>4. QED
    BY <1>5, <2>2, <2>3
<1>7. ASSUME NEW p \in Files(disk0) \ Files(e) PROVE MatchesFilters(filter, p)
  <2>1. p \in Path /\ disk0[p] \in Data /\ e[p] \notin Data
    BY DEF Files
  <2>2. p \notin listed
    BY <1>4, <2>1 DEF Delivered
  <2>3. d[p] \in Data
    BY <1>1, <1>2, <2>1, <2>2 DEF Untouched
  <2>4. p \in extra
    BY <1>3, <2>1, <2>3
  <2>5. QED
    BY <2>4
<1>8. QED
  BY <1>4, <1>6, <1>7 DEF Deleted

(* What a call that has ended leaves on disk.                              *)
Delivers(op, base, at, filter, disk0, listed, d) ==
    /\ \A rel \in listed : Delivered(base, at, d, rel)
    /\ \A p \in Files(d) \ listed :
          d[p] = disk0[p] /\ (op = "sync_out" => ~MatchesFilters(filter, p))
    /\ \A p \in Files(disk0) \ Files(d) : op = "sync_out" /\ MatchesFilters(filter, p)
    /\ op = "sync_out" => \A p \in Path : d[p] = DirEntry => WalkTree(d, p) # {}

(* A copy ends when everything is written.                                 *)
LEMMA CopyDelivers ==
    ASSUME NEW base, NEW at, NEW filter, NEW disk0, NEW listed, NEW d,
           Wrote(base, at, disk0, listed, d), NEW op, op # "sync_out"
    PROVE  Delivers(op, base, at, filter, disk0, listed, d)
<1>1. NoEntry \notin Data /\ DirEntry \notin Data
  BY TreeAssumption
<1>2. ASSUME NEW p \in Files(d) \ listed PROVE d[p] = disk0[p]
  BY <1>1 DEF Wrote, Untouched, Files
<1>3. ASSUME NEW p \in Files(disk0) \ Files(d) PROVE FALSE
  <2>1. p \in Path /\ disk0[p] \in Data /\ d[p] \notin Data
    BY DEF Files
  <2>2. p \notin listed
    BY <2>1 DEF Wrote, Delivered
  <2>3. QED
    BY <1>1, <2>1, <2>2 DEF Wrote, Untouched
<1>4. \A rel \in listed : Delivered(base, at, d, rel)
  BY DEF Wrote
<1>5. QED
  BY <1>2, <1>3, <1>4 DEF Delivers

(* A sync ends when the empty directories are gone.                        *)
LEMMA SyncDelivers ==
    ASSUME NEW base, NEW at, NEW filter, NEW disk0, NEW listed, listed \subseteq Path,
           NEW d, IsTree(d), Deleted(base, at, filter, disk0, listed, d),
           NEW e, e = [p \in Path |-> IF d[p] = DirEntry /\ WalkTree(d, p) = {}
                                      THEN NoEntry ELSE d[p]]
    PROVE  Delivers("sync_out", base, at, filter, disk0, listed, e)
<1>1. NoEntry \notin Data /\ DirEntry \notin Data /\ NoEntry # DirEntry
  BY TreeAssumption DEF NoEntry, DirEntry
<1>2. \A p \in Path : e[p] = IF d[p] = DirEntry /\ WalkTree(d, p) = {} THEN NoEntry ELSE d[p]
  OBVIOUS
<1>3. Files(e) = Files(d) /\ \A p \in Files(d) : e[p] = d[p]
  BY <1>1, <1>2 DEF Files
<1>4. \A p : WalkTree(e, p) = WalkTree(d, p)
  BY <1>3 DEF WalkTree
<1>5. \A p \in Path : e[p] = DirEntry => WalkTree(e, p) # {}
  BY <1>1, <1>2, <1>4
<1>6. ASSUME NEW rel \in listed PROVE Delivered(base, at, e, rel)
  <2>1. Delivered(base, at, d, rel)
    BY DEF Deleted
  <2>2. e[rel] = d[rel]
    BY <1>1, <1>2, <2>1 DEF Delivered
  <2>3. QED
    BY <2>1, <2>2 DEF Delivered
<1>7. /\ \A p \in Files(e) \ listed : e[p] = disk0[p] /\ ~MatchesFilters(filter, p)
      /\ \A p \in Files(disk0) \ Files(e) : MatchesFilters(filter, p)
  BY <1>3 DEF Deleted
<1>8. QED
  BY <1>5, <1>6, <1>7 DEF Delivers

(* A call with which nobody has interfered, and nothing was in its way.    *)
Promises(c) ==
    c.quiet /\ NoLinks(c.disk0) /\ \A rel \in c.listed : c.disk0[rel] # DirEntry

(* They are the same as long as the call is.                               *)
LEMMA SamePromises ==
    ASSUME NEW c, NEW e, SameCall(c, e), e.quiet = c.quiet, Promises(e)
    PROVE  Promises(c)
BY DEF SameCall, Promises

DeliverInv ==
    /\ call.pc \in {"delete", "prune"} => call.todo = {} /\ call.op = "sync_out"
    /\ call.pc \in {"write", "delete"} /\ Promises(call) =>
          Wrote(call.base, call.at, call.disk0, call.listed \ call.todo, disk)
    /\ call.pc = "prune" /\ Promises(call) =>
          Deleted(call.base, call.at, call.filter, call.disk0, call.listed, disk)

(* Nothing is written at first.                                            *)
LEMMA StartDelivers ==
    ASSUME CopyInv, NEW op, NEW at, NEW filter, StartsOut(op, at, filter)
    PROVE  DeliverInv'
<1>1. PICK c \in Calls : c = call' /\ c.disk0 = disk' /\ c.pc \in {"idle", "write"}
                         /\ (c.pc = "write" => c.todo = c.listed)
  BY DEF StartsOut
<1>2. ASSUME c.pc = "write" PROVE Wrote(c.base, c.at, c.disk0, c.listed \ c.todo, disk')
  <2>1. c.listed \ c.todo = {}
    BY <1>1, <1>2
  <2>2. QED
    BY <1>1, <2>1 DEF Wrote, Untouched
<1>3. QED
  BY <1>1, <1>2 DEF DeliverInv

(* The files to write are apart.                                           *)
LEMMA ListedApart ==
    ASSUME NEW c \in Calls, Stock(c.base), ListsOK(c), c.pc = "write"
    PROVE  c.listed \subseteq Path /\ ~Nested(c.listed)
<1>1. c.at \in Seq(Name) /\ c.listed \subseteq Path
  BY DestIs DEF Calls
<1>2. ASSUME NEW p \in c.listed, NEW q \in c.listed, IsStrictPrefix(p, q) PROVE FALSE
  <2>1. p \in Seq(Name) /\ q \in Seq(Name)
    BY <1>1, <1>2, DirFacts
  <2>2. IsStrictPrefix(Under(c.at, p), Under(c.at, q))
    BY <1>1, <1>2, <2>1, UnderOrder
  <2>3. Under(c.at, p) \in Files(c.base) /\ Under(c.at, q) \in Files(c.base)
    BY <1>2 DEF ListsOK
  <2>4. Under(c.at, q) \in Path /\ c.base[Under(c.at, q)] # NoEntry
    BY <2>3, TreeAssumption DEF Files
  <2>5. QED
    BY <2>2, <2>3, <2>4, FilesApart DEF Stock
<1>3. QED
  BY <1>1, <1>2 DEF Nested

(* A file is written.                                                      *)
LEMMA WriteDelivers ==
    ASSUME CopyInv, DeliverInv, NEW rel, WritesOut(rel)
    PROVE  DeliverInv'
<1>1. PICK c \in Calls, e \in Calls : /\ c = call /\ e = call' /\ SameCall(c, e) /\ ListsOK(c)
                                      /\ Stock(c.base) /\ e.quiet = c.quiet /\ c.pc = "write"
                                      /\ rel \in c.todo /\ rel \in Path /\ Placed(rel)
  BY DEF CopyInv, WritesOut
<1>2. CASE e.pc = "idle"
  BY <1>1, <1>2 DEF DeliverInv
<1>3. CASE WritesOn(rel)
  <2>1. /\ e.pc = "write" /\ e.todo = c.todo \ {rel}
        /\ \A q \in Files(disk) : ~IsStrictPrefix(q, rel)
        /\ disk' = Written(MakeDirs(disk, rel), rel, c.base[Under(c.at, rel)])
        /\ c.base[Under(c.at, rel)] \in Data /\ Stock(disk)
    BY <1>1, <1>3 DEF WritesOn, Source, WritesOut, CopyInv
  <2>2. SUFFICES ASSUME Promises(e)
                 PROVE  Wrote(e.base, e.at, e.disk0, e.listed \ e.todo, disk')
    BY <1>1, <2>1 DEF DeliverInv
  <2>3. Promises(c)
    BY <1>1, <2>2, SamePromises
  <2>4. PICK base, at, disk0, listed, done, data :
           /\ base = c.base /\ at = c.at /\ disk0 = c.disk0 /\ listed = c.listed
           /\ done = c.listed \ c.todo /\ data = base[Under(at, rel)]
    OBVIOUS
  <2>5. /\ NoLinks(disk0) /\ rel \in listed \ done /\ disk0[rel] # DirEntry
        /\ done \subseteq listed /\ data \in Data /\ listed \ e.todo = done \cup {rel}
    BY <1>1, <2>1, <2>3, <2>4 DEF Promises, ListsOK
  <2>6. listed \subseteq Path /\ ~Nested(listed)
    BY <1>1, <2>4, ListedApart
  <2>7. Wrote(base, at, disk0, done, disk)
    BY <1>1, <2>3, <2>4 DEF DeliverInv
  <2>8. PICK dirs, after : dirs = MakeDirs(disk, rel) /\ after = Written(dirs, rel, data)
    OBVIOUS
  <2>9. Wrote(base, at, disk0, done \cup {rel}, after)
    BY <1>1, <2>1, <2>5, <2>6, <2>7, <2>4, <2>8, WroteMore
  <2>10. QED
    BY <1>1, <2>1, <2>4, <2>5, <2>8, <2>9 DEF SameCall
<1>4. QED
  BY <1>1, <1>2, <1>3 DEF WritesOut

(* Everything is written, and a sync goes on.                              *)
LEMMA CopiedDelivers ==
    ASSUME CopyInv, DeliverInv, OutInv, CopiesOut
    PROVE  DeliverInv' /\ OutCallsDeliver'
<1>1. PICK c \in Calls, e \in Calls : /\ c = call /\ e = call' /\ SameCall(c, e) /\ disk' = disk
                                      /\ e.quiet = c.quiet /\ c.pc = "write" /\ c.todo = {}
                                      /\ e.todo = {}
  BY DEF CopyInv, CopiesOut
<1>2. ASSUME Promises(e) PROVE Wrote(e.base, e.at, e.disk0, e.listed, disk')
  <2>1. Promises(c)
    BY <1>1, <1>2, SamePromises
  <2>2. Wrote(c.base, c.at, c.disk0, c.listed \ c.todo, disk)
    BY <1>1, <2>1 DEF DeliverInv
  <2>3. c.listed \ c.todo = c.listed
    BY <1>1
  <2>4. QED
    BY <1>1, <2>2, <2>3 DEF SameCall
<1>3. c.op \in {"copy_out", "sync_out"} /\ e.op = c.op
  BY <1>1 DEF OutInv, SameCall
<1>4. CASE c.op = "copy_out" /\ e.pc = "idle"
  <2>1. DeliverInv'
    BY <1>1, <1>4 DEF DeliverInv
  <2>2. ASSUME Promises(e)
        PROVE  Delivers(e.op, e.base, e.at, e.filter, e.disk0, e.listed, disk')
    <3>1. PICK base, at, filter, disk0, listed, op :
             /\ base = e.base /\ at = e.at /\ filter = e.filter /\ disk0 = e.disk0
             /\ listed = e.listed /\ op = e.op
      OBVIOUS
    <3>2. Wrote(base, at, disk0, listed, disk') /\ op # "sync_out"
      BY <1>2, <1>3, <1>4, <2>2, <3>1
    <3>3. Delivers(op, base, at, filter, disk0, listed, disk')
      BY <3>2, CopyDelivers
    <3>4. QED
      BY <3>1, <3>3
  <2>3. OutCallsDeliver'
    BY <1>1, <2>2 DEF OutCallsDeliver, JustDid, Promises, Delivers, Delivered
  <2>4. QED
    BY <2>1, <2>3
<1>5. CASE c.op # "copy_out" /\ e.pc = "delete"
  <2>1. DeliverInv'
    <3>1. e.listed \ e.todo = e.listed
      BY <1>1
    <3>2. QED
      BY <1>1, <1>2, <1>3, <1>5, <3>1 DEF DeliverInv
  <2>2. OutCallsDeliver'
    BY <1>1, <1>5 DEF OutCallsDeliver, JustDid
  <2>3. QED
    BY <2>1, <2>2
<1>6. QED
  BY <1>1, <1>4, <1>5 DEF CopiesOut

(* The surplus is deleted.                                                 *)
LEMMA DeletesDeliver ==
    ASSUME CopyInv, DeliverInv, Deletes
    PROVE  DeliverInv' /\ OutCallsDeliver'
<1>1. PICK c \in Calls, e \in Calls : /\ c = call /\ e = call' /\ SameCall(c, e)
                                      /\ e.quiet = c.quiet /\ c.pc = "delete" /\ c.todo = {}
                                      /\ c.op = "sync_out" /\ e.todo = c.todo /\ e.pc = "prune"
                                      /\ Stock(disk)
  BY DEF CopyInv, Deletes, DeliverInv
<1>2. ASSUME Promises(e)
      PROVE  Deleted(e.base, e.at, e.filter, e.disk0, e.listed, disk')
  <2>1. Promises(c)
    BY <1>1, <1>2, SamePromises
  <2>2. PICK base, at, filter, disk0, listed, extra :
           /\ base = c.base /\ at = c.at /\ filter = c.filter /\ disk0 = c.disk0
           /\ listed = c.listed /\ extra = Surplus
    OBVIOUS
  <2>3. NoLinks(disk0) /\ IsTree(disk0) /\ listed \subseteq Path
    BY <1>1, <2>1, <2>2, SetsAre DEF Promises, Calls
  <2>4. Wrote(base, at, disk0, listed, disk)
    <3>1. Wrote(c.base, c.at, c.disk0, c.listed \ c.todo, disk)
      BY <1>1, <2>1 DEF DeliverInv
    <3>2. c.listed \ c.todo = c.listed
      BY <1>1
    <3>3. QED
      BY <2>2, <3>1, <3>2
  <2>5. extra = {rel \in DiskWalk(disk) : MatchesFilters(filter, rel) /\ rel \notin listed}
    BY <1>1, <2>2 DEF Surplus
  <2>6. disk' = [p \in Path |-> IF p \in extra THEN NoEntry ELSE disk[p]]
    BY <2>2 DEF Deletes
  <2>7. Deleted(base, at, filter, disk0, listed, disk')
    BY <1>1, <2>3, <2>4, <2>5, <2>6, DeletedIs
  <2>8. QED
    BY <1>1, <2>2, <2>7 DEF SameCall
<1>3. DeliverInv'
  BY <1>1, <1>2 DEF DeliverInv, SameCall
<1>4. OutCallsDeliver'
  BY <1>1 DEF OutCallsDeliver, JustDid
<1>5. QED
  BY <1>3, <1>4

(* Empty directories are removed.                                          *)
LEMMA PrunesDeliver ==
    ASSUME CopyInv, DeliverInv, Prunes
    PROVE  DeliverInv' /\ OutCallsDeliver'
<1>1. PICK c \in Calls, e \in Calls : /\ c = call /\ e = call' /\ SameCall(c, e)
                                      /\ e.quiet = c.quiet /\ c.pc = "prune"
                                      /\ c.op = "sync_out" /\ e.pc = "idle" /\ Stock(disk)
  BY DEF CopyInv, Prunes, DeliverInv
<1>2. ASSUME Promises(e)
      PROVE  Delivers(e.op, e.base, e.at, e.filter, e.disk0, e.listed, disk')
  <2>1. Promises(c)
    BY <1>1, <1>2, SamePromises
  <2>2. PICK base, at, filter, disk0, listed :
           /\ base = c.base /\ at = c.at /\ filter = c.filter /\ disk0 = c.disk0
           /\ listed = c.listed
    OBVIOUS
  <2>3. Deleted(base, at, filter, disk0, listed, disk) /\ listed \subseteq Path /\ IsTree(disk)
    BY <1>1, <2>1, <2>2 DEF DeliverInv, Calls, Stock
  <2>4. Delivers("sync_out", base, at, filter, disk0, listed, disk')
    BY <2>3, SyncDelivers DEF Prunes
  <2>5. QED
    BY <1>1, <2>2, <2>4 DEF SameCall
<1>3. DeliverInv'
  BY <1>1 DEF DeliverInv
<1>4. OutCallsDeliver'
  BY <1>1, <1>2 DEF OutCallsDeliver, JustDid, Promises, Delivers, Delivered
<1>5. QED
  BY <1>3, <1>4

(* Other steps have nothing to do with it.                                 *)
LEMMA NothingOut ==
    ASSUME \/ call'.pc = "read"
           \/ call'.pc = "idle" /\ call'.op \notin {"copy_out", "sync_out"}
           \/ call'.pc = "idle" /\ call'.outcome # "ok"
    PROVE  DeliverInv' /\ OutCallsDeliver'
BY DEF DeliverInv, OutCallsDeliver, JustDid

(* Nothing is promised of a call that was disturbed.                       *)
LEMMA DisturbedOut ==
    ASSUME DeliverInv, Disturbs
    PROVE  DeliverInv' /\ OutCallsDeliver'
BY DEF Disturbs, SameCall, DeliverInv, Promises, OutCallsDeliver, JustDid

(* Calls from the disk are no calls to the disk.                           *)
InInv == call.pc = "read" => call.op \in {"copy_in", "sync_in"}

(* Only calls in read files.                                               *)
LEMMA NextInInv == CopyInv /\ InInv /\ [Next]_vars => InInv'
<1> SUFFICES ASSUME CopyInv, InInv, [Next]_vars PROVE InInv'
  OBVIOUS
<1>1. ASSUME NEW op \in {"copy_in", "sync_in"}, NEW at \in At, NEW f \in Filters,
             NEW c \in BOOLEAN, NEW d \in BOOLEAN, StartIn(op, at, f, c, d)
      PROVE  InInv'
  <2>1. StartsIn(op, at, f, c, d)
    BY <1>1, StartInIs
  <2>2. QED
    BY <2>1 DEF StartsIn, InInv
<1>2. ASSUME NEW rel \in call.todo, ReadFile(rel) PROVE InInv'
  BY <1>2, ReadFileIs DEF Reads, SameCall, InInv
<1>3. ASSUME NEW rel \in call.todo, WriteFile(rel) PROVE InInv'
  BY <1>3, WriteFileIs DEF WritesOut, WritesOn, InInv
<1>4. CASE CommitIn
  BY <1>4, CommitInIs DEF CommitsIn, InInv
<1>5. ASSUME NEW op \in {"copy_out", "sync_out"}, NEW at \in At, NEW f \in Filters,
             StartOut(op, at, f)
      PROVE  InInv'
  <2>1. StartsOut(op, at, f)
    BY <1>5, StartOutIs
  <2>2. QED
    BY <2>1 DEF StartsOut, InInv
<1>6. CASE CopiedOut
  BY <1>6, CopiedOutIs DEF CopiesOut, InInv
<1>7. CASE DeleteExtras
  BY <1>7, DeleteExtrasIs DEF Deletes, InInv
<1>8. CASE PruneDirs
  BY <1>8, PruneDirsIs DEF Prunes, InInv
<1>9. ASSUME NEW e \in RepoEdits, RepoEdit(e[1], e[2]) PROVE InInv'
  BY <1>9, RepoEditIs DEF Disturbs, SameCall, InInv
<1>10. ASSUME NEW e \in DiskEdits, DiskEdit(e[1], e[2]) PROVE InInv'
  BY <1>10, DiskEditIs DEF Disturbs, SameCall, InInv
<1>11. CASE UNCHANGED vars
  BY <1>11 DEF vars, InInv
<1>12. QED
  BY <1>1, <1>2, <1>3, <1>4, <1>5, <1>6, <1>7, <1>8, <1>9, <1>10, <1>11 DEF Next

OutDone == DeliverInv /\ OutCallsDeliver

(* Every step leaves what a call to the disk promises.                     *)
LEMMA NextOutDone == CopyInv /\ InInv /\ OutInv /\ OutDone /\ [Next]_vars => OutDone'
<1> SUFFICES ASSUME CopyInv, InInv, OutInv, OutDone, [Next]_vars PROVE OutDone'
  OBVIOUS
<1> USE DEF OutDone
<1>1. ASSUME NEW op \in {"copy_in", "sync_in"}, NEW at \in At, NEW f \in Filters,
             NEW c \in BOOLEAN, NEW d \in BOOLEAN, StartIn(op, at, f, c, d)
      PROVE  OutDone'
  <2>1. StartsIn(op, at, f, c, d)
    BY <1>1, StartInIs
  <2>2. call'.pc = "read" \/ (call'.pc = "idle" /\ call'.outcome # "ok")
    BY <2>1 DEF StartsIn
  <2>3. QED
    BY <2>2, NothingOut
<1>2. ASSUME NEW rel \in call.todo, ReadFile(rel) PROVE OutDone'
  <2>1. call'.pc = "read" \/ (call'.pc = "idle" /\ call'.outcome # "ok")
    BY <1>2, ReadFileIs DEF Reads, ReadsOn
  <2>2. QED
    BY <2>1, NothingOut
<1>3. ASSUME NEW rel \in call.todo, WriteFile(rel) PROVE OutDone'
  <2>1. WritesOut(rel)
    BY <1>3, WriteFileIs
  <2>2. DeliverInv'
    BY <2>1, WriteDelivers
  <2>3. OutCallsDeliver'
    BY <2>1 DEF WritesOut, WritesOn, OutCallsDeliver, JustDid
  <2>4. QED
    BY <2>2, <2>3
<1>4. CASE CommitIn
  <2>1. call'.pc = "idle" /\ call'.op \notin {"copy_out", "sync_out"}
    BY <1>4, CommitInIs DEF CommitsIn, SameCall, InInv
  <2>2. QED
    BY <2>1, NothingOut
<1>5. ASSUME NEW op \in {"copy_out", "sync_out"}, NEW at \in At, NEW f \in Filters,
             StartOut(op, at, f)
      PROVE  OutDone'
  <2>1. StartsOut(op, at, f)
    BY <1>5, StartOutIs
  <2>2. DeliverInv'
    BY <2>1, StartDelivers
  <2>3. OutCallsDeliver'
    BY <2>1 DEF StartsOut, OutCallsDeliver, JustDid
  <2>4. QED
    BY <2>2, <2>3
<1>6. CASE CopiedOut
  BY <1>6, CopiedOutIs, CopiedDelivers
<1>7. CASE DeleteExtras
  BY <1>7, DeleteExtrasIs, DeletesDeliver
<1>8. CASE PruneDirs
  BY <1>8, PruneDirsIs, PrunesDeliver
<1>9. ASSUME NEW e \in RepoEdits, RepoEdit(e[1], e[2]) PROVE OutDone'
  BY <1>9, RepoEditIs, DisturbedOut
<1>10. ASSUME NEW e \in DiskEdits, DiskEdit(e[1], e[2]) PROVE OutDone'
  BY <1>10, DiskEditIs, DisturbedOut
<1>11. CASE UNCHANGED vars
  BY <1>11 DEF vars, DeliverInv, OutCallsDeliver, JustDid
<1>12. QED
  BY <1>1, <1>2, <1>3, <1>4, <1>5, <1>6, <1>7, <1>8, <1>9, <1>10, <1>11 DEF Next

(* All of these hold at the start.                                         *)
LEMMA InitOutDone == Init => InInv /\ OutInv /\ OutDone
<1> SUFFICES ASSUME Init PROVE InInv /\ OutInv /\ OutDone
  OBVIOUS
<1>1. call.pc = "idle" /\ call.op = "none"
  BY DEF Init, NoCall
<1>2. QED
  BY <1>1 DEF InInv, OutInv, OutDone, DeliverInv, OutCallsDeliver, JustDid

(* copy_out and sync_out deliver: for any tree, any filters and any disk   *)
(* without links on which no directory is in the place of a file, every    *)
(* selected file is on disk with its content and at least its executable   *)
(* bit, a sync has deleted the other selected files and the empty          *)
(* directories, in whatever order the files were written, and no other     *)
(* file has changed.                                                       *)
THEOREM CopiesOutDeliver == Spec => []OutCallsDeliver
<1>1. OutDone => OutCallsDeliver
  BY DEF OutDone
<1>2. QED
  BY <1>1, InitCopyInv, NextCopyInv, InitOutDone, NextInInv, NextOutInv, NextOutDone, PTL DEF Spec
=============================================================================
