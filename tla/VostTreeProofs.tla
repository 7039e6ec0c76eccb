--------------------------- MODULE VostTreeProofs ----------------------------
(***************************************************************************)
(* What rebuild_tree makes of a tree, for trees of any depth: a tree       *)
(* again, in which files that are not in the way of a change are as they   *)
(* were, and, when no path of the change lies inside another, the files    *)
(* are the ones the change asks for.                                       *)
(***************************************************************************)
EXTENDS VostTree, VostInduction, SequenceTheorems

-----------------------------------------------------------------------------
(* Paths.                                                                  *)

Dirs == Path \cup {Root}

(* Paths are the sequences of names of a length up to MaxDepth.            *)
LEMMA PathsAre ==
    /\ Path = {p \in Seq(Name) : Len(p) \in 1 .. MaxDepth}
    /\ Dirs = {p \in Seq(Name) : Len(p) \in 0 .. MaxDepth}
    /\ Root \notin Path /\ Len(Root) = 0 /\ Root \in Seq(Name)
<1>1. MaxDepth \in Nat /\ MaxDepth # 0
  BY TreeAssumption
<1>2. ASSUME NEW p \in Path PROVE p \in Seq(Name) /\ Len(p) \in 1 .. MaxDepth
  <2>1. PICK n \in 1 .. MaxDepth : p \in [1 .. n -> Name]
    BY DEF Path
  <2>2. QED
    BY <1>1, <2>1
<1>3. ASSUME NEW p \in Seq(Name), Len(p) \in 1 .. MaxDepth PROVE p \in Path
  <2>1. p \in [1 .. Len(p) -> Name]
    OBVIOUS
  <2>2. QED
    BY <1>3, <2>1 DEF Path
<1>4. Len(Root) = 0 /\ Root \in Seq(Name) /\ \A p \in Seq(Name) : Len(p) = 0 => p = Root
  BY DEF Root
<1>5. Path = {p \in Seq(Name) : Len(p) \in 1 .. MaxDepth}
  BY <1>2, <1>3
<1>6. Dirs = {p \in Seq(Name) : Len(p) \in 0 .. MaxDepth}
  <2>1. \A p \in Seq(Name) : Len(p) \in 0 .. MaxDepth <=> Len(p) \in 1 .. MaxDepth \/ p = Root
    BY <1>1, <1>4
  <2>2. QED
    BY <1>4, <1>5, <2>1 DEF Dirs
<1>7. QED
  BY <1>4, <1>5, <1>6

(* A prefix agrees with the whole as far as it goes.                       *)
LEMMA PrefixMeans ==
    ASSUME NEW S, NEW p \in Seq(S), NEW q \in Seq(S)
    PROVE  /\ IsPrefix(p, q) <=> Len(p) <= Len(q) /\ \A i \in 1 .. Len(p) : p[i] = q[i]
           /\ IsStrictPrefix(p, q) <=> IsPrefix(p, q) /\ Len(p) < Len(q)
           /\ IsPrefix(p, q) /\ Len(p) >= Len(q) => p = q
<1>1. IsPrefix(p, q) <=> Len(p) <= Len(q) /\ \A i \in 1 .. Len(p) : p[i] = q[i]
  BY DEF IsPrefix
<1>2. IsPrefix(p, q) /\ Len(p) >= Len(q) => p = q
  BY <1>1, SeqEqual
<1>3. QED
  BY <1>1, <1>2 DEF IsStrictPrefix

(* Prefixes are ordered, and those of one sequence in a line.              *)
LEMMA PrefixOrder ==
    ASSUME NEW S, NEW p \in Seq(S), NEW q \in Seq(S), NEW r \in Seq(S)
    PROVE  /\ IsPrefix(p, p)
           /\ IsPrefix(p, q) /\ IsPrefix(q, r) => IsPrefix(p, r)
           /\ IsPrefix(p, r) /\ IsPrefix(q, r) => IsPrefix(p, q) \/ IsPrefix(q, p)
           /\ IsStrictPrefix(p, q) /\ IsPrefix(q, r) => IsStrictPrefix(p, r)
           /\ IsPrefix(p, q) /\ IsStrictPrefix(q, r) => IsStrictPrefix(p, r)
           /\ IsPrefix(p, q) <=> IsStrictPrefix(p, q) \/ p = q
           /\ ~(IsStrictPrefix(p, q) /\ IsPrefix(q, p))
<1>1. IsPrefix(p, p)
  BY PrefixMeans
<1>2. IsPrefix(p, q) /\ IsPrefix(q, r) => IsPrefix(p, r)
  BY PrefixMeans
<1>3. IsPrefix(p, r) /\ IsPrefix(q, r) => IsPrefix(p, q) \/ IsPrefix(q, p)
  BY PrefixMeans
<1>4. QED
  BY <1>1, <1>2, <1>3, PrefixMeans

(* The directory an entry is in.                                           *)
LEMMA FrontIs ==
    ASSUME NEW S, NEW p \in Seq(S), p # <<>>
    PROVE  /\ Front(p) \in Seq(S) /\ Len(Front(p)) = Len(p) - 1
           /\ \A i \in 1 .. Len(p) - 1 : Front(p)[i] = p[i]
           /\ IsStrictPrefix(Front(p), p)
           /\ \A q \in Seq(S) : IsStrictPrefix(q, p) <=> IsPrefix(q, Front(p))
<1>1. Len(p) \in Nat \ {0} /\ \A i \in 1 .. Len(p) : p[i] \in S
  OBVIOUS
<1>2. /\ Front(p) \in Seq(S) /\ Len(Front(p)) = Len(p) - 1
      /\ \A i \in 1 .. Len(p) - 1 : Front(p)[i] = p[i]
  <2>1. /\ SubSeq(p, 1, Len(p) - 1) \in Seq(S)
        /\ Len(SubSeq(p, 1, Len(p) - 1)) = IF 1 <= Len(p) - 1 THEN Len(p) - 1 - 1 + 1 ELSE 0
        /\ \A i \in 1 .. Len(p) - 1 - 1 + 1 : SubSeq(p, 1, Len(p) - 1)[i] = p[1 + i - 1]
    <3>1. Len(p) - 1 \in Int /\ 1 \in Int /\ \A i \in 1 .. Len(p) - 1 : p[i] \in S
      BY <1>1
    <3>2. QED
      BY <3>1, SubSeqProperties
  <2>2. PICK s : s = SubSeq(p, 1, Len(p) - 1)
    OBVIOUS
  <2>3. PICK n : n = Len(p)
    OBVIOUS
  <2>4. Front(p) = s
    BY <2>2, Zenon DEF Front
  <2>5. n \in Nat \ {0}
    BY <1>1, <2>3
  <2>6. s \in Seq(S) /\ Len(s) = (IF 1 <= n - 1 THEN n - 1 - 1 + 1 ELSE 0)
    BY <2>1, <2>2, <2>3
  <2>7. \A i \in 1 .. n - 1 - 1 + 1 : s[i] = p[1 + i - 1]
    BY <2>1, <2>2, <2>3, Zenon
  <2>8. \A i \in 1 .. n - 1 : s[i] = p[i]
    BY <2>5, <2>7
  <2>9. Len(s) = n - 1
    BY <2>5, <2>6
  <2>10. QED
    BY <2>3, <2>4, <2>6, <2>8, <2>9
<1>3. IsStrictPrefix(Front(p), p)
  BY <1>1, <1>2, PrefixMeans
<1>4. ASSUME NEW q \in Seq(S) PROVE IsStrictPrefix(q, p) <=> IsPrefix(q, Front(p))
  <2>1. PICK f \in Seq(S) : f = Front(p)
    BY <1>2
  <2>2. Len(f) = Len(p) - 1 /\ \A i \in 1 .. Len(p) - 1 : f[i] = p[i]
    BY <1>2, <2>1
  <2>3. IsPrefix(q, f) <=> Len(q) <= Len(f) /\ \A i \in 1 .. Len(q) : q[i] = f[i]
    BY PrefixMeans
  <2>4. /\ IsPrefix(q, p) <=> Len(q) <= Len(p) /\ \A i \in 1 .. Len(q) : q[i] = p[i]
        /\ IsStrictPrefix(q, p) <=> IsPrefix(q, p) /\ Len(q) < Len(p)
    BY PrefixMeans
  <2>5. QED
    BY <1>1, <2>1, <2>2, <2>3, <2>4
<1>5. QED
  BY <1>2, <1>3, <1>4

(* The paths of directories, and the prefixes of a path.                   *)
LEMMA DirFacts ==
    /\ \A p \in Dirs : p \in Seq(Name)
    /\ \A p \in Path : p \in Dirs /\ p # Root /\ Front(p) \in Dirs
    /\ \A p \in Path : Len(p) > 1 <=> Front(p) \in Path
    /\ \A p, q \in Dirs : IsStrictPrefix(p, q) => q \in Path
    /\ \A p \in Path, q \in Dirs : IsStrictPrefix(q, p) <=> IsPrefix(q, Front(p))
    /\ \A p \in Path : IsStrictPrefix(Front(p), p)
    /\ \A p \in Dirs : IsPrefix(Root, p) /\ ~IsStrictPrefix(p, Root)
<1>1. MaxDepth \in Nat \ {0}
  BY TreeAssumption
<1>2. ASSUME NEW p \in Path
      PROVE  /\ p \in Dirs /\ p # Root /\ p \in Seq(Name) /\ Front(p) \in Dirs
             /\ Len(p) > 1 <=> Front(p) \in Path
             /\ IsStrictPrefix(Front(p), p)
             /\ \A q \in Dirs : IsStrictPrefix(q, p) <=> IsPrefix(q, Front(p))
  <2>1. p \in Seq(Name) /\ Len(p) \in 1 .. MaxDepth /\ p \in Dirs
    BY PathsAre
  <2>2. p # <<>>
    BY <2>1
  <2>3. Front(p) \in Seq(Name) /\ Len(Front(p)) = Len(p) - 1
    BY <2>1, <2>2, FrontIs
  <2>4. Front(p) \in Dirs /\ (Len(p) > 1 <=> Front(p) \in Path)
    BY <1>1, <2>1, <2>3, PathsAre
  <2>5. IsStrictPrefix(Front(p), p)
    BY <2>1, <2>2, FrontIs
  <2>6. \A q \in Dirs : IsStrictPrefix(q, p) <=> IsPrefix(q, Front(p))
    BY <2>1, <2>2, FrontIs, PathsAre
  <2>7. QED
    BY <2>1, <2>2, <2>4, <2>5, <2>6 DEF Root
<1>3. ASSUME NEW p \in Dirs PROVE p \in Seq(Name) /\ IsPrefix(Root, p) /\ ~IsStrictPrefix(p, Root)
  <2>1. p \in Seq(Name) /\ Root \in Seq(Name) /\ Len(Root) = 0 /\ Len(p) \in Nat
    BY PathsAre
  <2>2. IsPrefix(Root, p)
    <3>1. IsPrefix(Root, p) <=> Len(Root) <= Len(p) /\ \A i \in 1 .. Len(Root) : Root[i] = p[i]
      BY <2>1, PrefixMeans
    <3>2. Len(Root) <= Len(p) /\ 1 .. Len(Root) = {}
      BY <2>1
    <3>3. QED
      BY <3>1, <3>2
  <2>3. IsStrictPrefix(p, Root) => Len(p) < Len(Root)
    BY <2>1, PrefixMeans
  <2>4. QED
    BY <2>1, <2>2, <2>3
<1>4. ASSUME NEW p \in Dirs, NEW q \in Dirs, IsStrictPrefix(p, q) PROVE q \in Path
  BY <1>3, <1>4 DEF Dirs
<1>5. QED
  BY <1>2, <1>3, <1>4

(* What holds of the root, and of a path if of the directory it is in,     *)
(* holds of every path.                                                    *)
LEMMA PathInduction ==
    ASSUME NEW S, Root \in S, \A p \in Path : Front(p) \in S => p \in S
    PROVE  Dirs \subseteq S
<1> DEFINE T == {k \in 0 .. MaxDepth : \A p \in Dirs : Len(p) = k => p \in S}
<1>1. MaxDepth \in Nat
  BY TreeAssumption
<1>2. \A p \in Dirs : p \in Seq(Name) /\ Len(p) \in 0 .. MaxDepth /\ (Len(p) = 0 => p = Root)
  BY PathsAre
<1>3. 0 \in T
  BY <1>1, <1>2
<1>4. ASSUME NEW k \in 0 .. MaxDepth, k < MaxDepth, k \in T PROVE k + 1 \in T
  <2> SUFFICES ASSUME NEW p \in Dirs, Len(p) = k + 1 PROVE p \in S
    BY <1>1, <1>4
  <2>1. p \in Path /\ p # <<>> /\ p \in Seq(Name)
    BY <1>1, <1>2, <1>4, PathsAre
  <2>2. Front(p) \in Dirs /\ Len(Front(p)) = Len(p) - 1
    BY <2>1, FrontIs, DirFacts
  <2>3. Len(Front(p)) = k
    BY <1>1, <1>4, <2>2
  <2>4. QED
    BY <1>4, <2>1, <2>2, <2>3
<1> HIDE DEF T
<1>5. 0 .. MaxDepth \subseteq T
  BY <1>1, <1>3, <1>4, InductionUpTo
<1>6. QED
  BY <1>2, <1>5 DEF T

-----------------------------------------------------------------------------
(* The fates that rebuild_tree gives to paths.                             *)

Fates == {"base", "fresh", "file", "kept", "gone"}

IsFate(f, base, writes, removes) ==
    f = [p \in Dirs |-> IF p = Root THEN "base"
                        ELSE Fate(base, writes, removes, p, f[Front(p)])]

(* The five fates are all there are.                                       *)
LEMMA FateIn ==
    ASSUME NEW base, NEW writes, NEW removes, NEW p, NEW parent
    PROVE  Fate(base, writes, removes, p, parent) \in Fates
BY Zenon DEF Fate, Fates

(* Every path has a fate.                                                  *)
LEMMA FateExists ==
    ASSUME NEW base, NEW writes, NEW removes
    PROVE  \E f : IsFate(f, base, writes, removes)
<1> DEFINE next(p, g) == IF p = Root THEN "base" ELSE Fate(base, writes, removes, p, g[Front(p)])
           S == [Dirs -> Fates]
           first == [p \in Dirs |-> "base"]
           prev == [i \in 1 .. MaxDepth |-> i - 1]
           step == [i \in 1 .. MaxDepth |-> [g \in S |-> [p \in Dirs |-> next(p, g)]]]
<1>1. MaxDepth \in Nat
  BY TreeAssumption
<1>2. \A g, p : next(p, g) \in Fates
  <2>1. "base" \in Fates
    BY DEF Fates
  <2>2. QED
    BY <2>1, FateIn, Zenon
<1> HIDE DEF next
<1>3. first \in S
  BY DEF Fates
<1>4. step \in [1 .. MaxDepth -> [S -> S]]
  BY <1>2
<1>5. prev \in [1 .. MaxDepth -> Nat] /\ \A i \in 1 .. MaxDepth : prev[i] < i /\ prev[i] = i - 1
  BY <1>1
<1>6. \A i \in 1 .. MaxDepth : \A g \in S : \A p \in Dirs : step[i][g][p] = next(p, g)
  OBVIOUS
<1> HIDE DEF first, prev, step
<1>7. PICK g : Solves(g, MaxDepth, S, first, prev, step)
  BY <1>1, <1>3, <1>4, <1>5, Recursion DEF IsRecursion
<1> DEFINE f == [p \in Dirs |-> g[Len(p)][p]]
<1>8. ASSUME NEW p \in Dirs PROVE f[p] = next(p, f)
  <2>1. CASE p = Root
    <3>1. f[p] = first[p]
      BY <1>7, <2>1, PathsAre DEF Solves
    <3>2. QED
      BY <2>1, <3>1 DEF next, first
  <2>2. CASE p # Root
    <3>1. p \in Path /\ p \in Seq(Name) /\ p # <<>> /\ Front(p) \in Dirs
      BY <2>2, DirFacts DEF Dirs, Root
    <3>2. Len(Front(p)) = Len(p) - 1 /\ Len(p) \in 1 .. MaxDepth
      BY <3>1, FrontIs, PathsAre
    <3>3. g[Len(p)] = step[Len(p)][g[Len(p) - 1]] /\ g[Len(p) - 1] \in S
      <4> HIDE DEF S
      <4>1. g \in [0 .. MaxDepth -> S] /\ \A i \in 1 .. MaxDepth : g[i] = step[i][g[prev[i]]]
        BY <1>7 DEF Solves
      <4>2. PICK k \in 1 .. MaxDepth : k = Len(p)
        BY <3>2
      <4>3. prev[k] = k - 1 /\ k - 1 \in 0 .. MaxDepth
        BY <1>1, <1>5
      <4>4. QED
        BY <4>1, <4>2, <4>3
    <3>4. f[p] = next(p, g[Len(p) - 1])
      BY <1>6, <3>2, <3>3
    <3>5. f[Front(p)] = g[Len(p) - 1][Front(p)]
      BY <3>1, <3>2
    <3> HIDE DEF f
    <3>6. next(p, g[Len(p) - 1]) = next(p, f)
      BY <3>5, Zenon DEF next
    <3>7. QED
      BY <3>4, <3>6
  <2>3. QED
    BY <2>1, <2>2
<1>9. f = [p \in Dirs |-> next(p, f)]
  BY <1>8, Zenon
<1>10. QED
  BY <1>9 DEF IsFate, next

(* The entries that fates stand for.                                       *)
Shaped(f, base, writes) ==
    [p \in Path |-> CASE f[p] = "kept" -> base[p]
                      [] f[p] = "gone" -> NoEntry
                      [] f[p] = "file" -> writes[p]
                      [] OTHER -> DirEntry]

(* rebuild_tree gives every path an entry by its fate.                     *)
LEMMA Rebuilt ==
    ASSUME NEW base, NEW writes, NEW removes
    PROVE  \E f : /\ IsFate(f, base, writes, removes)
                  /\ RebuildTree(base, writes, removes) = Shaped(f, base, writes)
<1> DEFINE g == CHOOSE f : f = [p \in Path \cup {Root} |->
                                  IF p = Root THEN "base"
                                  ELSE Fate(base, writes, removes, p, f[Front(p)])]
<1>1. \E f : f = [p \in Path \cup {Root} |->
                    IF p = Root THEN "base" ELSE Fate(base, writes, removes, p, f[Front(p)])]
  <2>1. PICK f : IsFate(f, base, writes, removes)
    BY FateExists
  <2>2. f = [p \in Path \cup {Root} |->
                    IF p = Root THEN "base" ELSE Fate(base, writes, removes, p, f[Front(p)])]
    BY <2>1, Zenon DEF IsFate, Dirs
  <2>3. QED
    BY <2>2, Zenon
<1>2. IsFate(g, base, writes, removes)
  BY <1>1, Zenon DEF IsFate, Dirs
<1>3. RebuildTree(base, writes, removes) = Shaped(g, base, writes)
  BY Zenon DEF RebuildTree, Shaped
<1>4. QED
  BY <1>2, <1>3

(* Something is written or removed inside p.                               *)
Entered(p, writes, removes) ==
    (\E w \in DOMAIN writes : IsStrictPrefix(p, w)) \/ Below(p, removes)

(* What a fate is, case by case.                                           *)
LEMMA FateCases ==
    ASSUME NEW base, NEW writes, NEW removes, NEW f, IsFate(f, base, writes, removes)
    PROVE  /\ f[Root] = "base"
           /\ \A p \in Path : f[p] \in Fates /\ f[Front(p)] \in Fates
           /\ \A p \in Path : f[Front(p)] = "kept" => f[p] = "kept"
           /\ \A p \in Path : f[Front(p)] \in {"gone", "file"} => f[p] = "gone"
           /\ \A p \in Path :
                 f[Front(p)] \in {"base", "fresh"} /\ p \in DOMAIN writes => f[p] = "file"
           /\ \A p \in Path :
                 f[Front(p)] \in {"base", "fresh"} /\ p \notin DOMAIN writes
                    /\ Entered(p, writes, removes)
                 => f[p] = IF /\ f[Front(p)] = "base" /\ base[p] = DirEntry
                              /\ KeepsContents(p, writes, removes)
                           THEN "base" ELSE "fresh"
           /\ \A p \in Path :
                 f[Front(p)] \in {"base", "fresh"} /\ p \notin DOMAIN writes
                    /\ ~Entered(p, writes, removes)
                 => f[p] = IF f[Front(p)] = "fresh" \/ p \in ToSet(removes)
                           THEN "gone" ELSE "kept"
<1>1. /\ f[Root] = "base"
      /\ \A p \in Path : f[p] = Fate(base, writes, removes, p, f[Front(p)])
  <2>1. \A p \in Dirs : f[p] = IF p = Root THEN "base"
                               ELSE Fate(base, writes, removes, p, f[Front(p)])
    BY Zenon DEF IsFate
  <2>2. Root \in Dirs /\ \A p \in Path : p \in Dirs /\ p # Root
    BY DirFacts DEF Dirs
  <2>3. QED
    BY <2>1, <2>2, Zenon
<1>2. \A p \in Dirs : f[p] \in Fates
  <2>1. "base" \in Fates
    BY DEF Fates
  <2>2. QED
    BY <1>1, <2>1, FateIn, Zenon DEF Dirs
<1>3. ASSUME NEW p \in Path PROVE f[p] \in Fates /\ f[Front(p)] \in Fates
  BY <1>2, DirFacts
<1>4. QED
  BY <1>1, <1>3, Zenon DEF Fate, Fates, Entered

-----------------------------------------------------------------------------
(* The result of a change.                                                 *)

IsWrites(writes) == writes \in [DOMAIN writes -> Data] /\ DOMAIN writes \subseteq Dirs

IsRemoves(removes) == removes \in Seq(Dirs)

(* rebuild_tree makes a tree of a tree.                                    *)
LEMMA RebuildMakesTree ==
    ASSUME NEW base, IsTree(base), NEW writes, IsWrites(writes), NEW removes
    PROVE  IsTree(RebuildTree(base, writes, removes))
<1>1. PICK f : /\ IsFate(f, base, writes, removes)
               /\ RebuildTree(base, writes, removes) = Shaped(f, base, writes)
  BY Rebuilt
<1>2. PICK result : result = Shaped(f, base, writes)
  OBVIOUS
<1>3. \A p \in Path : /\ f[p] = "kept" => result[p] = base[p]
                      /\ f[p] = "gone" => result[p] = NoEntry
                      /\ f[p] = "file" => result[p] = writes[p]
                      /\ f[p] \in {"base", "fresh"} => result[p] = DirEntry
  BY <1>2 DEF Shaped
<1>4. \A p \in Path : /\ f[p] \in Fates /\ f[Front(p)] \in Fates
                      /\ f[Front(p)] = "kept" => f[p] = "kept"
                      /\ f[Front(p)] \in {"gone", "file"} => f[p] = "gone"
                      /\ f[p] = "file" => p \in DOMAIN writes
  <2> SUFFICES ASSUME NEW p \in Path, f[p] = "file" PROVE p \in DOMAIN writes
    BY <1>1, FateCases
  <2>1. f[Front(p)] \in {"base", "fresh"}
    BY <1>1, FateCases DEF Fates
  <2>2. QED
    BY <1>1, <2>1, FateCases
<1>5. \A p \in Path : result[p] \in Data \cup {NoEntry, DirEntry}
  BY <1>3, <1>4 DEF Fates, IsTree, IsWrites
<1>6. result \in [Path -> Data \cup {NoEntry, DirEntry}]
  <2>1. result = [p \in Path |-> result[p]]
    BY <1>2, Zenon DEF Shaped
  <2>2. QED
    BY <1>5, <2>1
<1>7. ASSUME NEW p \in Path, result[p] # NoEntry, Len(p) > 1 PROVE result[Front(p)] = DirEntry
  <2>1. Front(p) \in Path
    BY <1>7, DirFacts
  <2>2. CASE f[Front(p)] = "kept"
    <3>1. result[p] = base[p] /\ result[Front(p)] = base[Front(p)]
      BY <1>3, <1>4, <2>1, <2>2
    <3>2. QED
      BY <1>7, <3>1 DEF IsTree
  <2>3. CASE f[Front(p)] \in {"gone", "file"}
    BY <1>3, <1>4, <1>7, <2>3
  <2>4. CASE f[Front(p)] \in {"base", "fresh"}
    BY <1>3, <2>1, <2>4
  <2>5. QED
    BY <1>4, <2>2, <2>3, <2>4 DEF Fates
<1>8. QED
  BY <1>1, <1>2, <1>6, <1>7 DEF IsTree

(* Every directory on the way to an entry of a tree is one.                *)
LEMMA InDirectories ==
    ASSUME NEW t, IsTree(t), NEW p \in Path, t[p] # NoEntry,
           NEW q \in Path, IsStrictPrefix(q, p)
    PROVE  t[q] = DirEntry
<1> DEFINE S == {e \in Dirs : e \in Path /\ t[e] # NoEntry =>
                                \A d \in Path : IsStrictPrefix(d, e) => t[d] = DirEntry}
<1>1. Root \in S
  BY PathsAre DEF Dirs
<1>2. ASSUME NEW e \in Path, Front(e) \in S PROVE e \in S
  <2> SUFFICES ASSUME t[e] # NoEntry, NEW d \in Path, IsStrictPrefix(d, e) PROVE t[d] = DirEntry
    BY DEF Dirs
  <2>1. d \in Seq(Name) /\ Front(e) \in Dirs /\ Front(e) \in Seq(Name) /\ IsPrefix(d, Front(e))
    BY DirFacts
  <2>2. Front(e) \in Path
    <3>1. Front(e) # Root
      <4>1. d # Root /\ Root \in Seq(Name) /\ ~IsStrictPrefix(d, Root)
        BY DirFacts, PathsAre
      <4>2. QED
        BY <2>1, <4>1, PrefixOrder
    <3>2. QED
      BY <2>1, <3>1 DEF Dirs
  <2>3. t[Front(e)] = DirEntry
    BY <2>2, DirFacts DEF IsTree
  <2>4. d = Front(e) \/ IsStrictPrefix(d, Front(e))
    BY <2>1, PrefixOrder
  <2>5. DirEntry # NoEntry
    BY DEF DirEntry, NoEntry
  <2>6. QED
    BY <1>2, <2>2, <2>3, <2>4, <2>5
<1> HIDE DEF S
<1>3. Dirs \subseteq S
  BY <1>1, <1>2, PathInduction
<1>4. QED
  BY <1>3 DEF S, Dirs

(* A directory that is not removed itself is rebuilt from its contents.    *)
LEMMA ContentsFound ==
    ASSUME NEW writes, NEW removes, IsRemoves(removes), NEW q, q \notin ToSet(removes),
           Entered(q, writes, removes)
    PROVE  KeepsContents(q, writes, removes)
<1> SUFFICES ASSUME Below(q, removes) PROVE KeepsContents(q, writes, removes)
  BY DEF KeepsContents, Entered
<1> DEFINE T == {i \in DOMAIN removes : IsStrictPrefix(q, removes[i])}
<1>1. DOMAIN removes = 1 .. Len(removes) /\ Len(removes) \in Nat
  BY DEF IsRemoves
<1>2. T \subseteq Nat /\ T # {}
  BY <1>1 DEF Below
<1>3. PICK i \in T : \A j \in T : ~(j < i)
  BY <1>2, LeastNumber
<1>4. \A j \in 1 .. i - 1 : j \in DOMAIN removes /\ j < i
  BY <1>1, <1>3
<1>5. \A j \in DOMAIN removes : removes[j] # q
  BY DEF ToSet
<1>6. QED
  BY <1>3, <1>4, <1>5 DEF KeepsContents

(* A file that no path of a change is in the way of stays as it is.        *)
LEMMA RebuildSpares ==
    ASSUME NEW base, IsTree(base), NEW writes, DOMAIN writes \subseteq Dirs,
           NEW removes, IsRemoves(removes), NEW p \in Files(base),
           \A q \in (DOMAIN writes \cup ToSet(removes)) \ {Root} : ~InTheWay(p, q)
    PROVE  RebuildTree(base, writes, removes)[p] = base[p]
<1>1. PICK f : /\ IsFate(f, base, writes, removes)
               /\ RebuildTree(base, writes, removes) = Shaped(f, base, writes)
  BY Rebuilt
<1> DEFINE S == {q \in Dirs : IsPrefix(q, p) => f[q] \in {"base", "kept"}}
<1>2. p \in Path /\ p \in Dirs /\ p \in Seq(Name) /\ base[p] \notin {DirEntry, NoEntry}
  BY DirFacts, TreeAssumption DEF Files
<1>3. Root \in S
  BY <1>1, FateCases DEF Dirs
<1>4. ToSet(removes) \subseteq Dirs /\ \A i \in DOMAIN removes : removes[i] \in ToSet(removes)
  BY DEF IsRemoves, ToSet
<1>5. ASSUME NEW q \in Path, IsPrefix(q, p), f[Front(q)] = "base"
      PROVE  f[q] \in {"base", "kept"} /\ (q = p => f[q] = "kept")
  <2>1. q \in Dirs /\ q # Root /\ q \in Seq(Name)
    BY DirFacts
  <2>2. q \notin DOMAIN writes /\ q \notin ToSet(removes)
    BY <1>5, <2>1 DEF InTheWay
  <2>3. CASE Entered(q, writes, removes)
    <3>1. KeepsContents(q, writes, removes)
      BY <2>2, <2>3, ContentsFound
    <3>2. q # p
      <4>1. PICK w \in DOMAIN writes \cup ToSet(removes) : IsStrictPrefix(q, w)
        BY <1>4, <2>3 DEF Below, Entered
      <4>2. w \in Dirs /\ w # Root
        BY <1>4, <2>1, <4>1, DirFacts
      <4>3. QED
        BY <4>1, <4>2 DEF InTheWay, IsStrictPrefix
    <3>3. base[q] = DirEntry
      BY <1>2, <1>5, <3>2, InDirectories DEF IsStrictPrefix
    <3>4. f[q] = "base"
      BY <1>1, <1>5, <2>2, <2>3, <3>1, <3>3, FateCases
    <3>5. QED
      BY <3>2, <3>4
  <2>4. CASE ~Entered(q, writes, removes)
    <3>1. f[q] = "kept"
      BY <1>1, <1>5, <2>2, <2>4, FateCases
    <3>2. QED
      BY <3>1
  <2>5. QED
    BY <2>3, <2>4
<1>6. ASSUME NEW q \in Path, IsPrefix(q, p), f[Front(q)] = "kept" PROVE f[q] = "kept"
  BY <1>1, <1>6, FateCases
<1>7. ASSUME NEW q \in Path, Front(q) \in S PROVE q \in S
  <2> SUFFICES ASSUME IsPrefix(q, p) PROVE f[q] \in {"base", "kept"}
    BY DEF Dirs
  <2>1. /\ Front(q) \in Dirs /\ Front(q) \in Seq(Name) /\ q \in Seq(Name)
        /\ IsStrictPrefix(Front(q), q)
    BY DirFacts
  <2>2. IsPrefix(Front(q), p)
    BY <1>2, <2>1, PrefixOrder
  <2>3. QED
    BY <1>5, <1>6, <1>7, <2>2
<1> HIDE DEF S
<1>8. Dirs \subseteq S
  BY <1>3, <1>7, PathInduction
<1>9. /\ Front(p) \in Dirs /\ Front(p) \in Seq(Name) /\ IsStrictPrefix(Front(p), p)
      /\ IsPrefix(p, p) /\ IsPrefix(Front(p), p)
  BY <1>2, DirFacts, PrefixOrder
<1>10. f[Front(p)] \in {"base", "kept"}
  BY <1>8, <1>9 DEF S
<1>11. f[p] = "kept"
  BY <1>2, <1>5, <1>6, <1>9, <1>10
<1>12. QED
  BY <1>1, <1>2, <1>11 DEF Shaped

(* The paths a change mentions; the root is skipped.                       *)
Mentioned(writes, removes) == (DOMAIN writes \cup ToSet(removes)) \ {Root}

(* Mentioned paths are paths; something inside a path is mentioned when it *)
(* is entered.                                                             *)
LEMMA MentionedPaths ==
    ASSUME NEW writes, DOMAIN writes \subseteq Dirs, NEW removes, IsRemoves(removes)
    PROVE  /\ Mentioned(writes, removes) \subseteq Path
           /\ ToSet(removes) \subseteq Dirs
           /\ \A q \in Dirs : Entered(q, writes, removes) <=>
                 \E w \in Mentioned(writes, removes) : IsStrictPrefix(q, w)
<1>1. ToSet(removes) \subseteq Dirs /\ \A i \in DOMAIN removes : removes[i] \in ToSet(removes)
  BY DEF IsRemoves, ToSet
<1>2. Mentioned(writes, removes) \subseteq Path
  BY <1>1 DEF Mentioned, Dirs
<1>3. ASSUME NEW q \in Dirs, Entered(q, writes, removes)
      PROVE  \E w \in Mentioned(writes, removes) : IsStrictPrefix(q, w)
  <2>1. PICK w \in DOMAIN writes \cup ToSet(removes) : IsStrictPrefix(q, w)
    BY <1>1, <1>3 DEF Entered, Below
  <2>2. w # Root
    BY <1>1, <2>1, DirFacts
  <2>3. QED
    BY <2>1, <2>2 DEF Mentioned
<1>4. ASSUME NEW q \in Dirs, NEW w \in Mentioned(writes, removes), IsStrictPrefix(q, w)
      PROVE  Entered(q, writes, removes)
  BY <1>4 DEF Mentioned, Entered, Below, ToSet
<1>5. QED
  BY <1>1, <1>2, <1>3, <1>4

(* A path that is written, and that lies inside no other path of the       *)
(* change, becomes the file.                                               *)
LEMMA WrittenFate ==
    ASSUME NEW base, NEW writes, DOMAIN writes \subseteq Dirs, NEW removes, IsRemoves(removes),
           NEW f, IsFate(f, base, writes, removes), NEW p \in Path, p \in DOMAIN writes,
           \A q \in DOMAIN writes \ {Root} : ~IsStrictPrefix(q, p)
    PROVE  f[p] = "file"
<1> DEFINE S == {q \in Dirs : IsStrictPrefix(q, p) => f[q] \in {"base", "fresh"}}
<1>1. Root \in S
  BY FateCases DEF Dirs
<1>2. ASSUME NEW q \in Path, Front(q) \in S PROVE q \in S
  <2> SUFFICES ASSUME IsStrictPrefix(q, p) PROVE f[q] \in {"base", "fresh"}
    BY DEF Dirs
  <2>1. /\ q \in Seq(Name) /\ p \in Seq(Name) /\ Front(q) \in Seq(Name) /\ q # Root
        /\ IsStrictPrefix(Front(q), q)
    BY DirFacts
  <2>2. IsStrictPrefix(Front(q), p)
    BY <2>1, PrefixOrder
  <2>3. q \notin DOMAIN writes /\ Entered(q, writes, removes)
    BY <2>1 DEF Entered
  <2>4. QED
    BY <1>2, <2>2, <2>3, FateCases
<1> HIDE DEF S
<1>3. Dirs \subseteq S
  BY <1>1, <1>2, PathInduction
<1>4. f[Front(p)] \in {"base", "fresh"}
  BY <1>3, DirFacts DEF S
<1>5. QED
  BY <1>4, FateCases

(* When no path of a change lies inside another, what is kept, and its     *)
(* directory, have nothing to do with it.                                  *)
LEMMA KeptFate ==
    ASSUME NEW base, NEW writes, DOMAIN writes \subseteq Dirs, NEW removes, IsRemoves(removes),
           ~Nested(Mentioned(writes, removes)),
           NEW f, IsFate(f, base, writes, removes), NEW p \in Path, f[p] = "kept",
           NEW w \in Mentioned(writes, removes)
    PROVE  ~InTheWay(p, w)
<1> DEFINE M == Mentioned(writes, removes)
           Clear(q) == /\ f[q] = "base" => \A m \in M : ~IsPrefix(m, q)
                       /\ f[q] = "kept" => \A m \in M : ~InTheWay(q, m)
           S == {q \in Dirs : Clear(q)}
<1>1. M \subseteq Path /\ Root \in Seq(Name) /\ \A m \in M : m \in Seq(Name) /\ m \in Dirs
  BY MentionedPaths, DirFacts, PathsAre
<1>2. \A q \in Dirs : Entered(q, writes, removes) <=> \E m \in M : IsStrictPrefix(q, m)
  BY MentionedPaths
<1>3. Root \in S
  <2>1. \A m \in M : ~IsPrefix(m, Root)
    <3> SUFFICES ASSUME NEW m \in M, IsPrefix(m, Root) PROVE FALSE
      OBVIOUS
    <3>1. m # Root /\ ~IsStrictPrefix(m, Root)
      BY <1>1, DirFacts
    <3>2. QED
      BY <1>1, <3>1, PrefixOrder
  <2>2. f[Root] = "base"
    BY FateCases
  <2>3. QED
    BY <2>1, <2>2 DEF Dirs
<1>4. \A q \in Path : q \in DOMAIN writes \cup ToSet(removes) => q \in M
  BY DirFacts DEF Mentioned
<1> HIDE DEF M
<1>5. ASSUME NEW q \in Path, Clear(Front(q)) PROVE Clear(q)
  <2>1. /\ q \in Seq(Name) /\ Front(q) \in Seq(Name) /\ q \in Dirs
        /\ IsStrictPrefix(Front(q), q) /\ \A m \in Dirs : IsStrictPrefix(m, q) <=> IsPrefix(m, Front(q))
    BY DirFacts
  <2>2. CASE f[q] = "base"
    <3>1. f[Front(q)] = "base" /\ q \notin DOMAIN writes /\ Entered(q, writes, removes)
      BY <2>2, FateCases DEF Fates
    <3>2. PICK v \in M : IsStrictPrefix(q, v)
      BY <1>2, <2>1, <3>1
    <3>3. q \notin M
      BY <3>2 DEF Nested, M
    <3>4. \A m \in M : ~IsPrefix(m, Front(q))
      BY <1>5, <3>1
    <3>5. \A m \in M : ~IsPrefix(m, q)
      BY <1>1, <2>1, <3>3, <3>4 DEF IsStrictPrefix
    <3>6. QED
      BY <2>2, <3>5
  <2>3. CASE f[q] = "kept" /\ f[Front(q)] = "kept"
    <3>1. \A m \in M : ~IsPrefix(Front(q), m) /\ ~IsPrefix(m, Front(q))
      BY <1>5, <2>3 DEF InTheWay
    <3>2. \A m \in M : ~IsPrefix(q, m)
      BY <1>1, <2>1, <3>1, PrefixOrder
    <3>3. \A m \in M : ~IsPrefix(m, q)
      BY <1>1, <2>1, <3>1, PrefixOrder DEF IsStrictPrefix
    <3>4. QED
      BY <2>3, <3>2, <3>3 DEF InTheWay
  <2>4. CASE f[q] = "kept" /\ f[Front(q)] # "kept"
    <3>1. f[Front(q)] = "base" /\ q \notin DOMAIN writes
      BY <2>4, FateCases DEF Fates
    <3>2. ~Entered(q, writes, removes) /\ q \notin ToSet(removes)
      BY <2>4, <3>1, FateCases DEF Fates
    <3>3. q \notin M
      BY <3>1, <3>2 DEF M, Mentioned
    <3>4. \A m \in M : ~IsPrefix(m, Front(q)) /\ ~IsStrictPrefix(q, m)
      BY <1>2, <1>5, <2>1, <3>1, <3>2
    <3>5. \A m \in M : ~IsPrefix(m, q) /\ ~IsPrefix(q, m)
      BY <1>1, <2>1, <3>3, <3>4 DEF IsStrictPrefix
    <3>6. QED
      BY <2>4, <3>5 DEF InTheWay
  <2>5. QED
    BY <2>2, <2>3, <2>4
<1> HIDE DEF Clear
<1>6. \A q \in Path : Front(q) \in S => q \in S
  BY <1>5, DirFacts
<1> HIDE DEF S
<1>7. p \in S
  BY <1>3, <1>6, PathInduction, DirFacts
<1>8. QED
  BY <1>7 DEF S, Clear, M

(* What is kept, and where no write is, nothing of a change is in.         *)
LEMMA KeptOutside ==
    ASSUME NEW base, NEW writes, DOMAIN writes \subseteq Dirs, NEW removes, IsRemoves(removes),
           NEW f, IsFate(f, base, writes, removes), NEW p \in Path, f[p] = "kept",
           NEW w \in Mentioned(writes, removes)
    PROVE  ~IsPrefix(p, w)
<1> DEFINE M == Mentioned(writes, removes)
           S == {q \in Dirs : f[q] = "kept" => \A m \in M : ~IsPrefix(q, m)}
<1>1. M \subseteq Path /\ \A m \in M : m \in Seq(Name)
  BY MentionedPaths, DirFacts
<1>2. Root \in S
  BY FateCases DEF Dirs
<1>3. ASSUME NEW q \in Path, Front(q) \in S PROVE q \in S
  <2> SUFFICES ASSUME f[q] = "kept", NEW m \in M, IsPrefix(q, m) PROVE FALSE
    BY DEF Dirs
  <2>1. /\ q \in Seq(Name) /\ Front(q) \in Seq(Name) /\ q # Root /\ q \in Dirs
        /\ IsStrictPrefix(Front(q), q) /\ m \in Seq(Name)
    BY <1>1, DirFacts
  <2>2. f[Front(q)] # "kept"
    BY <1>3, <2>1, PrefixOrder
  <2>3. f[Front(q)] \in {"base", "fresh"} /\ q \notin DOMAIN writes
    BY <2>2, FateCases DEF Fates
  <2>4. ~Entered(q, writes, removes) /\ q \notin ToSet(removes)
    BY <2>3, FateCases DEF Fates
  <2>5. q # m
    BY <2>3, <2>4 DEF Mentioned
  <2>6. QED
    BY <2>1, <2>4, <2>5, MentionedPaths DEF IsStrictPrefix
<1> HIDE DEF S
<1>4. p \in S
  BY <1>2, <1>3, PathInduction, DirFacts
<1>5. QED
  BY <1>4 DEF S

(* Nothing is below a written file.                                        *)
LEMMA BelowFile ==
    ASSUME NEW base, NEW writes, NEW removes, NEW f, IsFate(f, base, writes, removes),
           NEW w \in Path, f[w] = "file", NEW p \in Path, IsStrictPrefix(w, p)
    PROVE  f[p] = "gone"
<1> DEFINE S == {q \in Dirs : IsStrictPrefix(w, q) => f[q] = "gone"}
<1>1. w \in Seq(Name) /\ w \in Dirs /\ Root \in S
  BY DirFacts DEF Dirs
<1>2. ASSUME NEW q \in Path, Front(q) \in S PROVE q \in S
  <2> SUFFICES ASSUME IsStrictPrefix(w, q) PROVE f[q] = "gone"
    BY DEF Dirs
  <2>1. IsPrefix(w, Front(q)) /\ Front(q) \in Seq(Name)
    BY <1>1, DirFacts
  <2>2. f[Front(q)] \in {"file", "gone"}
    BY <1>1, <1>2, <2>1, PrefixOrder
  <2>3. QED
    BY <2>2, FateCases
<1> HIDE DEF S
<1>3. p \in S
  BY <1>1, <1>2, PathInduction, DirFacts
<1>4. QED
  BY <1>3 DEF S

(* A directory of the result was there, or something of the change is in   *)
(* it.                                                                     *)
LEMMA RebuildDirs ==
    ASSUME NEW base, NEW writes, IsWrites(writes), NEW removes, IsRemoves(removes), NEW p \in Path,
           RebuildTree(base, writes, removes)[p] = DirEntry
    PROVE  \/ base[p] = DirEntry
           \/ \E w \in Mentioned(writes, removes) : IsStrictPrefix(p, w)
<1>1. PICK f : /\ IsFate(f, base, writes, removes)
               /\ RebuildTree(base, writes, removes) = Shaped(f, base, writes)
  BY Rebuilt
<1>2. p \in Dirs /\ DirEntry # NoEntry /\ DirEntry \notin Data
  BY DirFacts, TreeAssumption DEF NoEntry, DirEntry
<1>3. f[p] \in Fates
  BY <1>1, FateCases
<1>4. f[p] # "gone"
  BY <1>1, <1>2 DEF Shaped
<1>5. f[p] = "file" => p \in DOMAIN writes
  BY <1>1, FateCases DEF Fates
<1>6. f[p] # "file"
  <2> SUFFICES ASSUME f[p] = "file" PROVE FALSE
    OBVIOUS
  <2>1. writes[p] = DirEntry
    BY <1>1 DEF Shaped
  <2>2. writes[p] \in Data
    BY <1>5 DEF IsWrites
  <2>3. QED
    BY <1>2, <2>1, <2>2
<1>7. CASE f[p] = "kept"
  BY <1>1, <1>7 DEF Shaped
<1>8. CASE f[p] \in {"base", "fresh"}
  <2>1. Entered(p, writes, removes)
    BY <1>1, <1>8, FateCases DEF Fates
  <2>2. QED
    BY <1>2, <2>1, MentionedPaths DEF IsWrites
<1>9. QED
  BY <1>3, <1>4, <1>6, <1>7, <1>8 DEF Fates

(* rebuild_tree does what the change asks for, whatever the order of its   *)
(* parts, when it keeps no file that the change is about.                  *)
LEMMA RebuildAsAsked ==
    ASSUME NEW base, IsTree(base), NEW writes, IsWrites(writes), Root \notin DOMAIN writes,
           NEW removes, IsRemoves(removes), ~Nested(DOMAIN writes),
           NEW f, IsFate(f, base, writes, removes),
           RebuildTree(base, writes, removes) = Shaped(f, base, writes),
           \A p \in Files(base), w \in Mentioned(writes, removes) :
               f[p] = "kept" => ~InTheWay(p, w)
    PROVE  Contents(RebuildTree(base, writes, removes))
              = Changed(Contents(base), writes, ToSet(removes) \ {Root})
<1>1. PICK result : result = RebuildTree(base, writes, removes)
  OBVIOUS
<1>2. \A p \in Path : /\ f[p] = "kept" => result[p] = base[p]
                      /\ f[p] = "gone" => result[p] = NoEntry
                      /\ f[p] = "file" => result[p] = writes[p]
                      /\ f[p] \in {"base", "fresh"} => result[p] = DirEntry
  BY <1>1 DEF Shaped
<1> DEFINE M == Mentioned(writes, removes)
           Clear(p) == \A q \in M : ~InTheWay(p, q)
<1>3. DOMAIN writes \subseteq Path /\ DOMAIN writes \subseteq Dirs /\ DOMAIN writes \subseteq M
  BY DEF IsWrites, Dirs, Mentioned
<1>4. ASSUME NEW p \in DOMAIN writes PROVE result[p] = writes[p] /\ result[p] \in Data
  <2>1. \A q \in DOMAIN writes : ~IsStrictPrefix(q, p)
    BY <1>3 DEF Nested
  <2>2. f[p] = "file"
    BY <1>3, <2>1, WrittenFate
  <2>3. QED
    BY <1>2, <1>3, <2>2 DEF IsWrites
<1>5. ASSUME NEW p \in Path, p \notin DOMAIN writes, result[p] \in Data
      PROVE  p \in Files(base) /\ Clear(p)
  <2>1. f[p] # "file"
    <3>1. f[p] = "file" => f[Front(p)] \in {"base", "fresh"}
      BY FateCases DEF Fates
    <3>2. QED
      BY <1>5, <3>1, FateCases DEF Fates
  <2>2. f[p] \in Fates
    BY FateCases
  <2>3. NoEntry \notin Data /\ DirEntry \notin Data
    BY TreeAssumption
  <2>4. f[p] = "kept"
    BY <1>2, <1>5, <2>1, <2>2, <2>3 DEF Fates
  <2>5. p \in Files(base)
    BY <1>2, <1>5, <2>4 DEF Files
  <2>6. QED
    BY <2>4, <2>5
<1>6. ASSUME NEW p \in Files(base), Clear(p) PROVE result[p] = base[p] /\ result[p] \in Data
  <2>1. \A q \in (DOMAIN writes \cup ToSet(removes)) \ {Root} : ~InTheWay(p, q)
    BY <1>6 DEF Mentioned
  <2>2. QED
    BY <1>1, <1>3, <2>1, RebuildSpares DEF Files
<1> DEFINE left == {p \in Files(base) : Clear(p)}
<1>7. Files(result) = left \cup DOMAIN writes
  BY <1>3, <1>4, <1>5, <1>6 DEF Files
<1>8. ASSUME NEW p \in left \cup DOMAIN writes
      PROVE  result[p] = IF p \in DOMAIN writes THEN writes[p] ELSE Contents(base)[p]
  BY <1>4, <1>6 DEF Contents
<1>9. ASSUME NEW p \in Files(base)
       PROVE  Clear(p) <=> /\ ~\E r \in ToSet(removes) \ {Root} : IsPrefix(r, p)
                           /\ ~\E w \in DOMAIN writes : InTheWay(w, p)
                           /\ ~\E r \in ToSet(removes) \ {Root} : IsStrictPrefix(p, r)
  <2>1. \A r : InTheWay(p, r) <=> InTheWay(r, p)
    BY DEF InTheWay
  <2>2. \A r \in ToSet(removes) \ {Root} :
           InTheWay(p, r) <=> IsPrefix(r, p) \/ IsStrictPrefix(p, r)
    <3> SUFFICES ASSUME NEW r \in ToSet(removes) \ {Root}
                 PROVE  InTheWay(p, r) <=> IsPrefix(r, p) \/ IsStrictPrefix(p, r)
      OBVIOUS
    <3>1. r \in Seq(Name) /\ p \in Seq(Name)
      BY <1>3, MentionedPaths, DirFacts DEF Files, Dirs
    <3>2. QED
      BY <3>1, PrefixOrder DEF InTheWay
  <2>3. M = DOMAIN writes \cup (ToSet(removes) \ {Root})
    BY DEF Mentioned
  <2>4. QED
    BY <2>1, <2>2, <2>3
<1>10. Changed(Contents(base), writes, ToSet(removes) \ {Root})
          = [p \in left \cup DOMAIN writes |->
               IF p \in DOMAIN writes THEN writes[p] ELSE Contents(base)[p]]
  <2> DEFINE R == ToSet(removes) \ {Root}
             kept == {p \in DOMAIN Contents(base) :
                         /\ ~\E r \in R : IsPrefix(r, p)
                         /\ ~\E w \in DOMAIN writes : InTheWay(w, p)}
             stay == {p \in kept : ~\E r \in R : IsStrictPrefix(p, r)}
  <2>1. DOMAIN Contents(base) = Files(base)
    BY DEF Contents
  <2>2. left = stay
    BY <1>9, <2>1
  <2>3. Changed(Contents(base), writes, R)
          = [p \in stay \cup DOMAIN writes |->
               IF p \in DOMAIN writes THEN writes[p] ELSE Contents(base)[p]]
    BY DEF Changed
  <2>4. QED
    BY <2>2, <2>3
<1>11. Contents(result) = [p \in left \cup DOMAIN writes |->
               IF p \in DOMAIN writes THEN writes[p] ELSE Contents(base)[p]]
  <2> HIDE DEF left
  <2>1. Contents(result) = [p \in left \cup DOMAIN writes |-> result[p]]
    BY <1>7 DEF Contents
  <2>2. QED
    BY <1>8, <2>1
<1>12. QED
  BY <1>1, <1>10, <1>11

(* When no path of a change lies inside another, rebuild_tree does what    *)
(* the change asks for, whatever the order of its parts.                   *)
LEMMA RebuildChanges ==
    ASSUME NEW base, IsTree(base), NEW writes, IsWrites(writes), Root \notin DOMAIN writes,
           NEW removes, IsRemoves(removes), ~Nested(Mentioned(writes, removes))
    PROVE  Contents(RebuildTree(base, writes, removes))
              = Changed(Contents(base), writes, ToSet(removes) \ {Root})
<1>1. PICK f : /\ IsFate(f, base, writes, removes)
               /\ RebuildTree(base, writes, removes) = Shaped(f, base, writes)
  BY Rebuilt
<1>2. DOMAIN writes \subseteq Dirs /\ DOMAIN writes \subseteq Mentioned(writes, removes)
  BY DEF IsWrites, Mentioned
<1>3. ~Nested(DOMAIN writes)
  BY <1>2 DEF Nested
<1>4. \A p \in Files(base), w \in Mentioned(writes, removes) :
         f[p] = "kept" => ~InTheWay(p, w)
  BY <1>1, <1>2, KeptFate DEF Files
<1>5. QED
  BY <1>1, <1>3, <1>4, RebuildAsAsked

-----------------------------------------------------------------------------
(* Looking up, and writes one after the other.                             *)

(* In a tree, an entry is found under its path.                            *)
LEMMA LookupIs ==
    ASSUME NEW t, IsTree(t), NEW p \in Dirs
    PROVE  Lookup(t, p) = IF p = Root THEN DirEntry ELSE t[p]
<1> SUFFICES ASSUME p # Root PROVE Lookup(t, p) = t[p]
  BY DEF Lookup
<1>1. p \in Path /\ p \in Seq(Name) /\ Len(p) \in 1 .. MaxDepth /\ MaxDepth \in Nat
  BY PathsAre, TreeAssumption DEF Dirs
<1>2. ASSUME t[p] # NoEntry, NEW i \in 1 .. Len(p) - 1 PROVE t[SubSeq(p, 1, i)] = DirEntry
  <2>1. PICK q : q = SubSeq(p, 1, i)
    OBVIOUS
  <2>2. i \in Nat /\ 1 <= i /\ i < Len(p) /\ \A j \in 1 .. i : p[j] \in Name
    BY <1>1
  <2>3. /\ q \in Seq(Name) /\ Len(q) = IF 1 <= i THEN i - 1 + 1 ELSE 0
        /\ \A j \in 1 .. i - 1 + 1 : q[j] = p[1 + j - 1]
    BY <2>1, <2>2, SubSeqProperties
  <2>4. Len(q) = i /\ \A j \in 1 .. i : q[j] = p[j]
    BY <2>2, <2>3
  <2>5. q \in Path /\ IsStrictPrefix(q, p)
    BY <1>1, <2>2, <2>3, <2>4, PathsAre, PrefixMeans
  <2>6. QED
    BY <1>1, <1>2, <2>1, <2>5, InDirectories
<1>3. CASE t[p] # NoEntry
  BY <1>2, <1>3 DEF Lookup
<1>4. CASE t[p] = NoEntry
  BY <1>4 DEF Lookup
<1>5. QED
  BY <1>3, <1>4

(* Of several writes to one path, some counts.                             *)
LEMMA InTurnIs ==
    ASSUME NEW n \in Nat, NEW parts, DOMAIN parts = 1 .. n, NEW q
    PROVE  q \in DOMAIN InTurn(parts) <=> \E i \in 1 .. n : q \in DOMAIN parts[i]
<1>1. DOMAIN InTurn(parts) = UNION {DOMAIN parts[i] : i \in DOMAIN parts}
  BY DEF InTurn
<1>2. QED
  BY <1>1

(* It is the last one.                                                     *)
LEMMA InTurnTakes ==
    ASSUME NEW n \in Nat, NEW parts, DOMAIN parts = 1 .. n, NEW q \in DOMAIN InTurn(parts)
    PROVE  \E i \in 1 .. n : /\ q \in DOMAIN parts[i] /\ InTurn(parts)[q] = parts[i][q]
                             /\ \A j \in 1 .. n : q \in DOMAIN parts[j] => j <= i
<1> DEFINE T == {i \in DOMAIN parts : q \in DOMAIN parts[i]}
<1>1. T \subseteq 0 .. n /\ T # {}
  BY InTurnIs
<1>2. \E i \in T : \A j \in T : j <= i
  BY <1>1, GreatestNumber
<1>3. Max(T) \in T /\ \A j \in T : j <= Max(T)
  <2>1. \E i \in T : \A j \in T : i >= j
    BY <1>1, <1>2
  <2>2. Max(T) \in T /\ \A j \in T : Max(T) >= j
    BY <2>1 DEF Max
  <2>3. QED
    BY <1>1, <2>2
<1>4. InTurn(parts)[q] = parts[Max(T)][q]
  BY DEF InTurn
<1> HIDE DEF T
<1>5. PICK m \in T : m = Max(T)
  BY <1>3
<1>6. m \in 1 .. n /\ q \in DOMAIN parts[m] /\ \A j \in 1 .. n : q \in DOMAIN parts[j] => j \in T
  BY DEF T
<1>7. QED
  BY <1>3, <1>4, <1>5, <1>6

(* No file is inside another.                                              *)
LEMMA FilesApart ==
    ASSUME NEW t, IsTree(t), NEW p \in Files(t), NEW q \in Path, t[q] # NoEntry
    PROVE  ~IsStrictPrefix(p, q)
<1>1. p \in Path /\ t[p] # DirEntry
  BY TreeAssumption DEF Files
<1>2. QED
  BY <1>1, InDirectories

(* Nor does it matter that files to be removed are in the way of those to  *)
(* be written.                                                             *)
LEMMA RebuildSyncs ==
    ASSUME NEW base, IsTree(base), NEW writes, IsWrites(writes), Root \notin DOMAIN writes,
           ~Nested(DOMAIN writes), NEW removes, IsRemoves(removes),
           ToSet(removes) \subseteq Files(base)
    PROVE  Contents(RebuildTree(base, writes, removes))
              = Changed(Contents(base), writes, ToSet(removes) \ {Root})
<1>1. PICK f : /\ IsFate(f, base, writes, removes)
               /\ RebuildTree(base, writes, removes) = Shaped(f, base, writes)
  BY Rebuilt
<1>2. DOMAIN writes \subseteq Dirs /\ DOMAIN writes \subseteq Path
  BY DEF IsWrites, Dirs
<1>3. ASSUME NEW p \in Files(base), NEW w \in Mentioned(writes, removes), f[p] = "kept",
             InTheWay(p, w)
      PROVE  FALSE
  <2>1. p \in Path /\ p \in Seq(Name) /\ w \in Path /\ w \in Seq(Name)
    BY <1>2, MentionedPaths, DirFacts DEF Files
  <2>2. ~IsPrefix(p, w)
    BY <1>1, <1>2, <1>3, <2>1, KeptOutside
  <2>3. IsStrictPrefix(w, p)
    BY <1>3, <2>1, <2>2, PrefixOrder DEF InTheWay
  <2>4. w \notin Files(base)
    BY <2>1, <2>3, FilesApart, TreeAssumption DEF Files
  <2>5. w \in DOMAIN writes /\ \A q \in DOMAIN writes \ {Root} : ~IsStrictPrefix(q, w)
    BY <2>4 DEF Mentioned, Nested
  <2>6. f[w] = "file"
    BY <1>1, <1>2, <2>1, <2>5, WrittenFate
  <2>7. f[p] = "gone"
    BY <1>1, <2>1, <2>3, <2>6, BelowFile
  <2>8. QED
    BY <1>3, <2>7
<1>4. QED
  BY <1>1, <1>3, RebuildAsAsked

(* What there is after a change was there before or has been written.      *)
LEMMA RebuildTakes ==
    ASSUME NEW base, NEW writes, NEW removes, NEW p \in Files(RebuildTree(base, writes, removes))
    PROVE  \/ p \in DOMAIN writes /\ RebuildTree(base, writes, removes)[p] = writes[p]
           \/ p \in Files(base) /\ RebuildTree(base, writes, removes)[p] = base[p]
<1>1. PICK f : /\ IsFate(f, base, writes, removes)
               /\ RebuildTree(base, writes, removes) = Shaped(f, base, writes)
  BY Rebuilt
<1>2. p \in Path /\ Shaped(f, base, writes)[p] \in Data
  BY <1>1 DEF Files
<1>3. f[p] \in {"kept", "file"}
  BY <1>1, <1>2, FateCases, TreeAssumption DEF Shaped, Fates
<1>4. f[p] = "file" => p \in DOMAIN writes
  BY <1>1, <1>2, FateCases DEF Fates
<1>5. QED
  BY <1>1, <1>2, <1>3, <1>4 DEF Shaped, Files

(* What is written is there, unless it is inside something else written.   *)
LEMMA RebuildWrites ==
    ASSUME NEW base, NEW writes, DOMAIN writes \subseteq Dirs, NEW removes, IsRemoves(removes),
           NEW p \in Path, p \in DOMAIN writes,
           \A q \in DOMAIN writes \ {Root} : ~IsStrictPrefix(q, p)
    PROVE  RebuildTree(base, writes, removes)[p] = writes[p]
<1>1. PICK f : /\ IsFate(f, base, writes, removes)
               /\ RebuildTree(base, writes, removes) = Shaped(f, base, writes)
  BY Rebuilt
<1>2. f[p] = "file"
  BY <1>1, WrittenFate
<1>3. QED
  BY <1>1, <1>2 DEF Shaped

(* Contents are the same when files and what they hold are.                *)
LEMMA SameContents ==
    ASSUME NEW t, NEW u, Files(t) = Files(u), \A p \in Files(t) : t[p] = u[p]
    PROVE  Contents(t) = Contents(u)
BY DEF Contents

(* What is removed and not written again is not there.                     *)
LEMMA RebuildRemoves ==
    ASSUME NEW base, NEW writes, NEW removes, IsRemoves(removes),
           NEW p \in Path, p \in ToSet(removes), p \notin DOMAIN writes
    PROVE  p \notin Files(RebuildTree(base, writes, removes))
<1>1. PICK f : /\ IsFate(f, base, writes, removes)
               /\ RebuildTree(base, writes, removes) = Shaped(f, base, writes)
  BY Rebuilt
<1> DEFINE S == {q \in Dirs : IsStrictPrefix(q, p) => f[q] # "kept"}
<1>2. Root \in S
  BY <1>1, FateCases DEF Dirs
<1>3. ASSUME NEW q \in Path, Front(q) \in S PROVE q \in S
  <2> SUFFICES ASSUME IsStrictPrefix(q, p) PROVE f[q] # "kept"
    BY DEF Dirs
  <2>1. /\ q \in Seq(Name) /\ p \in Seq(Name) /\ Front(q) \in Seq(Name)
        /\ IsStrictPrefix(Front(q), q)
    BY DirFacts
  <2>2. IsStrictPrefix(Front(q), p)
    BY <2>1, PrefixOrder
  <2>3. f[Front(q)] # "kept" /\ f[Front(q)] \in Fates
    BY <1>1, <1>3, <2>2, FateCases
  <2>4. Entered(q, writes, removes)
    BY DEF Entered, Below, ToSet
  <2>5. QED
    BY <1>1, <2>3, <2>4, FateCases DEF Fates
<1>4. Dirs \subseteq S
  BY <1>2, <1>3, PathInduction
<1>5. f[Front(p)] # "kept" /\ f[Front(p)] \in Fates /\ f[p] \in Fates
  BY <1>1, <1>4, DirFacts, FateCases
<1>6. f[p] \in {"base", "fresh", "gone"}
  <2>1. CASE f[Front(p)] \in {"gone", "file"}
    BY <1>1, <2>1, FateCases
  <2>2. CASE f[Front(p)] \in {"base", "fresh"}
    BY <1>1, <2>2, FateCases
  <2>3. QED
    BY <1>5, <2>1, <2>2 DEF Fates
<1>7. Shaped(f, base, writes)[p] \in {DirEntry, NoEntry}
  BY <1>6 DEF Shaped
<1>8. QED
  BY <1>1, <1>7, TreeAssumption DEF Files

-----------------------------------------------------------------------------
(* Lists of paths made from sets.                                          *)

(* There are finitely many paths.                                          *)
LEMMA PathFinite == IsFiniteSet(Path)
<1> DEFINE Upto(k) == {p \in Dirs : Len(p) <= k}
           T == {k \in 0 .. MaxDepth : IsFiniteSet(Upto(k))}
<1>1. MaxDepth \in Nat
  BY TreeAssumption
<1>2. \A p \in Dirs : p \in Seq(Name) /\ Len(p) \in 0 .. MaxDepth /\ (Len(p) = 0 => p = Root)
  BY PathsAre
<1>3. 0 \in T
  <2>1. Upto(0) \subseteq {Root}
    BY <1>1, <1>2
  <2>2. IsFiniteSet({Root})
    BY FS_Singleton
  <2>3. QED
    BY <1>1, <2>1, <2>2, FS_Subset
<1>4. ASSUME NEW k \in 0 .. MaxDepth, k < MaxDepth, k \in T PROVE k + 1 \in T
  <2> DEFINE W == Upto(k) \X Name
             f == [x \in W |-> Append(x[1], x[2])]
             I == {f[x] : x \in W}
  <2>1. IsFiniteSet(W)
    BY <1>4, NameAssumption, FS_Product
  <2>2. f \in Surjection(W, I)
    BY DEF Surjection
  <2>3. IsFiniteSet(I)
    BY <2>1, <2>2, FS_Surjection
  <2>4. ASSUME NEW p \in Upto(k + 1), p \notin Upto(k) PROVE p \in I
    <3>1. p \in Seq(Name) /\ Len(p) = k + 1 /\ k \in Nat /\ p # <<>>
      BY <1>1, <1>2, <1>4, <2>4
    <3>2. Front(p) \in Seq(Name) /\ Len(Front(p)) = k
      BY <3>1, FrontIs
    <3>3. p[k + 1] \in Name
      BY <3>1
    <3>4. p = Append(Front(p), p[k + 1])
      <4>1. PICK u \in Seq(Name), e \in Name : u = Front(p) /\ e = p[k + 1]
        BY <3>2, <3>3
      <4>2. PICK a \in Seq(Name) : a = Append(u, e)
        BY AppendProperties
      <4>3. Len(a) = k + 1 /\ a[k + 1] = e /\ \A i \in 1 .. k : a[i] = u[i]
        BY <3>2, <4>1, <4>2, AppendProperties
      <4>4. \A i \in 1 .. k : u[i] = p[i]
        <5>1. \A i \in 1 .. Len(p) - 1 : Front(p)[i] = p[i]
          BY <3>1, FrontIs
        <5>2. Len(p) - 1 = k
          BY <3>1
        <5>3. QED
          BY <4>1, <5>1, <5>2
      <4>5. \A i \in 1 .. k + 1 : a[i] = p[i]
        BY <3>1, <4>1, <4>3, <4>4
      <4>6. QED
        BY <3>1, <4>1, <4>2, <4>3, <4>5, SeqEqual
    <3>5. Front(p) \in Upto(k)
      <4>1. Front(p) \in Dirs
        BY <1>1, <1>4, <3>2, PathsAre
      <4>2. QED
        BY <3>1, <3>2, <4>1
    <3>6. <<Front(p), p[k + 1]>> \in W
      BY <3>3, <3>5
    <3>7. f[<<Front(p), p[k + 1]>>] = p
      BY <3>4, <3>6
    <3>8. QED
      BY <3>6, <3>7
  <2>5. IsFiniteSet(Upto(k) \cup I)
    BY <1>4, <2>3, FS_Union
  <2>6. Upto(k + 1) \subseteq Upto(k) \cup I
    BY <2>4
  <2> HIDE DEF Upto, I
  <2>7. QED
    BY <1>1, <1>4, <2>5, <2>6, FS_Subset
<1> HIDE DEF T
<1>5. MaxDepth \in T
  <2>1. 0 .. MaxDepth \subseteq T
    BY <1>1, <1>3, <1>4, InductionUpTo
  <2>2. QED
    BY <1>1, <2>1
<1>6. Path \subseteq Upto(MaxDepth)
  BY <1>1, <1>2 DEF Dirs
<1>7. QED
  BY <1>5, <1>6, FS_Subset DEF T

(* A set in some order.                                                    *)
LEMMA InSomeOrder ==
    ASSUME NEW S, IsFiniteSet(S)
    PROVE  SetToSeq(S) \in Seq(S) /\ ToSet(SetToSeq(S)) = S
<1>1. PICK k : k = Cardinality(S)
  OBVIOUS
<1>2. k \in Nat /\ ExistsBijection(1 .. k, S)
  BY <1>1, FS_CardinalityType
<1>3. \E f \in [1 .. k -> S] : IsInjective(f)
  BY <1>2 DEF ExistsBijection, Bijection, Injection
<1>4. PICK s : s = SetToSeq(S)
  OBVIOUS
<1>5. s \in [1 .. k -> S] /\ IsInjective(s)
  BY <1>1, <1>3, <1>4 DEF SetToSeq
<1>6. s \in Injection(1 .. k, S)
  BY <1>5 DEF Injection
<1>7. Cardinality(1 .. k) = k
  BY <1>2, FS_Interval
<1>8. s \in Surjection(1 .. k, S)
  BY <1>1, <1>6, <1>7, FS_Injection
<1>9. \A r \in S : \E i \in 1 .. k : s[i] = r
  BY <1>8 DEF Surjection
<1>10. s \in Seq(S)
  BY <1>2, <1>5
<1>11. ToSet(s) = S
  BY <1>5, <1>9 DEF ToSet
<1>12. QED
  BY <1>4, <1>10, <1>11

-----------------------------------------------------------------------------
(* Writes, sets of trees and of writes, and what Changed replaces.         *)

(* Values, on any paths, that can be written.                              *)
IsData(writes) == writes \in [DOMAIN writes -> Data]

(* One write, and one written over others.                                 *)
LEMMA OneWriteIs ==
    ASSUME NEW p, NEW d \in Data
    PROVE  IsData(OneWrite(p, d)) /\ DOMAIN OneWrite(p, d) = {p}
BY DEF IsData, OneWrite

(* No write.                                                               *)
LEMMA NoWriteIs == IsData(<<>>) /\ DOMAIN <<>> = {} /\ IsWrites(<<>>)
BY DEF IsData, IsWrites

Trees == {t \in [Path -> Data \cup {NoEntry, DirEntry}] : IsTree(t)}

Writes == UNION {[D -> Data] : D \in SUBSET Dirs}

(* The sets are those of trees and of writes.                              *)
LEMMA SetsAre ==
    /\ \A t : t \in Trees <=> IsTree(t)
    /\ \A w : w \in Writes <=> IsWrites(w)
<1>1. \A t : t \in Trees <=> IsTree(t)
  BY DEF Trees, IsTree
<1>2. \A w : w \in Writes <=> IsWrites(w)
  BY DEF Writes, IsWrites
<1>3. QED
  BY <1>1, <1>2

(* Rebuilding keeps to trees.                                              *)
LEMMA RebuildIn ==
    ASSUME NEW base \in Trees, NEW writes \in Writes, NEW removes
    PROVE  RebuildTree(base, writes, removes) \in Trees
BY SetsAre, RebuildMakesTree

(* One write to a path.                                                    *)
LEMMA OneWriteIn == ASSUME NEW p \in Dirs, NEW d \in Data PROVE OneWrite(p, d) \in Writes
<1>1. IsWrites(OneWrite(p, d))
  <2>1. PICK w : w = OneWrite(p, d)
    OBVIOUS
  <2>2. w \in [DOMAIN w -> Data] /\ DOMAIN w = {p}
    BY <2>1, OneWriteIs DEF IsData
  <2>3. QED
    BY <2>1, <2>2 DEF IsWrites
<1>2. QED
  BY <1>1, SetsAre

(* The paths of a list.                                                    *)
LEMMA InList ==
    ASSUME NEW S, NEW s \in Seq(S)
    PROVE  ToSet(s) \subseteq S /\ \A e \in ToSet(s) : \E i \in DOMAIN s : s[i] = e
BY DEF ToSet

(* Fewer paths are not nested either.                                      *)
LEMMA NestedFewer == ASSUME NEW P, NEW Q \in SUBSET P, ~Nested(P) PROVE ~Nested(Q)
BY DEF Nested

(* The files that are not in the way of some paths.                        *)
Clear(contents, paths) == {x \in DOMAIN contents : \A m \in paths : ~InTheWay(m, x)}

(* The writes, and what is not in the way of the paths.                    *)
Replaced(contents, writes, paths) ==
    [x \in Clear(contents, paths) \cup DOMAIN writes |->
       IF x \in DOMAIN writes THEN writes[x] ELSE contents[x]]

(* A change in these terms.                                                *)
LEMMA ChangedIs ==
    ASSUME NEW contents, DOMAIN contents \subseteq Path, NEW writes, DOMAIN writes \subseteq Path,
           NEW removes, removes \subseteq Path
    PROVE  Changed(contents, writes, removes)
              = Replaced(contents, writes, DOMAIN writes \cup removes)
<1> DEFINE kept == {p \in DOMAIN contents :
                      /\ ~\E r \in removes : IsPrefix(r, p)
                      /\ ~\E w \in DOMAIN writes : InTheWay(w, p)}
           left == {p \in kept : ~\E r \in removes : IsStrictPrefix(p, r)}
<1>1. ASSUME NEW x \in Path, NEW r \in Path
      PROVE  InTheWay(r, x) <=> IsPrefix(r, x) \/ IsStrictPrefix(x, r)
  <2>1. x \in Seq(Name) /\ r \in Seq(Name)
    BY DirFacts
  <2>2. (IsPrefix(x, r) <=> IsStrictPrefix(x, r) \/ x = r) /\ IsPrefix(x, x)
    BY <2>1, PrefixOrder
  <2>3. QED
    BY <2>2 DEF InTheWay
<1>2. left = Clear(contents, DOMAIN writes \cup removes)
  BY <1>1 DEF Clear
<1>3. Changed(contents, writes, removes)
        = [x \in left \cup DOMAIN writes |-> IF x \in DOMAIN writes THEN writes[x] ELSE contents[x]]
  BY Zenon DEF Changed
<1> HIDE DEF left
<1>4. QED
  BY <1>2, <1>3 DEF Replaced

(* Paths of which none is inside another are not in each other's way.      *)
LEMMA ApartPaths ==
    ASSUME NEW paths, paths \subseteq Path, ~Nested(paths), NEW p \in paths, NEW q \in paths, p # q
    PROVE  ~InTheWay(p, q)
<1>1. p \in Seq(Name) /\ q \in Seq(Name)
  BY DirFacts
<1>2. ~IsStrictPrefix(p, q) /\ ~IsStrictPrefix(q, p)
  BY DEF Nested
<1>3. QED
  BY <1>1, <1>2, PrefixOrder DEF InTheWay

(* A path is in its own way.                                               *)
LEMMA OwnWay == ASSUME NEW p \in Path PROVE InTheWay(p, p)
<1>1. p \in Seq(Name)
  BY DirFacts
<1>2. QED
  BY <1>1, PrefixOrder DEF InTheWay

(* And what it is to do.                                                   *)
LEMMA ChangedNothing ==
    ASSUME NEW t, NEW writes, DOMAIN writes = {}
    PROVE  Changed(Contents(t), writes, {}) = Contents(t)
<1>1. PICK c : c = Contents(t) /\ DOMAIN c = Files(t) /\ c = [p \in Files(t) |-> t[p]]
  BY DEF Contents
<1>2. DOMAIN c \subseteq Path
  BY <1>1 DEF Files
<1>3. DOMAIN writes \cup {} = {} /\ {} \subseteq Path
  OBVIOUS
<1>4. Changed(c, writes, {}) = Replaced(c, writes, {})
  BY <1>2, <1>3, ChangedIs
<1>5. Clear(c, {}) = DOMAIN c
  BY DEF Clear
<1>6. Replaced(c, writes, {}) = c
  BY <1>1, <1>5 DEF Replaced
<1>7. QED
  BY <1>1, <1>4, <1>6

(* Contents are on paths.                                                  *)
LEMMA ContentsOn == ASSUME NEW t PROVE DOMAIN Contents(t) \subseteq Path
BY DEF Contents, Files

-----------------------------------------------------------------------------
(* New names: what is below one directory, taken to another.               *)

(* The name, below target, of what is called p below src.                  *)
Renamed(src, target, p) == target \o SubSeq(p, Len(src) + 1, Len(p))

(* The segments of target, followed by those of p that come after src.     *)
Follows(r, src, target, p) ==
    /\ Len(r) = Len(target) + (Len(p) - Len(src))
    /\ \A i \in 1 .. Len(target) : r[i] = target[i]
    /\ \A i \in 1 .. Len(p) - Len(src) : r[Len(target) + i] = p[Len(src) + i]

(* Those of the new name.                                                  *)
LEMMA RenamedIs ==
    ASSUME NEW S, NEW src \in Seq(S), NEW target \in Seq(S), NEW p \in Seq(S), IsPrefix(src, p)
    PROVE  /\ Renamed(src, target, p) \in Seq(S)
           /\ Follows(Renamed(src, target, p), src, target, p)
<1>1. PICK m \in Nat, n \in Nat, k \in Nat :
         m = Len(src) /\ n = Len(p) /\ k = Len(target) /\ m <= n
  <2>1. Len(src) <= Len(p)
    BY PrefixMeans
  <2>2. QED
    BY <2>1
<1>2. PICK r : r = SubSeq(p, m + 1, n)
  OBVIOUS
<1>3. /\ r \in Seq(S)
      /\ Len(r) = IF m + 1 <= n THEN n - (m + 1) + 1 ELSE 0
      /\ \A i \in 1 .. n - (m + 1) + 1 : r[i] = p[m + 1 + i - 1]
  <2>1. \A i \in m + 1 .. n : p[i] \in S
    BY <1>1
  <2>2. m + 1 \in Int /\ n \in Int
    OBVIOUS
  <2>3. QED
    BY <1>2, <2>1, <2>2, SubSeqProperties
<1>4. Len(r) = n - m /\ \A i \in 1 .. n - m : r[i] = p[m + i]
  <2>1. n - (m + 1) + 1 = n - m /\ \A i \in 1 .. n - m : m + 1 + i - 1 = m + i
    BY <1>1
  <2>2. QED
    BY <1>1, <1>3, <2>1
<1>5. PICK t : t = target \o r
  OBVIOUS
<1>6. /\ t \in Seq(S) /\ Len(t) = k + (n - m)
      /\ \A i \in 1 .. k + (n - m) : t[i] = IF i <= k THEN target[i] ELSE r[i - k]
  <2>1. /\ t \in Seq(S) /\ Len(t) = Len(target) + Len(r)
        /\ \A i \in 1 .. Len(target) + Len(r) :
              t[i] = IF i <= Len(target) THEN target[i] ELSE r[i - Len(target)]
    BY <1>3, <1>5, ConcatProperties
  <2>2. QED
    BY <1>1, <1>4, <2>1
<1>7. ASSUME NEW i \in 1 .. k PROVE t[i] = target[i]
  BY <1>1, <1>6
<1>8. ASSUME NEW i \in 1 .. n - m PROVE t[k + i] = p[m + i]
  <2>1. k + i \in 1 .. k + (n - m) /\ ~(k + i <= k) /\ (k + i) - k = i
    BY <1>1
  <2>2. QED
    BY <1>4, <1>6, <2>1
<1>9. t = Renamed(src, target, p)
  BY <1>1, <1>2, <1>5 DEF Renamed
<1>10. Follows(t, src, target, p)
  BY <1>1, <1>6, <1>7, <1>8 DEF Follows
<1>11. QED
  BY <1>6, <1>9, <1>10

(* Renaming keeps the order of paths.                                      *)
LEMMA RenamedOrder ==
    ASSUME NEW S, NEW src \in Seq(S), NEW target \in Seq(S),
           NEW p \in Seq(S), IsPrefix(src, p), NEW q \in Seq(S), IsPrefix(src, q)
    PROVE  /\ IsPrefix(target, Renamed(src, target, p))
           /\ IsPrefix(Renamed(src, target, p), Renamed(src, target, q)) => IsPrefix(p, q)
           /\ IsStrictPrefix(Renamed(src, target, p), Renamed(src, target, q))
                 => IsStrictPrefix(p, q)
           /\ Renamed(src, target, p) = Renamed(src, target, q) => p = q
           /\ Renamed(src, src, p) = p
           /\ Renamed(src, target, src) = target
<1>1. PICK m \in Nat, k \in Nat, n \in Nat, l \in Nat :
         m = Len(src) /\ k = Len(target) /\ n = Len(p) /\ l = Len(q)
  OBVIOUS
<1>2. /\ m <= n /\ m <= l /\ \A i \in 1 .. m : src[i] = p[i] /\ src[i] = q[i]
  BY <1>1, PrefixMeans
<1>3. PICK u \in Seq(S), v \in Seq(S), w \in Seq(S), z \in Seq(S) :
         /\ u = Renamed(src, target, p) /\ v = Renamed(src, target, q)
         /\ w = Renamed(src, src, p) /\ z = Renamed(src, target, src)
  BY RenamedIs, PrefixOrder
<1>4. /\ Len(u) = k + (n - m) /\ Len(v) = k + (l - m)
      /\ \A i \in 1 .. k : u[i] = target[i] /\ v[i] = target[i]
      /\ \A i \in 1 .. n - m : u[k + i] = p[m + i]
      /\ \A i \in 1 .. l - m : v[k + i] = q[m + i]
  <2>1. Follows(u, src, target, p) /\ Follows(v, src, target, q)
    BY <1>3, RenamedIs
  <2>2. QED
    BY <1>1, <2>1 DEF Follows
<1>5. IsPrefix(target, u)
  BY <1>1, <1>2, <1>4, PrefixMeans
<1>6. ASSUME IsPrefix(u, v) PROVE IsPrefix(p, q)
  <2>1. k + (n - m) <= k + (l - m) /\ \A i \in 1 .. k + (n - m) : u[i] = v[i]
    BY <1>4, <1>6, PrefixMeans
  <2>2. n <= l
    BY <1>2, <2>1
  <2>3. ASSUME NEW j \in 1 .. n, j > m PROVE p[j] = q[j]
    <3>1. PICK i \in Nat : j = m + i /\ 1 <= i
      <4>1. j - m \in Nat /\ j = m + (j - m) /\ 1 <= j - m
        BY <2>3
      <4>2. QED
        BY <4>1
    <3>2. i \in 1 .. n - m /\ i \in 1 .. l - m
      BY <2>2, <2>3, <3>1
    <3>3. k + i \in 1 .. k + (n - m)
      BY <3>2
    <3>4. u[k + i] = p[j] /\ v[k + i] = q[j]
      BY <1>4, <3>1, <3>2
    <3>5. QED
      BY <2>1, <3>3, <3>4
  <2>4. \A j \in 1 .. n : p[j] = q[j]
    BY <1>2, <2>3
  <2>5. QED
    BY <1>1, <2>2, <2>4, PrefixMeans
<1>7. ASSUME IsStrictPrefix(u, v) PROVE IsStrictPrefix(p, q)
  <2>1. IsPrefix(u, v) /\ Len(u) < Len(v)
    BY <1>7, PrefixMeans
  <2>2. n < l
    BY <1>2, <1>4, <2>1
  <2>3. QED
    BY <1>1, <1>6, <2>1, <2>2, PrefixMeans
<1>8. ASSUME u = v PROVE p = q
  <2>1. IsPrefix(u, v) /\ n >= l
    BY <1>2, <1>4, <1>8, PrefixOrder
  <2>2. QED
    BY <1>1, <1>6, <2>1, PrefixMeans
<1>9. w = p
  <2>1. /\ Len(w) = m + (n - m) /\ \A i \in 1 .. m : w[i] = src[i]
        /\ \A i \in 1 .. n - m : w[m + i] = p[m + i]
    <3>1. Follows(w, src, src, p)
      BY <1>3, RenamedIs
    <3>2. QED
      BY <1>1, <3>1 DEF Follows
  <2>2. ASSUME NEW j \in 1 .. n, j > m PROVE w[j] = p[j]
    <3>1. j - m \in 1 .. n - m /\ m + (j - m) = j
      BY <1>2, <2>2
    <3>2. QED
      BY <2>1, <3>1
  <2>3. Len(w) = n /\ \A j \in 1 .. n : w[j] = p[j]
    BY <1>2, <2>1, <2>2
  <2>4. QED
    BY <1>1, <2>3, SeqEqual
<1>10. z = target
  <2>1. Len(z) = k + (m - m) /\ \A i \in 1 .. k : z[i] = target[i]
    <3>1. Follows(z, src, target, src)
      BY <1>3, RenamedIs, PrefixOrder
    <3>2. QED
      BY <1>1, <3>1 DEF Follows
  <2>2. QED
    BY <1>1, <2>1, SeqEqual
<1>11. QED
  BY <1>3, <1>5, <1>6, <1>7, <1>8, <1>9, <1>10

(* The name of p relative to the directory d.                              *)
Rest(d, p) == SubSeq(p, Len(d) + 1, Len(p))

(* It stays the same when files are copied elsewhere.                      *)
LEMMA RestRenamed ==
    ASSUME NEW S, NEW d \in Seq(S), NEW dest \in Seq(S), NEW p \in Seq(S), IsPrefix(d, p)
    PROVE  /\ Rest(dest, Renamed(d, dest, p)) = Rest(d, p)
           /\ dest \o Rest(d, p) = Renamed(d, dest, p)
           /\ d \o Rest(d, p) = p
<1>1. PICK q \in Seq(S) : q = Renamed(d, dest, p) /\ Follows(q, d, dest, p)
  BY RenamedIs
<1>2. IsPrefix(dest, q)
  BY <1>1, RenamedOrder
<1>3. PICK r : r = Rest(d, p)
  OBVIOUS
<1>4. PICK t : t = Rest(dest, q)
  OBVIOUS
<1>5. <<>> \in Seq(S) /\ Len(<<>>) = 0
  OBVIOUS
<1>6. ASSUME NEW e \in Seq(S), NEW x \in Seq(S), IsPrefix(e, x), NEW y, y = Rest(e, x)
      PROVE  /\ y \in Seq(S) /\ Len(y) = Len(x) - Len(e)
             /\ \A i \in 1 .. Len(x) - Len(e) : y[i] = x[Len(e) + i]
  <2>1. PICK z \in Seq(S) : z = Renamed(e, <<>>, x) /\ Follows(z, e, <<>>, x)
    BY <1>5, <1>6, RenamedIs
  <2>2. Len(e) \in Nat /\ Len(x) \in Nat /\ Len(e) <= Len(x)
    BY <1>6, PrefixMeans
  <2>3. Len(z) = Len(x) - Len(e) /\ \A i \in 1 .. Len(x) - Len(e) : z[i] = x[Len(e) + i]
    BY <1>5, <2>1, <2>2 DEF Follows
  <2>4. Rest(e, x) \in Seq(S)
    <3>1. Len(e) + 1 \in Int /\ Len(x) \in Int /\ \A i \in Len(e) + 1 .. Len(x) : x[i] \in S
      BY <2>2
    <3>2. QED
      BY <3>1, SubSeqProperties DEF Rest
  <2>5. z = Rest(e, x)
    <3>1. z = <<>> \o Rest(e, x)
      BY <2>1 DEF Renamed, Rest
    <3>2. QED
      BY <2>4, <3>1, ConcatEmptySeq
  <2>6. QED
    BY <1>6, <2>3, <2>5
<1>7. r = t
  <2>1. PICK n \in Nat, m \in Nat, k \in Nat :
           n = Len(p) /\ m = Len(d) /\ k = Len(dest) /\ m <= n
    <3>1. Len(d) <= Len(p)
      BY PrefixMeans
    <3>2. QED
      BY <3>1
  <2>2. /\ Len(q) = k + (n - m)
        /\ \A i \in 1 .. n - m : q[k + i] = p[m + i]
    BY <1>1, <2>1 DEF Follows
  <2>3. r \in Seq(S) /\ Len(r) = n - m /\ \A i \in 1 .. n - m : r[i] = p[m + i]
    BY <1>3, <1>6, <2>1
  <2>4. t \in Seq(S) /\ Len(t) = Len(q) - k /\ \A i \in 1 .. Len(q) - k : t[i] = q[k + i]
    BY <1>2, <1>4, <1>6, <2>1
  <2>5. Len(q) - k = n - m
    BY <2>1, <2>2
  <2>6. \A i \in 1 .. n - m : t[i] = r[i]
    BY <2>2, <2>3, <2>4, <2>5
  <2>7. QED
    BY <2>3, <2>4, <2>5, <2>6, SeqEqual
<1>8. dest \o Rest(d, p) = Renamed(d, dest, p)
  BY DEF Rest, Renamed
<1>9. d \o Rest(d, p) = p
  <2>1. d \o Rest(d, p) = Renamed(d, d, p)
    BY DEF Rest, Renamed
  <2>2. QED
    BY <2>1, RenamedOrder
<1>10. QED
  BY <1>1, <1>3, <1>4, <1>7, <1>8, <1>9

(* Nothing is below what is not a directory.                               *)
LEMMA WalkNothing ==
    ASSUME NEW t, IsTree(t), NEW d \in Dirs, Lookup(t, d) # DirEntry
    PROVE  WalkTree(t, d) = {}
<1>1. d \in Path /\ t[d] # DirEntry
  BY LookupIs DEF Dirs
<1>2. \A p \in Files(t) : p \in Path /\ t[p] # NoEntry
  BY TreeAssumption DEF Files
<1>3. QED
  BY <1>1, <1>2, InDirectories DEF WalkTree
=============================================================================
