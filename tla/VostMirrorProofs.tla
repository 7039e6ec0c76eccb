--------------------------- MODULE VostMirrorProofs ---------------------------
(***************************************************************************)
(* However many references, requests, packers and other writers there are, *)
(* and wherever a transfer fails, every reference of either repository     *)
(* leads to commits that are stored with their whole history, but for what *)
(* an imported bundle took for granted; a transfer nobody disturbs does    *)
(* what it was asked for, but for what the other repository refuses, and   *)
(* moves nothing else.                                                     *)
(***************************************************************************)
EXTENDS VostMirror, VostInduction, FiniteSetTheorems, TLAPS

-----------------------------------------------------------------------------
(* For any number of handles that pack at once, among any writers: pack()  *)
(* makes no object unreadable, provided that no insertion fails.           *)

PackInv == PackTypeOK /\ PackHasRemoved

(* The number of objects in a pack is a number.                            *)
LEMMA CountType ==
    ASSUME NEW os \in SUBSET Object
    PROVE  Cardinality(os) \in Nat
<1>1. IsFiniteSet(os)
  BY FS_Subset, PackAssumption
<1> QED
  BY <1>1, FS_CardinalityType

(* Without a call under way there is nothing to remove.                    *)
LEMMA PackInitInv == PackInit => PackInv
BY DEF PackInit, PackInv, PackTypeOK, PackHasRemoved, NotPacking

(* Every step of pack() and of the writers around it keeps what pack() is  *)
(* about to remove in a pack: packs only grow.                             *)
LEMMA PackNextInv ==
    ASSUME ~InsertsFail, PackInv, [PackNext]_packVars
    PROVE  PackInv'
<1> USE DEF PackInv, PackTypeOK, PackHasRemoved, NotPacking, Readable
<1>1. ASSUME NEW p \in Packer, CollectOids(p)
      PROVE  PackInv'
  BY <1>1 DEF CollectOids
<1>2. ASSUME NEW p \in Packer, WritePack(p)
      PROVE  PackInv'
  <2>1. packed' = packed \cup packing[p].oids /\ loose' = loose
    BY <1>2 DEF WritePack
  <2>2. PICK n \in Nat :
          packing' = [packing EXCEPT ![p] = IF packing[p].oids = {} THEN NotPacking
                        ELSE [pc |-> "remove", oids |-> packing[p].oids, count |-> n]]
    <3>1. Cardinality(packing[p].oids) \in Nat
      BY CountType
    <3> QED
      BY <1>2, <3>1 DEF WritePack
  <2>3. PackTypeOK'
    BY <2>1, <2>2
  <2>4. PackHasRemoved'
    BY <2>1, <2>2
  <2> QED
    BY <2>3, <2>4
<1>3. ASSUME NEW p \in Packer, RemoveLoose(p)
      PROVE  PackInv'
  BY <1>3 DEF RemoveLoose
<1>4. ASSUME NEW p \in Packer, PackFails(p)
      PROVE  PackInv'
  BY <1>4 DEF PackFails
<1>5. ASSUME NEW os \in SUBSET Object, StoreLoose(os)
      PROVE  PackInv'
  BY <1>5 DEF StoreLoose
<1>6. ASSUME NEW os \in SUBSET Object, StorePack(os)
      PROVE  PackInv'
  BY <1>6 DEF StorePack
<1>7. CASE UNCHANGED packVars
  BY <1>7 DEF packVars
<1> QED
  BY <1>1, <1>2, <1>3, <1>4, <1>5, <1>6, <1>7 DEF PackNext, PackStep

(* A step removes at most a loose file whose object is in a pack.          *)
LEMMA StepKeepsObjects ==
    ASSUME ~InsertsFail, PackInv, [PackNext]_packVars
    PROVE  Readable \subseteq Readable'
<1> USE DEF Readable
<1>1. ASSUME NEW p \in Packer, RemoveLoose(p)
      PROVE  Readable \subseteq Readable'
  <2>1. packing[p].oids \subseteq packed
    BY <1>1 DEF RemoveLoose, PackInv, PackHasRemoved
  <2> QED
    BY <1>1, <2>1 DEF RemoveLoose
<1>2. ASSUME NEW p \in Packer, CollectOids(p) \/ WritePack(p) \/ PackFails(p)
      PROVE  Readable \subseteq Readable'
  BY <1>2 DEF CollectOids, WritePack, PackFails
<1>3. ASSUME NEW os \in SUBSET Object, StoreLoose(os)
      PROVE  Readable \subseteq Readable'
  BY <1>3 DEF StoreLoose
<1>4. ASSUME NEW os \in SUBSET Object, StorePack(os)
      PROVE  Readable \subseteq Readable'
  BY <1>4 DEF StorePack
<1>5. CASE UNCHANGED packVars
  BY <1>5 DEF packVars
<1> QED
  BY <1>1, <1>2, <1>3, <1>4, <1>5 DEF PackNext, PackStep

(* Type correctness, and: while loose files are removed, their objects are *)
(* in a pack, wherever other calls of pack() stand.                        *)
THEOREM PackIsSafe ==
    ASSUME ~InsertsFail
    PROVE  PackSpec => []PackInv
<1>1. PackInit => PackInv
  BY PackInitInv
<1>2. PackInv /\ [PackNext]_packVars => PackInv'
  BY PackNextInv
<1> QED
  BY <1>1, <1>2, PTL DEF PackSpec

(* pack() and gc never make an object unreadable (gitstore.cpp, pack).     *)
THEOREM PackKeepsObjects ==
    ASSUME ~InsertsFail
    PROVE  PackSpec => ObjectsKept
<1>1. PackInv /\ [PackNext]_packVars => [Readable \subseteq Readable']_packVars
  BY StepKeepsObjects
<1>2. PackSpec => []PackInv
  BY PackIsSafe
<1> QED
  BY <1>1, <1>2, PTL DEF PackSpec, ObjectsKept

-----------------------------------------------------------------------------
(* The inductive invariant.                                                *)

(* A set of commits that holds the parent of each that has one.            *)
Closed(par, S) == \A c \in S : par[c] # 0 => par[c] \in S

(* References, finitely many, to commits of S.                             *)
IsTips(f, S) == f \in [DOMAIN f -> S] /\ IsFiniteSet(DOMAIN f)

(* References, or any function.                                            *)
IsFunction(f) == f = [r \in DOMAIN f |-> f[r]]

(* Commits are numbered, parents first.                                    *)
ParentsOK ==
    /\ parent \in Seq(Nat) /\ Len(parent) \in 0 .. Cardinality(Object)
    /\ \A c \in DOMAIN parent : parent[c] < c

(* pack() writes what is there.                                            *)
CollectedOK == \A p \in Packer : packing[p].oids \subseteq Readable

(* The commits stored here and those an imported bundle built on.          *)
Held == Readable \cup gaps

StoresOK ==
    /\ PackInv /\ CollectedOK
    /\ Held \subseteq DOMAIN parent /\ Closed(parent, Held)
    /\ remoteOdb \subseteq DOMAIN parent /\ Closed(parent, remoteOdb)

RefsOK ==
    /\ DOMAIN refs = Side /\ refs = [s \in Side |-> refs[s]]
    /\ \A s \in Side : IsTips(refs[s], Stored(s))

(* A bundle holds histories, up to what it builds on.  One that is being   *)
(* written builds on nothing and has the references of the call that       *)
(* writes it.                                                              *)
Spans == bundle.objects \cup bundle.needs

BundleOK ==
    /\ bundle = [state |-> bundle.state, refs |-> bundle.refs, objects |-> bundle.objects,
                 needs |-> bundle.needs]
    /\ bundle.state \in {"none", "header", "pack", "whole"}
    /\ Spans \subseteq DOMAIN parent /\ Closed(parent, Spans)
    /\ IsTips(bundle.refs, DOMAIN parent)
    /\ bundle.state # "whole" => bundle.needs = {}
    /\ call.pc = "export" => bundle.state \in {"header", "pack"}
    /\ call.pc = "export" /\ bundle.state = "pack" => bundle.refs = call.tips

(* What a call has listed, and is about to give references to, exists.     *)
Fields == {"pc", "op", "kind", "dry_run", "squash", "request", "views", "diff", "tips",
           "deletes", "outcome", "before", "quiet", "reached", "refused"}

CallOK ==
    /\ call = [f \in Fields |-> call[f]]
    /\ call.pc \in {"idle", "list", "transfer", "update", "export"}
    /\ \A v \in DOMAIN call.views : IsTips(call.views[v], DOMAIN parent)
    /\ call.pc \in {"transfer", "list"} => DOMAIN call.views \subseteq Views(call)
    /\ call.pc = "transfer" => DOMAIN call.views = Views(call)
    /\ call.pc \in {"update", "export"} => IsTips(call.tips, DOMAIN parent)

MirrorInv ==
    /\ exists \in BOOLEAN /\ nops \in 0 .. MaxOps
    /\ ParentsOK /\ StoresOK /\ RefsOK /\ BundleOK /\ CallOK

-----------------------------------------------------------------------------
(* Histories.                                                              *)

(* A commit's history is the commit and the history of its parent.         *)
LEMMA AncestryUnfolds ==
    ASSUME ParentsOK
    PROVE  /\ Ancestry(0) = {}
           /\ \A c \in DOMAIN parent : Ancestry(c) = {c} \cup Ancestry(parent[c])
<1> DEFINE n == Len(parent)
           body(f) == [k \in 0 .. n |-> IF k = 0 THEN {} ELSE {k} \cup f[parent[k]]]
           up == CHOOSE f : f = body(f)
           step == [i \in 1 .. n |-> [x \in SUBSET Nat |-> {i} \cup x]]
<1>1. \A c : Ancestry(c) = up[c]
  BY Zenon DEF Ancestry
<1>2. n \in Nat /\ parent \in [1 .. n -> Nat] /\ \A i \in 1 .. n : parent[i] < i
  BY DEF ParentsOK
<1>3. step \in [1 .. n -> [SUBSET Nat -> SUBSET Nat]]
  <2>1. \A i \in 1 .. n : [x \in SUBSET Nat |-> {i} \cup x] \in [SUBSET Nat -> SUBSET Nat]
    BY <1>2
  <2>2. QED
    BY <2>1
<1>4. \A i \in 1 .. n, x \in SUBSET Nat : step[i][x] = {i} \cup x
  OBVIOUS
<1> HIDE DEF step
<1>5. IsRecursion(n, SUBSET Nat, {}, parent, step)
  BY <1>2, <1>3 DEF IsRecursion
<1>6. PICK f : Solves(f, n, SUBSET Nat, {}, parent, step)
  BY <1>5, Recursion
<1>7. f = body(f)
  <2>1. f \in [0 .. n -> SUBSET Nat] /\ f[0] = {}
    BY <1>6 DEF Solves
  <2>2. ASSUME NEW i \in 1 .. n PROVE f[i] = {i} \cup f[parent[i]]
    <3>1. parent[i] \in 0 .. n
      BY <1>2
    <3>2. f[parent[i]] \in SUBSET Nat
      BY <2>1, <3>1
    <3>3. QED
      BY <1>4, <1>6, <3>2 DEF Solves
  <2>3. QED
    BY <1>2, <2>1, <2>2
<1> HIDE DEF body
<1>8. up = body(up)
  BY <1>7, Zenon
<1> HIDE DEF up
<1>9. up[0] = {} /\ \A c \in 1 .. n : up[c] = {c} \cup up[parent[c]]
  BY <1>2, <1>8 DEF body
<1>10. DOMAIN parent = 1 .. n
  BY <1>2
<1>11. QED
  BY <1>1, <1>9, <1>10, Zenon

(* It consists of commits and holds the parent of each.                    *)
LEMMA AncestryClosed ==
    ASSUME ParentsOK, NEW c \in DOMAIN parent
    PROVE  /\ c \in Ancestry(c)
           /\ Ancestry(c) \subseteq DOMAIN parent
           /\ Closed(parent, Ancestry(c))
<1> DEFINE n == Len(parent)
           good(k) == Ancestry(k) \subseteq DOMAIN parent /\ Closed(parent, Ancestry(k))
           T == {k \in 0 .. n : good(k)}
<1>1. n \in Nat /\ DOMAIN parent = 1 .. n /\ \A k \in 1 .. n : parent[k] \in 0 .. n /\ parent[k] < k
  BY DEF ParentsOK
<1>2. ASSUME NEW k \in 0 .. n, \A j \in 0 .. n : j < k => j \in T PROVE k \in T
  <2>1. CASE k = 0
    <3>1. Ancestry(k) = {}
      BY <2>1, AncestryUnfolds
    <3>2. good(k)
      BY <3>1 DEF Closed
    <3>3. QED
      BY <3>2
  <2>2. CASE k # 0
    <3>1. k \in DOMAIN parent /\ parent[k] \in T
      BY <1>1, <1>2, <2>2
    <3>2. Ancestry(k) = {k} \cup Ancestry(parent[k]) /\ good(parent[k])
      BY <3>1, AncestryUnfolds
    <3>3. parent[k] # 0 => parent[k] \in Ancestry(parent[k])
      <4>1. ASSUME parent[k] # 0 PROVE parent[k] \in DOMAIN parent
        BY <1>1, <3>1, <4>1
      <4>2. QED
        BY <4>1, AncestryUnfolds
    <3>4. good(k)
      BY <3>1, <3>2, <3>3 DEF Closed
    <3>5. QED
      BY <3>4
  <2>3. QED
    BY <2>1, <2>2
<1> HIDE DEF T
<1>3. 0 .. n \subseteq T
  BY <1>1, <1>2, StrongInductionUpTo
<1>4. c \in T
  BY <1>1, <1>3
<1>5. c \in Ancestry(c)
  BY AncestryUnfolds
<1>6. QED
  BY <1>4, <1>5 DEF T

(* A closed set has the whole history of what it has.                      *)
LEMMA AncestryWithin ==
    ASSUME ParentsOK, NEW S, S \subseteq DOMAIN parent, Closed(parent, S), NEW c \in S
    PROVE  Ancestry(c) \subseteq S
<1> DEFINE n == Len(parent)
           T == {k \in 0 .. n : k = 0 \/ k \in S => Ancestry(k) \subseteq S}
<1>1. n \in Nat /\ DOMAIN parent = 1 .. n /\ \A k \in 1 .. n : parent[k] \in 0 .. n /\ parent[k] < k
  BY DEF ParentsOK
<1>2. ASSUME NEW k \in 0 .. n, \A j \in 0 .. n : j < k => j \in T PROVE k \in T
  <2>1. CASE k = 0
    BY <2>1, AncestryUnfolds
  <2>2. CASE k # 0 /\ k \in S
    <3>1. parent[k] \in T /\ (parent[k] = 0 \/ parent[k] \in S)
      BY <1>1, <1>2, <2>2 DEF Closed
    <3>2. Ancestry(k) = {k} \cup Ancestry(parent[k])
      BY <1>1, <2>2, AncestryUnfolds
    <3>3. QED
      BY <2>2, <3>1, <3>2
  <2>3. QED
    BY <2>1, <2>2
<1> HIDE DEF T
<1>3. 0 .. n \subseteq T
  BY <1>1, <1>2, StrongInductionUpTo
<1>4. c \in T
  BY <1>1, <1>3
<1>5. QED
  BY <1>4 DEF T

(* The objects sent for some references are their history.                 *)
LEMMA ObjectsClosed ==
    ASSUME ParentsOK, NEW tips, IsTips(tips, DOMAIN parent)
    PROVE  /\ Objects(tips) \subseteq DOMAIN parent
           /\ Closed(parent, Objects(tips))
           /\ IsTips(tips, Objects(tips))
<1>1. \A r \in DOMAIN tips : tips[r] \in DOMAIN parent
  BY DEF IsTips
<1>2. \A r \in DOMAIN tips : /\ tips[r] \in Ancestry(tips[r])
                             /\ Ancestry(tips[r]) \subseteq DOMAIN parent
                             /\ Closed(parent, Ancestry(tips[r]))
  BY <1>1, AncestryClosed
<1>3. Objects(tips) \subseteq DOMAIN parent /\ \A r \in DOMAIN tips : tips[r] \in Objects(tips)
  BY <1>2 DEF Objects
<1>4. Closed(parent, Objects(tips))
  <2> SUFFICES ASSUME NEW c \in Objects(tips), parent[c] # 0 PROVE parent[c] \in Objects(tips)
    BY DEF Closed
  <2>1. PICK r \in DOMAIN tips : c \in Ancestry(tips[r])
    BY DEF Objects
  <2>2. parent[c] \in Ancestry(tips[r])
    BY <1>2, <2>1 DEF Closed
  <2>3. QED
    BY <2>1, <2>2 DEF Objects
<1>5. IsTips(tips, Objects(tips))
  BY <1>3 DEF IsTips
<1>6. QED
  BY <1>3, <1>4, <1>5

-----------------------------------------------------------------------------
(* References.                                                             *)

(* What changes and copies of a set of references refer to.                *)
LEMMA Tips ==
    ASSUME NEW f, NEW S, IsTips(f, S)
    PROVE  /\ \A T : S \subseteq T => IsTips(f, T)
           /\ \A r : \A x \in S : IsTips(With(f, r, x), S)
           /\ \A r : IsTips(Without(f, r), S)
<1>1. \A T : S \subseteq T => IsTips(f, T)
  BY DEF IsTips
<1>2. ASSUME NEW r, NEW x \in S PROVE IsTips(With(f, r, x), S)
  <2>1. DOMAIN With(f, r, x) = DOMAIN f \cup {r}
    BY DEF With
  <2>2. IsFiniteSet(DOMAIN f \cup {r})
    BY FS_AddElement DEF IsTips
  <2>3. With(f, r, x) \in [DOMAIN f \cup {r} -> S]
    BY <1>2 DEF With, IsTips
  <2>4. QED
    BY <2>1, <2>2, <2>3 DEF IsTips
<1>3. ASSUME NEW r PROVE IsTips(Without(f, r), S)
  <2>1. DOMAIN Without(f, r) = DOMAIN f \ {r}
    BY DEF Without
  <2>2. IsFiniteSet(DOMAIN f \ {r})
    BY FS_RemoveElement DEF IsTips
  <2>3. Without(f, r) \in [DOMAIN f \ {r} -> S]
    BY DEF Without, IsTips
  <2>4. QED
    BY <2>1, <2>2, <2>3 DEF IsTips
<1>4. QED
  BY <1>1, <1>2, <1>3

(* A repository without references.                                        *)
LEMMA NoTips == ASSUME NEW S PROVE IsTips(NoRefs, S)
<1>1. DOMAIN NoRefs = {}
  BY DEF NoRefs
<1>2. IsFiniteSet({})
  BY FS_EmptySet
<1>3. NoRefs \in [{} -> S]
  BY DEF NoRefs
<1>4. QED
  BY <1>1, <1>2, <1>3 DEF IsTips

(* References are selected among those available.                          *)
LEMMA SelectedType ==
    ASSUME NEW request, NEW available
    PROVE  DOMAIN Selected(request, available) \subseteq DOMAIN available
<1>1. CASE DOMAIN request.map # {}
  BY <1>1, Zenon DEF Selected
<1>2. CASE DOMAIN request.map = {}
  BY <1>2, Zenon DEF Selected
<1>3. QED
  BY <1>1, <1>2

(* Under new names they refer to the same commits.                         *)
LEMMA CarriedTips ==
    ASSUME NEW S, NEW available, IsTips(available, S),
           NEW selected, DOMAIN selected \subseteq DOMAIN available
    PROVE  IsTips(Carried(selected, available), S)
<1> DEFINE names == {selected[src] : src \in DOMAIN selected}
           g == [src \in DOMAIN selected |-> selected[src]]
<1>1. DOMAIN Carried(selected, available) = names
  BY DEF Carried
<1>2. IsFiniteSet(DOMAIN selected)
  BY FS_Subset DEF IsTips
<1>3. g \in Surjection(DOMAIN selected, names)
  BY DEF Surjection
<1>4. IsFiniteSet(names)
  BY <1>2, <1>3, FS_Surjection, Zenon
<1>5. ASSUME NEW dst \in names
      PROVE  available[CHOOSE src \in DOMAIN selected : selected[src] = dst] \in S
  BY <1>5 DEF IsTips
<1>6. Carried(selected, available) \in [names -> S]
  BY <1>5 DEF Carried
<1>7. QED
  BY <1>1, <1>4, <1>6, Zenon DEF IsTips

(* What a request selects and renames are references to the same commits.  *)
LEMMA RenamedTips ==
    ASSUME NEW S, NEW available, IsTips(available, S), NEW request
    PROVE  IsTips(Renamed(request, available), S)
BY CarriedTips, SelectedType DEF Renamed

-----------------------------------------------------------------------------
(* The repositories only grow.                                             *)

ParentsKept == \A c \in DOMAIN parent : c \in DOMAIN parent' /\ parent'[c] = parent[c]

Grows ==
    /\ ParentsOK' /\ StoresOK' /\ ParentsKept
    /\ Readable \subseteq Readable' /\ remoteOdb \subseteq remoteOdb'

(* pack() leaves what is readable as it is.                                *)
LEMMA PackKeeps ==
    ASSUME ~InsertsFail, StoresOK, NEW p \in Packer, CollectOids(p) \/ PackStep(p)
    PROVE  PackInv' /\ CollectedOK' /\ Readable' = Readable
<1>1. PackInv /\ CollectedOK /\ PackNext
  BY DEF StoresOK, PackNext
<1>2. PackInv' /\ Readable \subseteq Readable'
  BY <1>1, PackNextInv, StepKeepsObjects
<1>3. packing \in [Packer -> [pc : {"idle", "write", "remove"}, oids : SUBSET Object, count : Nat]]
  BY <1>1 DEF PackInv, PackTypeOK
<1>4. CASE CollectOids(p)
  BY <1>1, <1>2, <1>3, <1>4 DEF CollectOids, CollectedOK, Readable
<1>5. CASE WritePack(p)
  <2>1. packed' = packed \cup packing[p].oids /\ loose' = loose
    BY <1>5 DEF WritePack
  <2>2. Readable' = Readable
    BY <1>1, <2>1 DEF CollectedOK, Readable
  <2>3. \A q \in Packer : packing'[q].oids \in {packing[q].oids, {}}
    BY <1>3, <1>5 DEF WritePack, NotPacking
  <2>4. QED
    BY <1>1, <1>2, <2>2, <2>3 DEF CollectedOK
<1>6. CASE RemoveLoose(p)
  <2>1. Readable' = Readable
    BY <1>2, <1>6 DEF RemoveLoose, Readable
  <2>2. \A q \in Packer : packing'[q].oids \subseteq packing[q].oids
    BY <1>3, <1>6 DEF RemoveLoose, NotPacking
  <2>3. QED
    BY <1>1, <1>2, <2>1, <2>2 DEF CollectedOK
<1>7. CASE PackFails(p)
  <2>1. \A q \in Packer : packing'[q].oids \in {packing[q].oids, {}}
    BY <1>3, <1>7 DEF PackFails, NotPacking
  <2>2. QED
    BY <1>1, <1>2, <1>7, <2>1 DEF PackFails, CollectedOK, Readable
<1>8. QED
  BY <1>4, <1>5, <1>6, <1>7 DEF PackStep

(* Storing objects, loose or in a pack, keeps all of pack()'s promises.    *)
LEMMA StoreKeeps ==
    ASSUME ~InsertsFail, StoresOK, NEW os \in SUBSET Object, StoreLoose(os) \/ StorePack(os)
    PROVE  PackInv' /\ CollectedOK' /\ Readable' = Readable \cup os
<1>1. PackNext /\ PackInv
  BY DEF PackNext, StoresOK
<1>2. PackInv'
  BY <1>1, PackNextInv
<1>3. Readable' = Readable \cup os /\ packing' = packing
  BY DEF StoreLoose, StorePack, Readable
<1>4. QED
  BY <1>2, <1>3 DEF CollectedOK, StoresOK

(* Closed sets stay closed when commits are added.                         *)
LEMMA ClosedKept ==
    ASSUME ParentsKept, NEW S, S \subseteq DOMAIN parent, Closed(parent, S)
    PROVE  S \subseteq DOMAIN parent' /\ Closed(parent', S)
BY DEF ParentsKept, Closed

(* Two closed sets make one.                                               *)
LEMMA ClosedUnion ==
    ASSUME NEW par, NEW S, NEW T, Closed(par, S), Closed(par, T)
    PROVE  Closed(par, S \cup T)
BY DEF Closed

(* Stored commits exist.                                                   *)
LEMMA StoredExists ==
    ASSUME StoresOK, NEW s
    PROVE  Stored(s) \subseteq DOMAIN parent
BY DEF StoresOK, Held, Stored

(* Steps that leave the objects alone.                                     *)
LEMMA GrowsNothing ==
    ASSUME MirrorInv, UNCHANGED storeVars
    PROVE  Grows
<1>1. UNCHANGED <<loose, packed, packing, parent, remoteOdb, gaps>>
  BY DEF storeVars, packVars
<1>2. Readable' = Readable /\ Held' = Held
  BY <1>1 DEF Readable, Held
<1>3. ParentsOK' /\ ParentsKept
  BY <1>1 DEF MirrorInv, ParentsOK, ParentsKept
<1>4. PackInv'
  BY <1>1 DEF MirrorInv, StoresOK, PackInv, PackTypeOK, PackHasRemoved
<1>5. StoresOK'
  BY <1>1, <1>2, <1>4 DEF MirrorInv, StoresOK, CollectedOK
<1>6. QED
  BY <1>1, <1>2, <1>3, <1>5 DEF Grows

(* Steps that store a set of objects in this repository, closed but for    *)
(* what is taken for granted, or in the other one.                         *)
LEMMA GrowsLocal ==
    ASSUME ~InsertsFail, MirrorInv, ParentsOK', ParentsKept, remoteOdb' = remoteOdb, NEW os,
           os \subseteq DOMAIN parent', gaps \subseteq gaps', gaps' \subseteq DOMAIN parent',
           Closed(parent', Readable \cup os \cup gaps'),
           StoreLoose(os) \/ StorePack(os)
    PROVE  Grows /\ Readable' = Readable \cup os
<1>1. os \in SUBSET Object
  <2>1. DOMAIN parent' = 1 .. Len(parent') /\ Len(parent') \in 0 .. Cardinality(Object)
    BY DEF ParentsOK
  <2>2. Object = 1 .. Cardinality(Object) /\ Cardinality(Object) \in Nat
    BY MirrorAssumption, PackAssumption, FS_CardinalityType
  <2>3. PICK n : n = Cardinality(Object)
    OBVIOUS
  <2>4. QED
    BY <2>1, <2>2, <2>3
<1>2. PackInv' /\ CollectedOK' /\ Readable' = Readable \cup os
  BY <1>1, StoreKeeps DEF MirrorInv
<1>3. StoresOK'
  <2>1. Held' = Readable \cup os \cup gaps'
    BY <1>2 DEF Held
  <2>2. Readable \subseteq DOMAIN parent'
    BY DEF MirrorInv, StoresOK, Held, ParentsKept
  <2>3. remoteOdb' \subseteq DOMAIN parent' /\ Closed(parent', remoteOdb')
    BY ClosedKept DEF MirrorInv, StoresOK
  <2>4. QED
    BY <1>2, <2>1, <2>2, <2>3 DEF StoresOK
<1>4. QED
  BY <1>2, <1>3 DEF Grows

(* The remote stores more commits, each with its history: the repositories *)
(* have grown.                                                             *)
LEMMA GrowsRemote ==
    ASSUME MirrorInv, ParentsOK', ParentsKept, UNCHANGED <<packVars, gaps>>, NEW os,
           os \subseteq DOMAIN parent', Closed(parent', remoteOdb \cup os),
           remoteOdb' = remoteOdb \cup os
    PROVE  Grows
<1>1. UNCHANGED <<loose, packed, packing, gaps>>
  BY DEF packVars
<1>2. Readable' = Readable /\ Held' = Held
  BY <1>1 DEF Readable, Held
<1>3. PackInv' /\ CollectedOK'
  BY <1>1, <1>2 DEF MirrorInv, StoresOK, PackInv, PackTypeOK, PackHasRemoved, CollectedOK
<1>4. StoresOK'
  BY <1>2, <1>3, ClosedKept DEF MirrorInv, StoresOK
<1>5. QED
  BY <1>2, <1>4 DEF Grows

(* In repositories that grow, references stay good,                        *)
LEMMA RefsKept ==
    ASSUME MirrorInv, Grows
    PROVE  /\ \A s \in Side : IsTips(refs[s], Stored(s)')
           /\ refs' = refs => RefsOK'
<1>1. \A s \in Side : Stored(s) \subseteq Stored(s)'
  BY DEF Stored, Grows
<1>2. \A s \in Side : IsTips(refs[s], Stored(s)')
  BY <1>1, Tips DEF MirrorInv, RefsOK
<1>3. QED
  BY <1>2 DEF MirrorInv, RefsOK

(* a bundle stays good,                                                    *)
LEMMA BundleKept ==
    ASSUME MirrorInv, Grows, bundle' = bundle,
           call'.pc = "export" => call.pc = "export" /\ call'.tips = call.tips
    PROVE  BundleOK'
<1>1. DOMAIN parent \subseteq DOMAIN parent'
  BY DEF Grows, ParentsKept
<1>2. Spans \subseteq DOMAIN parent' /\ Closed(parent', Spans) /\ Spans' = Spans
  BY ClosedKept DEF MirrorInv, BundleOK, Grows, Spans
<1>3. IsTips(bundle.refs, DOMAIN parent')
  BY <1>1, Tips DEF MirrorInv, BundleOK
<1>4. QED
  BY <1>2, <1>3 DEF MirrorInv, BundleOK

(* and so does a call.                                                     *)
LEMMA CallKept ==
    ASSUME MirrorInv, Grows, call' = [f \in Fields |-> call'[f]], call'.pc = call.pc,
           call'.op = call.op, call'.kind = call.kind, call'.views = call.views,
           call'.tips = call.tips
    PROVE  CallOK'
<1>1. DOMAIN parent \subseteq DOMAIN parent'
  BY DEF Grows, ParentsKept
<1>2. \A v \in DOMAIN call.views : IsTips(call.views[v], DOMAIN parent')
  BY <1>1, Tips DEF MirrorInv, CallOK
<1>3. call.pc \in {"update", "export"} => IsTips(call.tips, DOMAIN parent')
  BY <1>1, Tips DEF MirrorInv, CallOK
<1>4. Views(call)' = Views(call)
  BY DEF Views
<1>5. QED
  BY <1>2, <1>3, <1>4 DEF MirrorInv, CallOK

(* Between calls there is nothing a call relies on.                        *)
LEMMA CallEnds ==
    ASSUME call' = [f \in Fields |-> call'[f]], call'.pc = "idle", call'.views = NoRefs
    PROVE  CallOK'
<1>1. DOMAIN NoRefs = {}
  BY DEF NoRefs
<1>2. QED
  BY <1>1 DEF CallOK

-----------------------------------------------------------------------------
(* The steps.                                                              *)

(* What a call's record becomes when it ends.                              *)
LEMMA EndedCall ==
    /\ NoCall = [f \in Fields |-> NoCall[f]] /\ NoCall.pc = "idle" /\ NoCall.views = NoRefs
    /\ Failed = [f \in Fields |-> Failed[f]] /\ Failed.pc = "idle" /\ Failed.views = NoRefs
    /\ \A c : c = [f \in Fields |-> c[f]] =>
          /\ Returned(c) = [f \in Fields |-> Returned(c)[f]]
          /\ Returned(c).pc = "idle" /\ Returned(c).views = NoRefs
<1>1. NoCall = [f \in Fields |-> NoCall[f]] /\ NoCall.pc = "idle" /\ NoCall.views = NoRefs
  BY DEF NoCall, Fields
<1>2. Failed = [f \in Fields |-> Failed[f]] /\ Failed.pc = "idle" /\ Failed.views = NoRefs
  BY <1>1 DEF Failed, Fields
<1>3. ASSUME NEW c, c = [f \in Fields |-> c[f]]
      PROVE  /\ Returned(c) = [f \in Fields |-> Returned(c)[f]]
             /\ Returned(c).pc = "idle" /\ Returned(c).views = NoRefs
  BY <1>3 DEF Returned, Fields
<1>4. QED
  BY <1>1, <1>2, <1>3

(* A call that ends or fails leaves everything as good as it was.          *)
LEMMA EndKeeps ==
    ASSUME MirrorInv, Grows, RefsOK', bundle' = bundle, exists' = exists, nops' \in 0 .. MaxOps,
           call' = [f \in Fields |-> call'[f]], call'.pc = "idle", call'.views = NoRefs
    PROVE  MirrorInv'
<1>1. CallOK'
  BY CallEnds
<1>2. BundleOK'
  BY BundleKept
<1>3. QED
  BY <1>1, <1>2 DEF MirrorInv, Grows

(* A call that begins has listed nothing.                                  *)
LEMMA CallBegins ==
    ASSUME MirrorInv, NEW op, NEW k, NEW q, NEW d, NEW s, Call(op, k, q, d, s)
    PROVE  MirrorInv'
<1>1. Grows /\ RefsOK'
  BY GrowsNothing, RefsKept DEF Call
<1>2. /\ call' = [f \in Fields |-> call'[f]] /\ call'.pc = "list" /\ call'.views = NoRefs
  BY EndedCall DEF Call, Fields
<1>3. CallOK'
  <2>1. DOMAIN NoRefs = {}
    BY DEF NoRefs
  <2>2. QED
    BY <1>2, <2>1 DEF CallOK
<1>4. BundleOK'
  BY <1>1, <1>2, BundleKept DEF Call
<1>5. nops' \in 0 .. MaxOps /\ exists' \in BOOLEAN
  <2>1. nops' \in 0 .. MaxOps
    BY MirrorAssumption DEF Call, Start, MirrorInv
  <2>2. exists' \in BOOLEAN
    BY Zenon DEF Call
  <2>3. QED
    BY <2>1, <2>2
<1>6. QED
  BY <1>1, <1>3, <1>4, <1>5 DEF MirrorInv, Grows

(* Listings name references that there are.                                *)
LEMMA ListStep ==
    ASSUME MirrorInv, ListLocal \/ ListRemote \/ ListRemoteFails
    PROVE  MirrorInv'
<1>1. Grows /\ RefsOK' /\ bundle' = bundle /\ exists' = exists /\ nops' = nops
  BY GrowsNothing, RefsKept DEF ListLocal, ListRemote, ListRemoteFails, repoVars
<1>2. call.pc = "list" /\ nops' \in 0 .. MaxOps /\ call = [f \in Fields |-> call[f]]
  BY <1>1 DEF ListLocal, ListRemote, ListRemoteFails, MirrorInv, CallOK
<1>3. ASSUME call' = Failed PROVE MirrorInv'
  BY <1>1, <1>2, <1>3, EndedCall, EndKeeps
<1>4. ASSUME NEW v \in Views(call), NEW available, IsTips(available, DOMAIN parent),
             call' = [f \in Fields |-> call'[f]], call'.pc = "list",
             call'.op = call.op, call'.kind = call.kind,
             call'.views = With(call.views, v, available)
      PROVE  MirrorInv'
  <2>2. DOMAIN call.views \subseteq Views(call)
    BY <1>2 DEF MirrorInv, CallOK
  <2>3. Views(call)' = Views(call)
    BY <1>4 DEF Views
  <2>4. /\ DOMAIN call'.views = DOMAIN call.views \cup {v}
        /\ \A w \in DOMAIN call'.views :
              call'.views[w] = IF w = v THEN available ELSE call.views[w]
    BY <1>4 DEF With
  <2>5. parent' = parent
    BY DEF ListLocal, ListRemote, ListRemoteFails, repoVars, storeVars
  <2>6. \A w \in DOMAIN call'.views : IsTips(call'.views[w], DOMAIN parent')
    <3>1. \A w \in DOMAIN call.views : IsTips(call.views[w], DOMAIN parent)
      BY DEF MirrorInv, CallOK
    <3>2. QED
      BY <1>4, <2>4, <2>5, <3>1
  <2>7. CallOK'
    BY <1>4, <2>2, <2>3, <2>4, <2>6 DEF CallOK
  <2>8. BundleOK'
    BY <1>1, <1>4, BundleKept
  <2>9. QED
    BY <1>1, <1>2, <2>7, <2>8 DEF MirrorInv, Grows
<1>5. \A s \in Side : IsTips(refs[s], DOMAIN parent)
  <2>1. \A s \in Side : Stored(s) \subseteq DOMAIN parent
    BY StoredExists DEF MirrorInv
  <2>2. QED
    BY <2>1, Tips DEF MirrorInv, RefsOK
<1>6. ASSUME NEW v \in Views(call), NEW available, IsTips(available, DOMAIN parent),
             Listed(v, available)
      PROVE  MirrorInv'
  <2>1. /\ call' = [f \in Fields |-> call'[f]] /\ call'.pc = "list"
        /\ call'.op = call.op /\ call'.kind = call.kind
        /\ call'.views = With(call.views, v, available)
    BY <1>2, <1>6 DEF Listed, Fields
  <2>2. QED
    BY <1>4, <1>6, <2>1
<1>7. CASE ListLocal
  <2>1. PICK v \in Views(call) : Listed(v, refs["local"])
    BY <1>7 DEF ListLocal
  <2>2. QED
    BY <1>5, <1>6, <2>1 DEF Side
<1>8. CASE ListRemote
  <2>1. "remote" \in Views(call)
    BY <1>8 DEF ListRemote
  <2>2. CASE Listed("remote", refs["remote"])
    BY <1>5, <1>6, <2>1, <2>2 DEF Side
  <2>3. CASE Listed("remote", bundle.refs)
    <3>1. IsTips(bundle.refs, DOMAIN parent)
      BY DEF MirrorInv, BundleOK
    <3>2. QED
      BY <1>6, <2>1, <2>3, <3>1
  <2>4. QED
    BY <1>3, <1>8, <2>2, <2>3 DEF ListRemote
<1>9. CASE ListRemoteFails
  <2>1. /\ call' = [f \in Fields |-> call'[f]] /\ call'.pc = "list"
        /\ call'.op = call.op /\ call'.kind = call.kind
        /\ call'.views = With(call.views, "remote", NoRefs)
    BY <1>2, <1>9 DEF ListRemoteFails, Fields
  <2>2. "remote" \in Views(call) /\ IsTips(NoRefs, DOMAIN parent)
    BY <1>9, NoTips DEF ListRemoteFails
  <2>3. QED
    BY <1>4, <2>1, <2>2
<1>10. QED
  BY <1>7, <1>8, <1>9

(* Comparing listings touches nothing.                                     *)
LEMMA CompareStep ==
    ASSUME MirrorInv, Compare
    PROVE  MirrorInv'
<1>1. Grows /\ RefsOK' /\ bundle' = bundle /\ exists' = exists /\ nops' = nops /\ parent' = parent
  BY GrowsNothing, RefsKept DEF Compare, repoVars, storeVars
<1>2. PICK c : c = [call EXCEPT !.diff = DiffOf(call)]
  OBVIOUS
<1>3. call = [f \in Fields |-> call[f]] /\ nops' \in 0 .. MaxOps
  BY <1>1 DEF MirrorInv, CallOK
<1>4. c = [f \in Fields |-> c[f]]
  BY <1>2, <1>3 DEF Fields
<1>5. CASE call' = Returned(c)
  BY <1>1, <1>3, <1>4, <1>5, EndedCall, EndKeeps
<1>6. CASE call' = [c EXCEPT !.pc = "transfer"]
  <2>1. /\ call' = [f \in Fields |-> call'[f]] /\ call'.pc = "transfer"
        /\ call'.op = call.op /\ call'.kind = call.kind /\ call'.views = call.views
    BY <1>2, <1>3, <1>4, <1>6 DEF Fields
  <2>2. Views(call)' = Views(call)
    BY <2>1 DEF Views
  <2>3. CallOK'
    BY <1>1, <2>1, <2>2 DEF Compare, MirrorInv, CallOK
  <2>4. BundleOK'
    BY <1>1, <2>1, BundleKept
  <2>5. QED
    BY <1>1, <1>3, <2>3, <2>4 DEF MirrorInv, Grows
<1>7. QED
  BY <1>2, <1>5, <1>6 DEF Compare

(* Returning and failing.                                                  *)
LEMMA EndStep ==
    ASSUME MirrorInv, Return \/ Fail
    PROVE  MirrorInv'
<1>1. Grows /\ RefsOK' /\ bundle' = bundle /\ exists' = exists /\ nops' = nops
  BY GrowsNothing, RefsKept DEF Return, Fail, repoVars
<1>2. call = [f \in Fields |-> call[f]] /\ nops' \in 0 .. MaxOps
  BY <1>1 DEF MirrorInv, CallOK
<1>3. call' = Returned(call) \/ call' = Failed
  BY DEF Return, Fail
<1>4. QED
  BY <1>1, <1>2, <1>3, EndedCall, EndKeeps

(* A transfer that is ready to move references.                            *)
LEMMA TransferKeeps ==
    ASSUME MirrorInv, Grows, UNCHANGED <<refs, exists, bundle, nops>>,
           call' = [f \in Fields |-> call'[f]], call'.pc = "update", call'.op = call.op,
           call'.views = call.views, IsTips(call'.tips, DOMAIN parent)
    PROVE  MirrorInv'
<1>1. RefsOK' /\ BundleOK'
  BY RefsKept, BundleKept
<1>2. DOMAIN parent \subseteq DOMAIN parent'
  BY DEF Grows, ParentsKept
<1>3. \A v \in DOMAIN call.views : IsTips(call.views[v], DOMAIN parent')
  BY <1>2, Tips DEF MirrorInv, CallOK
<1>4. IsTips(call'.tips, DOMAIN parent')
  BY <1>2, Tips
<1>5. CallOK'
  BY <1>3, <1>4 DEF CallOK
<1>6. QED
  BY <1>1, <1>5 DEF MirrorInv, Grows

(* A push stores what the references it is about to write lead to          *)
(* (mirror_push).                                                          *)
LEMMA PushStep ==
    ASSUME MirrorInv, Push
    PROVE  MirrorInv'
<1>1. PICK tips : tips = Carried(Selected(call.request, call.views["local"]), refs["local"])
  OBVIOUS
<1>2. call = [f \in Fields |-> call[f]] /\ ParentsOK
  BY DEF MirrorInv, CallOK
<1>3. IsTips(tips, DOMAIN parent)
  <2>1. IsTips(refs["local"], DOMAIN parent)
    <3>1. Stored("local") \subseteq DOMAIN parent /\ IsTips(refs["local"], Stored("local"))
      BY StoredExists DEF MirrorInv, RefsOK, Side
    <3>2. QED
      BY <3>1, Tips
  <2>2. DOMAIN Selected(call.request, call.views["local"]) \subseteq DOMAIN refs["local"]
    BY DEF Push
  <2>3. QED
    BY <1>1, <2>1, <2>2, CarriedTips
<1>4. Objects(tips) \subseteq DOMAIN parent /\ Closed(parent, Objects(tips))
  BY <1>2, <1>3, ObjectsClosed
<1>5. /\ call' = [f \in Fields |-> call'[f]] /\ call'.pc = "update" /\ call'.op = call.op
      /\ call'.views = call.views /\ call'.tips = tips /\ call.op = "backup"
  BY <1>1, <1>2 DEF Push, Fields
<1>6. /\ UNCHANGED <<packVars, parent, gaps, refs, exists, bundle, nops>>
      /\ remoteOdb' = remoteOdb \cup Objects(tips)
  BY <1>1 DEF Push
<1>7. ParentsOK' /\ ParentsKept
  BY <1>2, <1>6 DEF ParentsOK, ParentsKept
<1>8. Closed(parent, remoteOdb \cup Objects(tips))
  BY <1>4, ClosedUnion DEF MirrorInv, StoresOK
<1>9. Grows
  BY <1>4, <1>6, <1>7, <1>8, GrowsRemote
<1>10. QED
  BY <1>3, <1>5, <1>6, <1>9, TransferKeeps

(* What references here lead to is stored or was taken for granted.        *)
LEMMA LocalHistory ==
    ASSUME MirrorInv
    PROVE  Objects(refs["local"]) \subseteq Held
<1>1. IsTips(refs["local"], Readable)
  BY DEF MirrorInv, RefsOK, Stored, Side
<1>2. \A r \in DOMAIN refs["local"] : refs["local"][r] \in Held
  BY <1>1 DEF IsTips, Held
<1>3. \A r \in DOMAIN refs["local"] : Ancestry(refs["local"][r]) \subseteq Held
  BY <1>2, AncestryWithin DEF MirrorInv, StoresOK
<1>4. QED
  BY <1>3 DEF Objects

(* Fetching from a repository and importing a bundle.                      *)
LEMMA ReceiveStep ==
    ASSUME ~InsertsFail, MirrorInv, NEW tips, NEW os, IsTips(tips, DOMAIN parent),
           os \subseteq DOMAIN parent, gaps \subseteq gaps', gaps' \subseteq DOMAIN parent,
           Closed(parent, Readable \cup os \cup gaps'),
           StorePack(os), UNCHANGED <<parent, remoteOdb, refs, exists, bundle, nops>>,
           call' = [call EXCEPT !.pc = "update", !.tips = tips]
    PROVE  MirrorInv'
<1>1. call = [f \in Fields |-> call[f]] /\ ParentsOK
  BY DEF MirrorInv, CallOK
<1>2. /\ call' = [f \in Fields |-> call'[f]] /\ call'.pc = "update" /\ call'.op = call.op
      /\ call'.views = call.views /\ call'.tips = tips
  BY <1>1 DEF Fields
<1>3. ParentsOK' /\ ParentsKept
  BY <1>1 DEF ParentsOK, ParentsKept
<1>4. Grows
  BY <1>3, GrowsLocal
<1>5. QED
  BY <1>2, <1>4, TransferKeeps

(* A fetch stores what it lists, unless references here lead to it, before *)
(* a reference is written (restore).                                       *)
LEMMA FetchStep ==
    ASSUME ~InsertsFail, MirrorInv, Fetch
    PROVE  MirrorInv'
<1>1. PICK selected : selected = Selected(call.request, call.views["remote"])
  OBVIOUS
<1>2. PICK kept : kept = Restrict(selected, DOMAIN selected \cap DOMAIN refs["remote"])
  OBVIOUS
<1>3. PICK tips : tips = Carried(kept, refs["remote"])
  OBVIOUS
<1>4. DOMAIN kept \subseteq DOMAIN refs["remote"]
  BY <1>2 DEF Restrict
<1>5. IsTips(refs["remote"], DOMAIN parent)
  <2>1. Stored("remote") \subseteq DOMAIN parent /\ IsTips(refs["remote"], Stored("remote"))
    BY StoredExists DEF MirrorInv, RefsOK, Side
  <2>2. QED
    BY <2>1, Tips
<1>6. IsTips(tips, DOMAIN parent)
  BY <1>3, <1>4, <1>5, CarriedTips
<1>7. Objects(tips) \subseteq DOMAIN parent /\ Closed(parent, Objects(tips))
  BY <1>6, ObjectsClosed DEF MirrorInv
<1>8. PICK os : os = Objects(tips) \ Objects(refs["local"])
  OBVIOUS
<1>9. /\ StorePack(os) /\ call' = [call EXCEPT !.pc = "update", !.tips = tips]
      /\ UNCHANGED <<parent, remoteOdb, gaps, refs, exists, bundle, nops>>
  BY <1>1, <1>2, <1>3, <1>8 DEF Fetch
<1>10. Objects(refs["local"]) \subseteq Held
  BY LocalHistory
<1>11. Closed(parent, Readable \cup os \cup gaps)
  <2>1. Held \cup Objects(tips) = Readable \cup os \cup gaps
    BY <1>8, <1>10 DEF Held
  <2>2. Closed(parent, Held \cup Objects(tips))
    BY <1>7, ClosedUnion DEF MirrorInv, StoresOK
  <2>3. QED
    BY <2>1, <2>2
<1>12. os \subseteq DOMAIN parent /\ gaps \subseteq DOMAIN parent
  BY <1>7, <1>8 DEF MirrorInv, StoresOK, Held
<1>13. QED
  BY <1>6, <1>9, <1>11, <1>12, ReceiveStep

(* An import stores a bundle's objects, among them all that its header     *)
(* names; what it builds on is stored or taken for granted (bundle_import).*)
LEMMA ImportStep ==
    ASSUME ~InsertsFail, MirrorInv, ImportBundle
    PROVE  MirrorInv'
<1>1. PICK tips : tips = Renamed(call.request, bundle.refs)
  OBVIOUS
<1>2. UNCHANGED <<parent, remoteOdb, refs, exists, bundle, nops>> /\ ~Sends(call.op)
  BY DEF ImportBundle
<1>3. CASE call' \in {Returned(call), Failed} /\ UNCHANGED <<packVars, gaps>>
  <2>1. Grows /\ RefsOK'
    BY <1>2, <1>3, GrowsNothing, RefsKept DEF storeVars
  <2>2. nops' \in 0 .. MaxOps /\ call = [f \in Fields |-> call[f]]
    BY <1>2 DEF MirrorInv, CallOK
  <2>3. QED
    BY <1>2, <1>3, <2>1, <2>2, EndedCall, EndKeeps
<1>4. CASE /\ StorePack(bundle.objects) /\ gaps' = gaps \cup (bundle.needs \ Readable)
           /\ call' = [call EXCEPT !.pc = "update", !.tips = tips]
  <2>1. Spans \subseteq DOMAIN parent /\ Closed(parent, Spans) /\ IsTips(bundle.refs, DOMAIN parent)
    BY DEF MirrorInv, BundleOK
  <2>2. IsTips(tips, DOMAIN parent)
    BY <1>1, <2>1, RenamedTips
  <2>3. Closed(parent, Readable \cup bundle.objects \cup gaps')
    <3>1. Held \cup Spans = Readable \cup bundle.objects \cup gaps'
      BY <1>4 DEF Held, Spans
    <3>2. Closed(parent, Held \cup Spans)
      BY <2>1, ClosedUnion DEF MirrorInv, StoresOK
    <3>3. QED
      BY <3>1, <3>2
  <2>4. /\ bundle.objects \subseteq DOMAIN parent
        /\ gaps \subseteq gaps' /\ gaps' \subseteq DOMAIN parent
    BY <1>4, <2>1 DEF MirrorInv, StoresOK, Held, Spans
  <2>5. QED
    BY <1>2, <1>4, <2>2, <2>3, <2>4, ReceiveStep
<1>5. QED
  BY <1>1, <1>3, <1>4 DEF ImportBundle

(* References move to commits that are stored, or go, or are left alone.   *)
LEMMA UpdateStep ==
    ASSUME MirrorInv, UpdateOneRef \/ DeleteOneRef \/ RefuseOneRef
    PROVE  MirrorInv'
<1>1. Grows /\ UNCHANGED <<storeVars, exists, bundle, nops>> /\ call.pc = "update"
  BY GrowsNothing DEF UpdateOneRef, DeleteOneRef, RefuseOneRef, repoVars
<1>2. Target \in Side /\ \A s \in Side : Stored(s)' = Stored(s)
  BY <1>1 DEF Target, Side, Stored, storeVars, packVars, Readable
<1>3. call = [f \in Fields |-> call[f]] /\ IsTips(call.tips, DOMAIN parent)
  BY <1>1 DEF MirrorInv, CallOK
<1>4. ASSUME NEW f, IsTips(f, Stored(Target)), refs' = [refs EXCEPT ![Target] = f]
      PROVE  RefsOK'
  BY <1>2, <1>4 DEF MirrorInv, RefsOK
<1>5. IsTips(refs[Target], Stored(Target))
  BY <1>2 DEF MirrorInv, RefsOK
<1>6. ASSUME NEW r, RefsOK', call' = [f \in Fields |-> call'[f]], call'.pc = "update",
             call'.views = call.views, call'.tips = Without(call.tips, r)
      PROVE  MirrorInv'
  <2>1. parent' = parent
    BY <1>1 DEF storeVars
  <2>2. IsTips(call'.tips, DOMAIN parent)
    BY <1>3, <1>6, Tips
  <2>3. CallOK'
    BY <1>6, <2>1, <2>2 DEF CallOK, MirrorInv
  <2>4. BundleOK'
    BY <1>1, <1>6, BundleKept
  <2>5. QED
    BY <1>1, <1>6, <2>3, <2>4 DEF MirrorInv, Grows
<1>7. CASE UpdateOneRef
  <2>1. PICK r \in DOMAIN call.tips :
           /\ call.tips[r] \in Stored(Target)
           /\ refs' = [refs EXCEPT ![Target] = With(@, r, call.tips[r])]
           /\ call' = [call EXCEPT !.tips = Without(@, r)]
    BY <1>7 DEF UpdateOneRef
  <2>2. RefsOK'
    BY <1>4, <1>5, <2>1, Tips
  <2>3. /\ call' = [f \in Fields |-> call'[f]] /\ call'.pc = "update"
        /\ call'.views = call.views /\ call'.tips = Without(call.tips, r)
    BY <1>1, <1>3, <2>1 DEF Fields
  <2>4. QED
    BY <1>6, <2>2, <2>3
<1>8. CASE RefuseOneRef
  <2>1. PICK r : call' = [call EXCEPT !.tips = Without(@, r), !.deletes = @ \ {r},
                                      !.refused = @ \cup {r}]
    BY <1>8 DEF RefuseOneRef
  <2>2. RefsOK'
    BY <1>1, <1>8, RefsKept DEF RefuseOneRef, repoVars
  <2>3. /\ call' = [f \in Fields |-> call'[f]] /\ call'.pc = "update"
        /\ call'.views = call.views /\ call'.tips = Without(call.tips, r)
    BY <1>1, <1>3, <2>1 DEF Fields
  <2>4. QED
    BY <1>6, <2>2, <2>3
<1>9. CASE DeleteOneRef
  <2>1. PICK r \in call.deletes :
           /\ refs' = [refs EXCEPT ![Target] = Without(@, r)]
           /\ call' = [call EXCEPT !.deletes = @ \ {r}]
    BY <1>9 DEF DeleteOneRef
  <2>2. RefsOK'
    BY <1>4, <1>5, <2>1, Tips
  <2>3. /\ call' = [f \in Fields |-> call'[f]] /\ call'.pc = "update" /\ call'.op = call.op
        /\ call'.kind = call.kind /\ call'.views = call.views /\ call'.tips = call.tips
    BY <1>1, <1>3, <2>1 DEF Fields
  <2>4. CallOK' /\ BundleOK'
    BY <1>1, <2>3, CallKept, BundleKept
  <2>5. QED
    BY <1>1, <2>2, <2>4 DEF MirrorInv, Grows
<1>10. QED
  BY <1>7, <1>8, <1>9

(* The numbers that squashing gives to the commits it makes: the next      *)
(* ones, one for each reference.                                           *)
NextNumbers(n, D, names) == [r \in D |-> n + (CHOOSE i \in DOMAIN names : names[i] = r)]

(* The commits that squashing makes have the next numbers, one for each    *)
(* reference.                                                              *)
LEMMA SquashedNumbers ==
    ASSUME NEW D, IsFiniteSet(D), NEW n \in Nat, NEW names, names = SetToSeq(D),
           NEW squashed, squashed = NextNumbers(n, D, names)
    PROVE  /\ squashed \in [D -> n + 1 .. n + Cardinality(D)]
           /\ {squashed[r] : r \in D} = n + 1 .. n + Cardinality(D)
           /\ Cardinality(D) \in Nat
<1>1. PICK k : k = Cardinality(D)
  OBVIOUS
<1>2. k \in Nat /\ ExistsBijection(1 .. k, D)
  BY <1>1, FS_CardinalityType
<1>3. \E f \in [1 .. k -> D] : IsInjective(f)
  BY <1>2 DEF ExistsBijection, Bijection, Injection
<1>4. names \in [1 .. k -> D] /\ IsInjective(names)
  BY <1>1, <1>3 DEF SetToSeq
<1>5. names \in Injection(1 .. k, D)
  BY <1>4 DEF Injection
<1>6. Cardinality(1 .. k) = k
  BY <1>2, FS_Interval
<1>7. names \in Surjection(1 .. k, D)
  BY <1>1, <1>5, <1>6, FS_Injection
<1>8. \A r \in D : \E i \in 1 .. k : names[i] = r
  BY <1>7 DEF Surjection
<1>9. ASSUME NEW i \in 1 .. k PROVE squashed[names[i]] = n + i
  <2>1. names[i] \in D /\ DOMAIN names = 1 .. k
    BY <1>4
  <2>2. \A j \in 1 .. k : names[j] = names[i] => j = i
    BY <1>4 DEF IsInjective
  <2>3. (CHOOSE j \in 1 .. k : names[j] = names[i]) = i
    BY <2>2
  <2>4. QED
    BY <2>1, <2>3 DEF NextNumbers
<1>10. ASSUME NEW r \in D PROVE squashed[r] \in n + 1 .. n + k
  <2>1. PICK i \in 1 .. k : names[i] = r
    BY <1>8
  <2>2. squashed[r] = n + i
    BY <1>9, <2>1
  <2>3. QED
    BY <1>2, <2>2
<1>11. ASSUME NEW m \in n + 1 .. n + k PROVE \E r \in D : squashed[r] = m
  <2>1. m - n \in 1 .. k /\ n + (m - n) = m
    BY <1>2
  <2>2. names[m - n] \in D /\ squashed[names[m - n]] = m
    BY <1>4, <1>9, <2>1
  <2>3. QED
    BY <2>2
<1>12. QED
  BY <1>1, <1>2, <1>10, <1>11 DEF NextNumbers

(* Squashing adds commits without parents.                                 *)
LEMMA ParentsAdded ==
    ASSUME ParentsOK, NEW k \in Nat, NEW new, new = Len(parent) + 1 .. Len(parent) + k,
           new \subseteq Object, parent' = parent \o [i \in 1 .. k |-> 0]
    PROVE  /\ ParentsOK' /\ ParentsKept /\ new \subseteq DOMAIN parent'
           /\ \A c \in new : parent'[c] = 0
<1> DEFINE zeros == [i \in 1 .. k |-> 0]
<1>1. parent \in Seq(Nat) /\ Len(parent) \in Nat
  BY DEF ParentsOK
<1>2. zeros \in Seq(Nat) /\ Len(zeros) = k
  OBVIOUS
<1>3. \A i \in 1 .. k : zeros[i] = 0
  OBVIOUS
<1> HIDE DEF zeros
<1>4. parent' = parent \o zeros
  BY DEF zeros
<1>5. parent' \in Seq(Nat) /\ Len(parent') = Len(parent) + k
  BY <1>1, <1>2, <1>4
<1>6. \A c \in 1 .. Len(parent) : parent'[c] = parent[c]
  BY <1>1, <1>2, <1>4
<1>7. \A c \in new : parent'[c] = 0
  BY <1>1, <1>2, <1>3, <1>4
<1>8. DOMAIN parent = 1 .. Len(parent) /\ DOMAIN parent' = 1 .. Len(parent) + k
  BY <1>1, <1>5
<1>9. PICK n : n = Cardinality(Object)
  OBVIOUS
<1>10. Object = 1 .. n /\ n \in Nat /\ Len(parent) \in 0 .. n
  BY <1>9, MirrorAssumption, PackAssumption, FS_CardinalityType DEF ParentsOK
<1>11. Len(parent') \in 0 .. n
  <2>1. CASE k = 0
    BY <1>5, <1>10, <2>1
  <2>2. CASE k > 0
    <3>1. Len(parent) + k \in new
      BY <1>1, <2>2
    <3>2. QED
      BY <1>5, <1>10, <3>1
  <2>3. QED
    BY <2>1, <2>2
<1>12. \A c \in DOMAIN parent' : parent'[c] < c
  <2>1. SUFFICES ASSUME NEW c \in 1 .. Len(parent) + k PROVE parent'[c] < c
    BY <1>8
  <2>2. CASE c <= Len(parent)
    <3>1. c \in DOMAIN parent
      BY <1>1, <1>8, <2>2
    <3>2. QED
      BY <1>6, <1>8, <3>1 DEF ParentsOK
  <2>3. CASE c > Len(parent)
    BY <1>1, <1>7, <2>3
  <2>4. QED
    BY <1>1, <2>2, <2>3
<1>13. ParentsOK'
  BY <1>5, <1>9, <1>11, <1>12 DEF ParentsOK
<1>14. QED
  BY <1>1, <1>6, <1>7, <1>8, <1>13 DEF ParentsKept

Values(f) == {f[r] : r \in DOMAIN f}

Zeros(k) == [i \in 1 .. k |-> 0]

(* So it does when a bundle is exported; without squashing none is added.  *)
LEMMA Squashing ==
    ASSUME ParentsOK, NEW tips, IsTips(tips, DOMAIN parent),
           NEW names, names = SetToSeq(DOMAIN tips),
           NEW squashed, squashed = NextNumbers(Len(parent), DOMAIN tips, names),
           NEW new, new = Values(squashed) \/ new = {}, new \subseteq Object,
           parent' = parent \o Zeros(Cardinality(new))
    PROVE  /\ ParentsOK' /\ ParentsKept /\ new \subseteq DOMAIN parent'
           /\ DOMAIN squashed = DOMAIN tips
           /\ \A c \in new : parent'[c] = 0
<1>1. Len(parent) \in Nat /\ DOMAIN parent = 1 .. Len(parent)
  BY DEF ParentsOK
<1>2. IsFiniteSet(DOMAIN tips)
  BY DEF IsTips
<1>3. /\ squashed \in [DOMAIN tips -> Len(parent) + 1 .. Len(parent) + Cardinality(DOMAIN tips)]
      /\ {squashed[r] : r \in DOMAIN tips}
           = Len(parent) + 1 .. Len(parent) + Cardinality(DOMAIN tips)
      /\ Cardinality(DOMAIN tips) \in Nat
  BY <1>1, <1>2, SquashedNumbers
<1>4. PICK k \in Nat : /\ Cardinality(new) = k
                       /\ new = Len(parent) + 1 .. Len(parent) + k
  <2>1. CASE new = Values(squashed)
    <3>1. PICK k \in Nat : k = Cardinality(DOMAIN tips)
      BY <1>3
    <3>2. new = Len(parent) + 1 .. Len(parent) + k
      BY <1>3, <2>1, <3>1 DEF Values
    <3>3. Cardinality(new) = k
      <4>1. Len(parent) + 1 \in Int /\ Len(parent) + k \in Int
        BY <1>1
      <4>2. Cardinality(Len(parent) + 1 .. Len(parent) + k)
              = IF Len(parent) + 1 > Len(parent) + k THEN 0
                ELSE (Len(parent) + k) - (Len(parent) + 1) + 1
        BY <4>1, FS_Interval
      <4>3. QED
        BY <1>1, <3>2, <4>2
    <3>4. QED
      BY <3>2, <3>3
  <2>2. CASE new = {}
    <3>1. Cardinality(new) = 0
      BY <2>2, FS_EmptySet
    <3>2. {} = Len(parent) + 1 .. Len(parent) + 0
      BY <1>1
    <3>3. QED
      BY <2>2, <3>1, <3>2
  <2>3. QED
    BY <2>1, <2>2
<1>5. /\ ParentsOK' /\ ParentsKept /\ new \subseteq DOMAIN parent'
      /\ \A c \in new : parent'[c] = 0
  BY <1>4, ParentsAdded DEF Zeros
<1>6. QED
  BY <1>3, <1>5

(* What an export does first: it fails, or has its tips and, if they are   *)
(* squashed, their new commits.                                            *)
Listing == Renamed(call.request, call.views["local"])

ExportFails == call' = Failed /\ UNCHANGED <<storeVars, bundle>>

ExportTips(squashed, new) ==
    /\ ParentsOK' /\ ParentsKept /\ StoreLoose(new) /\ UNCHANGED <<remoteOdb, gaps>>
    /\ new \subseteq DOMAIN parent' /\ \A c \in new : parent'[c] = 0
    /\ DOMAIN squashed = DOMAIN Listing /\ IsFunction(squashed)
    /\ call.squash => \A r \in DOMAIN squashed : squashed[r] \in new
    /\ bundle' = [NoBundle EXCEPT !.state = "header"]
    /\ call' = [call EXCEPT !.pc = "export",
                            !.tips = IF call.squash THEN squashed ELSE Listing]

(* An export fails before anything is written, or goes on with the listed  *)
(* references or with a new commit for each of them (bundle_export).       *)
LEMMA ExportBegins ==
    ASSUME MirrorInv, ExportBundle
    PROVE  ExportFails \/ \E squashed, new : ExportTips(squashed, new)
<1> DEFINE tips == Renamed(call.request, call.views["local"])
           names == SetToSeq(DOMAIN tips)
           squashed == [r \in DOMAIN tips |->
                          Len(parent) + (CHOOSE i \in DOMAIN names : names[i] = r)]
           new == IF call.squash THEN {squashed[r] : r \in DOMAIN tips} ELSE {}
           Begins == /\ new \subseteq Object
                     /\ parent' = parent \o [i \in 1 .. Cardinality(new) |-> 0]
                     /\ StoreLoose(new)
                     /\ bundle' = [NoBundle EXCEPT !.state = "header"]
                     /\ call' = [call EXCEPT !.pc = "export",
                                             !.tips = IF call.squash THEN squashed ELSE tips]
                     /\ UNCHANGED <<remoteOdb, gaps>>
<1>1. ExportFails \/ Begins
  BY Zenon DEF ExportBundle, ExportFails
<1>2. names = SetToSeq(DOMAIN tips)
  OBVIOUS
<1>3. squashed = NextNumbers(Len(parent), DOMAIN tips, names)
  BY DEF NextNumbers
<1>4. tips = Listing
  BY DEF Listing
<1> HIDE DEF tips, names, squashed
<1>5. /\ call.squash => new = {squashed[r] : r \in DOMAIN tips}
      /\ ~call.squash => new = {}
  OBVIOUS
<1> HIDE DEF new
<1>6. IsTips(tips, DOMAIN parent) /\ ParentsOK
  <2>1. "local" \in DOMAIN call.views
    BY DEF ExportBundle, MirrorInv, CallOK, Views, Sends
  <2>2. IsTips(call.views["local"], DOMAIN parent)
    BY <2>1 DEF MirrorInv, CallOK
  <2>3. QED
    BY <1>4, <2>2, RenamedTips DEF Listing, MirrorInv
<1>7. ASSUME Begins PROVE ExportTips(squashed, new)
  <2>1. PICK ts, ns, sq, os : ts = tips /\ ns = names /\ sq = squashed /\ os = new
    OBVIOUS
  <2>2. /\ IsTips(ts, DOMAIN parent) /\ ns = SetToSeq(DOMAIN ts)
        /\ sq = NextNumbers(Len(parent), DOMAIN ts, ns)
    BY <1>2, <1>3, <1>6, <2>1
  <2>3. os = Values(sq) \/ os = {}
    BY <1>3, <1>5, <2>1 DEF Values, NextNumbers
  <2>4. os \subseteq Object /\ parent' = parent \o Zeros(Cardinality(os))
    BY <1>7, <2>1 DEF Zeros
  <2>5. /\ ParentsOK' /\ ParentsKept /\ os \subseteq DOMAIN parent'
        /\ DOMAIN sq = DOMAIN ts /\ \A c \in os : parent'[c] = 0
    BY <1>6, <2>2, <2>3, <2>4, Squashing
  <2>6. IsFunction(sq)
    BY <2>2 DEF NextNumbers, IsFunction
  <2>7. call.squash => \A r \in DOMAIN squashed : squashed[r] \in new
    BY <1>5, <2>1, <2>5
  <2>8. QED
    BY <1>4, <1>7, <2>1, <2>5, <2>6, <2>7 DEF ExportTips
<1>8. QED
  BY <1>1, <1>7

(* The bundle is cut off; the references to write are those listed, or     *)
(* squashed ones.                                                          *)
LEMMA ExportStep ==
    ASSUME ~InsertsFail, MirrorInv, ExportBundle
    PROVE  MirrorInv'
<1>1. UNCHANGED <<refs, exists, nops>> /\ call.pc = "transfer" /\ call.kind = "bundle" /\ Sends(call.op)
  BY DEF ExportBundle
<1>2. call = [f \in Fields |-> call[f]] /\ nops' \in 0 .. MaxOps
  BY <1>1 DEF MirrorInv, CallOK
<1>3. IsTips(Listing, DOMAIN parent)
  <2>1. "local" \in DOMAIN call.views
    BY <1>1 DEF MirrorInv, CallOK, Views, Sends
  <2>2. IsTips(call.views["local"], DOMAIN parent)
    BY <2>1 DEF MirrorInv, CallOK
  <2>3. QED
    BY <2>2, RenamedTips DEF Listing
<1>4. CASE ExportFails
  <2>1. Grows /\ RefsOK'
    BY <1>1, <1>4, GrowsNothing, RefsKept DEF ExportFails
  <2>2. QED
    BY <1>1, <1>2, <1>4, <2>1, EndedCall, EndKeeps DEF ExportFails
<1>5. ASSUME NEW squashed, NEW new, ExportTips(squashed, new) PROVE MirrorInv'
  <2>1. /\ ParentsOK' /\ ParentsKept /\ StoreLoose(new) /\ UNCHANGED <<remoteOdb, gaps>>
        /\ new \subseteq DOMAIN parent' /\ \A c \in new : parent'[c] = 0
    BY <1>5 DEF ExportTips
  <2>2. Closed(parent', Readable \cup new \cup gaps') /\ gaps' \subseteq DOMAIN parent'
    <3>1. Held \subseteq DOMAIN parent' /\ Closed(parent', Held)
      BY <2>1, ClosedKept DEF MirrorInv, StoresOK
    <3>2. QED
      BY <2>1, <3>1 DEF Closed, Held
  <2>3. Grows
    BY <2>1, <2>2, GrowsLocal
  <2>4. RefsOK'
    BY <1>1, <2>3, RefsKept
  <2>5. /\ call' = [f \in Fields |-> call'[f]] /\ call'.pc = "export"
        /\ call'.views = call.views
        /\ call'.tips = IF call.squash THEN squashed ELSE Listing
    BY <1>2, <1>5 DEF Fields, ExportTips
  <2>6. DOMAIN parent \subseteq DOMAIN parent'
    BY <2>1 DEF ParentsKept
  <2>7. IsTips(call'.tips, DOMAIN parent')
    <3>1. CASE call.squash
      <4>1. \A r \in DOMAIN squashed : squashed[r] \in DOMAIN parent'
        BY <1>5, <2>1, <3>1 DEF ExportTips
      <4>2. IsFunction(squashed) /\ IsFiniteSet(DOMAIN squashed)
        BY <1>3, <1>5 DEF IsTips, ExportTips
      <4>3. IsTips(squashed, DOMAIN parent')
        BY <4>1, <4>2 DEF IsTips, IsFunction
      <4>4. QED
        BY <2>5, <3>1, <4>3
    <3>2. CASE ~call.squash
      BY <1>3, <2>5, <2>6, <3>2, Tips
    <3>3. QED
      BY <3>1, <3>2
  <2>8. \A v \in DOMAIN call.views : IsTips(call.views[v], DOMAIN parent')
    BY <2>6, Tips DEF MirrorInv, CallOK
  <2>9. CallOK'
    BY <2>5, <2>7, <2>8 DEF CallOK
  <2>10. BundleOK'
    <3>1. bundle' = [state |-> "header", refs |-> NoRefs, objects |-> {}, needs |-> {}]
      BY <1>5 DEF ExportTips, NoBundle
    <3>2. /\ bundle'.state = "header" /\ bundle'.refs = NoRefs /\ bundle'.objects = {}
          /\ bundle'.needs = {}
      BY <3>1
    <3>3. IsTips(NoRefs, DOMAIN parent')
      BY NoTips
    <3>4. QED
      BY <3>1, <3>2, <3>3 DEF BundleOK, Spans, Closed
  <2>11. QED
    BY <1>1, <1>2, <2>3, <2>4, <2>9, <2>10 DEF MirrorInv, Grows
<1>6. QED
  BY <1>4, <1>5, ExportBegins

(* Writing the bundle's header and pack, here or at the other repository.  *)
LEMMA BundleStep ==
    ASSUME MirrorInv, NEW base, WriteHeader \/ WriteBundlePack \/ OtherExport(base)
    PROVE  MirrorInv'
<1>1. Grows /\ RefsOK' /\ UNCHANGED <<storeVars, refs, exists>> /\ parent' = parent
  BY GrowsNothing, RefsKept DEF WriteHeader, WriteBundlePack, OtherExport, storeVars
<1>2. call = [f \in Fields |-> call[f]] /\ exists' \in BOOLEAN
  BY <1>1 DEF MirrorInv, CallOK
<1>3. /\ bundle = [state |-> bundle.state, refs |-> bundle.refs, objects |-> bundle.objects,
                   needs |-> bundle.needs]
      /\ nops' \in 0 .. MaxOps
  BY MirrorAssumption DEF MirrorInv, BundleOK, WriteHeader, WriteBundlePack, OtherExport, Start
<1>4. ASSUME NEW tips, IsTips(tips, DOMAIN parent), call'.pc = "idle",
             NEW os, NEW needs, os \cup needs = Objects(tips),
             bundle' = [state |-> "whole", refs |-> tips, objects |-> os, needs |-> needs]
      PROVE  BundleOK'
  <2>1. Objects(tips) \subseteq DOMAIN parent /\ Closed(parent, Objects(tips))
    BY <1>4, ObjectsClosed DEF MirrorInv
  <2>2. /\ bundle'.state = "whole" /\ bundle'.refs = tips /\ bundle'.objects = os
        /\ bundle'.needs = needs
    BY <1>4
  <2>3. QED
    BY <1>1, <1>4, <2>1, <2>2 DEF BundleOK, Spans
<1>5. CASE WriteHeader
  <2>1. call' = call /\ call.pc = "export" /\ bundle' = [bundle EXCEPT !.state = "pack", !.refs = call.tips]
    BY <1>5 DEF WriteHeader
  <2>2. IsTips(call.tips, DOMAIN parent)
    BY <2>1 DEF MirrorInv, CallOK
  <2>3. bundle' = [state |-> "pack", refs |-> call.tips, objects |-> bundle.objects,
                   needs |-> bundle.needs]
    BY <1>3, <2>1
  <2>4. BundleOK'
    <3>1. /\ bundle'.state = "pack" /\ bundle'.refs = call.tips
          /\ bundle'.objects = bundle.objects /\ bundle'.needs = bundle.needs
      BY <2>3
    <3>2. Spans \subseteq DOMAIN parent /\ Closed(parent, Spans) /\ Spans' = Spans
      BY <3>1 DEF MirrorInv, BundleOK, Spans
    <3>3. bundle.needs = {}
      BY <1>5 DEF WriteHeader, MirrorInv, BundleOK
    <3>4. QED
      BY <1>1, <2>1, <2>2, <2>3, <3>1, <3>2, <3>3 DEF BundleOK
  <2>5. CallOK'
    BY <1>1, <1>2, <2>1, CallKept
  <2>6. QED
    BY <1>1, <1>2, <1>3, <2>4, <2>5 DEF MirrorInv, Grows
<1>6. CASE WriteBundlePack
  <2>1. PICK c : c = [call EXCEPT !.tips = NoRefs]
    OBVIOUS
  <2>2. c = [f \in Fields |-> c[f]] /\ call' = Returned(c)
    BY <1>2, <1>6, <2>1 DEF WriteBundlePack, Fields
  <2>3. /\ bundle' = [bundle EXCEPT !.state = "whole", !.objects = Objects(call.tips)]
        /\ call.pc = "export" /\ bundle.state = "pack"
    BY <1>6 DEF WriteBundlePack, PackedHistory
  <2>4. bundle.refs = call.tips /\ IsTips(call.tips, DOMAIN parent) /\ bundle.needs = {}
    BY <2>3 DEF MirrorInv, BundleOK, CallOK
  <2>5. bundle' = [state |-> "whole", refs |-> call.tips, objects |-> Objects(call.tips),
                   needs |-> {}]
    BY <1>3, <2>3, <2>4
  <2>6. CallOK' /\ call'.pc = "idle"
    BY <2>2, EndedCall, CallEnds
  <2>7. QED
    BY <1>1, <1>2, <1>3, <1>4, <2>4, <2>5, <2>6 DEF MirrorInv, Grows
<1>7. CASE OtherExport(base)
  <2>1. IsTips(refs["remote"], DOMAIN parent)
    <3>1. Stored("remote") \subseteq DOMAIN parent /\ IsTips(refs["remote"], Stored("remote"))
      BY StoredExists DEF MirrorInv, RefsOK, Side
    <3>2. QED
      BY <3>1, Tips
  <2>2. PICK new : new = {r \in DOMAIN refs["remote"] : refs["remote"][r] \notin Ancestry(base)}
    OBVIOUS
  <2>3. PICK tips : tips = Restrict(refs["remote"], new)
    OBVIOUS
  <2>4. call' = NoCall /\ bundle' = [state |-> "whole", refs |-> tips,
                                     objects |-> Objects(tips) \ Ancestry(base),
                                     needs |-> Objects(tips) \cap Ancestry(base)]
    BY <1>7, <2>2, <2>3 DEF OtherExport, PackedHistory
  <2>5. IsTips(tips, DOMAIN parent)
    <3>1. new \subseteq DOMAIN refs["remote"]
      BY <2>2
    <3>2. IsFiniteSet(new)
      BY <2>1, <3>1, FS_Subset DEF IsTips
    <3>3. DOMAIN tips = new /\ tips \in [new -> DOMAIN parent]
      BY <2>1, <2>3, <3>1 DEF IsTips, Restrict
    <3>4. QED
      BY <3>2, <3>3 DEF IsTips
  <2>6. CallOK' /\ call'.pc = "idle"
    BY <2>4, EndedCall, CallEnds
  <2>7. QED
    BY <1>1, <1>2, <1>3, <1>4, <2>4, <2>5, <2>6 DEF MirrorInv, Grows
<1>8. QED
  BY <1>5, <1>6, <1>7

(* A bundle from elsewhere touches no repository; its commits are new.     *)
LEMMA ForeignStep ==
    ASSUME MirrorInv, NEW r, ForeignBundle(r)
    PROVE  MirrorInv'
<1>1. PICK n : n = Len(parent)
  OBVIOUS
<1>2. /\ n + 2 \in Object /\ parent' = parent \o <<0, n + 1>> /\ call' = NoCall
      /\ bundle' = [state |-> "whole", refs |-> With(NoRefs, r, n + 2),
                    objects |-> {n + 2}, needs |-> {n + 1}]
      /\ UNCHANGED <<packVars, remoteOdb, gaps, refs, exists>> /\ nops' \in 0 .. MaxOps
  BY <1>1, MirrorAssumption DEF ForeignBundle, Start, MirrorInv
<1>3. /\ parent \in Seq(Nat) /\ n \in Nat /\ DOMAIN parent = 1 .. n
      /\ \A c \in DOMAIN parent : parent[c] < c
  BY <1>1 DEF MirrorInv, ParentsOK
<1>4. /\ parent' \in Seq(Nat) /\ Len(parent') = n + 2 /\ DOMAIN parent' = 1 .. n + 2
      /\ parent'[n + 1] = 0 /\ parent'[n + 2] = n + 1
      /\ \A c \in DOMAIN parent : parent'[c] = parent[c]
  BY <1>1, <1>2, <1>3
<1>5. ParentsOK' /\ ParentsKept
  <2>1. PICK k : k = Cardinality(Object)
    OBVIOUS
  <2>2. Object = 1 .. k /\ k \in Nat
    BY <2>1, MirrorAssumption, PackAssumption, FS_CardinalityType
  <2>3. Len(parent') \in 0 .. k
    BY <1>2, <1>3, <1>4, <2>2
  <2>4. \A c \in 1 .. n + 2 : c \in DOMAIN parent \/ c = n + 1 \/ c = n + 2
    BY <1>3
  <2>5. \A c \in DOMAIN parent' : parent'[c] < c
    BY <1>3, <1>4, <2>4
  <2>6. DOMAIN parent \subseteq DOMAIN parent'
    BY <1>3, <1>4
  <2>7. QED
    BY <1>4, <2>1, <2>3, <2>5, <2>6 DEF ParentsOK, ParentsKept
<1>6. Grows
  <2>1. PICK os : os = {}
    OBVIOUS
  <2>2. remoteOdb = remoteOdb \cup os /\ os \subseteq DOMAIN parent'
    BY <2>1
  <2>3. Closed(parent', remoteOdb \cup os)
    BY <1>5, <2>2, ClosedKept DEF MirrorInv, StoresOK
  <2>4. UNCHANGED <<packVars, gaps>> /\ remoteOdb' = remoteOdb \cup os
    BY <1>2, <2>2
  <2>5. QED
    BY <1>5, <2>2, <2>3, <2>4, GrowsRemote
<1>7. RefsOK' /\ CallOK' /\ call'.pc = "idle"
  BY <1>2, <1>6, RefsKept, EndedCall, CallEnds
<1>8. BundleOK'
  <2>1. /\ bundle'.state = "whole" /\ bundle'.refs = With(NoRefs, r, n + 2)
        /\ bundle'.objects = {n + 2} /\ bundle'.needs = {n + 1}
    BY <1>2
  <2>2. n + 1 \in DOMAIN parent' /\ n + 2 \in DOMAIN parent'
    BY <1>3, <1>4
  <2>3. IsTips(bundle'.refs, DOMAIN parent')
    BY <2>1, <2>2, NoTips, Tips
  <2>4. Spans' = {n + 1, n + 2} /\ Closed(parent', Spans')
    BY <1>4, <2>1 DEF Spans, Closed
  <2>5. QED
    BY <1>2, <1>7, <2>1, <2>2, <2>3, <2>4 DEF BundleOK
<1>9. QED
  BY <1>2, <1>6, <1>7, <1>8 DEF MirrorInv, Grows

(* Somebody else's step leaves the call where it is.                       *)
LEMMA DisturbKeeps ==
    ASSUME MirrorInv, Grows, Disturb, bundle' = bundle
    PROVE  CallOK' /\ BundleOK'
<1>1. call = [f \in Fields |-> call[f]]
  BY DEF MirrorInv, CallOK
<1>2. CASE call' = NoCall
  BY <1>2, EndedCall, CallEnds, BundleKept
<1>3. CASE call' = [call EXCEPT !.quiet = FALSE]
  <2>1. /\ call' = [f \in Fields |-> call'[f]] /\ call'.pc = call.pc /\ call'.op = call.op
        /\ call'.kind = call.kind /\ call'.views = call.views /\ call'.tips = call.tips
    BY <1>1, <1>3 DEF Fields
  <2>2. QED
    BY <2>1, CallKept, BundleKept
<1>4. QED
  BY <1>2, <1>3 DEF Disturb

(* pack(), on this handle or another.                                      *)
LEMMA PackingStep ==
    ASSUME ~InsertsFail, MirrorInv, NEW p \in Packer, Pack(p) \/ PackOn(p)
    PROVE  MirrorInv'
<1>1. /\ CollectOids(p) \/ PackStep(p)
      /\ UNCHANGED <<parent, remoteOdb, gaps, refs, exists, bundle, call>>
      /\ nops' \in 0 .. MaxOps
  BY MirrorAssumption DEF Pack, PackOn, Start, MirrorInv
<1>2. PackInv' /\ CollectedOK' /\ Readable' = Readable /\ Held' = Held
  BY <1>1, PackKeeps DEF MirrorInv, Held
<1>3. ParentsOK' /\ ParentsKept
  BY <1>1 DEF MirrorInv, ParentsOK, ParentsKept
<1>4. Grows
  BY <1>1, <1>2, <1>3 DEF MirrorInv, StoresOK, Grows
<1>5. RefsOK' /\ BundleOK' /\ CallOK'
  BY <1>1, <1>4, RefsKept, BundleKept, CallKept DEF MirrorInv, CallOK
<1>6. QED
  BY <1>1, <1>4, <1>5 DEF MirrorInv, Grows

(* A commit of another process goes where its parent is.                   *)
LEMMA OtherCommitStep ==
    ASSUME ~InsertsFail, MirrorInv, NEW side \in Side, NEW r, OtherCommit(side, r)
    PROVE  MirrorInv'
<1>1. PICK new : new = Len(parent) + 1
  OBVIOUS
<1>2. PICK old : old = IF r \in DOMAIN refs[side] THEN refs[side][r] ELSE 0
  OBVIOUS
<1>3. /\ new \in Object /\ parent' = Append(parent, old)
      /\ \/ side = "local" /\ StoreLoose({new}) /\ UNCHANGED remoteOdb
         \/ side = "remote" /\ remoteOdb' = remoteOdb \cup {new} /\ UNCHANGED packVars
      /\ refs' = [refs EXCEPT ![side] = With(@, r, new)]
      /\ Disturb /\ UNCHANGED <<gaps, exists, bundle>> /\ nops' \in 0 .. MaxOps
  BY <1>1, <1>2, MirrorAssumption DEF OtherCommit, Side, Start, MirrorInv
<1>4. /\ parent \in Seq(Nat) /\ Len(parent) \in Nat /\ DOMAIN parent = 1 .. Len(parent)
      /\ \A c \in DOMAIN parent : parent[c] < c
  BY DEF MirrorInv, ParentsOK
<1>5. Stored(side) \subseteq DOMAIN parent
  BY StoredExists DEF MirrorInv
<1>6. old = 0 \/ old \in Stored(side)
  BY <1>2 DEF MirrorInv, RefsOK, IsTips
<1>7. old \in 0 .. Len(parent)
  BY <1>4, <1>5, <1>6
<1>8. /\ parent' \in Seq(Nat) /\ Len(parent') = new /\ DOMAIN parent' = 1 .. new
      /\ parent'[new] = old /\ \A c \in DOMAIN parent : parent'[c] = parent[c]
  BY <1>1, <1>3, <1>4, <1>7
<1>9. ParentsOK' /\ ParentsKept
  <2>1. PICK n : n = Cardinality(Object)
    OBVIOUS
  <2>2. Object = 1 .. n /\ n \in Nat
    BY <2>1, MirrorAssumption, PackAssumption, FS_CardinalityType
  <2>3. Len(parent') \in 0 .. n
    BY <1>3, <1>8, <2>2
  <2>4. \A c \in 1 .. new : c \in DOMAIN parent \/ c = new
    BY <1>1, <1>4
  <2>5. old < new
    BY <1>1, <1>4, <1>7
  <2>6. \A c \in DOMAIN parent' : parent'[c] < c
    BY <1>4, <1>8, <2>4, <2>5
  <2>7. ParentsOK'
    BY <1>8, <2>1, <2>3, <2>6 DEF ParentsOK
  <2>8. DOMAIN parent \subseteq DOMAIN parent'
    BY <1>1, <1>4, <1>8
  <2>9. QED
    BY <1>8, <2>7, <2>8 DEF ParentsKept
<1>10. {new} \subseteq DOMAIN parent'
  BY <1>1, <1>4, <1>8
<1>11. ASSUME NEW S, Stored(side) \subseteq S, S \subseteq DOMAIN parent, Closed(parent, S)
       PROVE  S \subseteq DOMAIN parent' /\ Closed(parent', S \cup {new})
  <2>1. S \subseteq DOMAIN parent' /\ Closed(parent', S)
    BY <1>9, <1>11, ClosedKept
  <2>2. QED
    BY <1>6, <1>8, <1>11, <2>1 DEF Closed
<1>12. Grows /\ Stored(side) \cup {new} \subseteq Stored(side)'
  <2>1. CASE side = "local" /\ StoreLoose({new}) /\ UNCHANGED remoteOdb
    <3>1. Stored(side) \subseteq Held /\ Held \subseteq DOMAIN parent /\ Closed(parent, Held)
      BY <2>1 DEF MirrorInv, StoresOK, Stored, Held
    <3>2. Held \subseteq DOMAIN parent' /\ Closed(parent', Held \cup {new})
      BY <1>11, <3>1
    <3>3. Held \cup {new} = Readable \cup {new} \cup gaps'
      BY <1>3 DEF Held
    <3>4. gaps \subseteq gaps' /\ gaps' \subseteq DOMAIN parent'
      BY <1>3, <3>2 DEF Held
    <3>5. Grows /\ Readable' = Readable \cup {new}
      BY <1>9, <1>10, <2>1, <3>2, <3>3, <3>4, GrowsLocal
    <3>6. QED
      BY <2>1, <3>5 DEF Stored
  <2>2. CASE side = "remote" /\ remoteOdb' = remoteOdb \cup {new} /\ UNCHANGED packVars
    <3>1. Closed(parent', remoteOdb \cup {new})
      BY <1>11, <2>2 DEF MirrorInv, StoresOK, Stored
    <3>2. Grows
      BY <1>3, <1>9, <1>10, <2>2, <3>1, GrowsRemote
    <3>3. QED
      BY <2>2, <3>2 DEF Stored
  <2>3. QED
    BY <1>3, <2>1, <2>2
<1>13. RefsOK'
  <2>1. \A s \in Side : IsTips(refs[s], Stored(s)')
    BY <1>12, RefsKept
  <2>2. PICK f : f = With(refs[side], r, new)
    OBVIOUS
  <2>3. IsTips(f, Stored(side)')
    BY <1>12, <2>1, <2>2, Tips
  <2>4. refs' = [refs EXCEPT ![side] = f]
    BY <1>3, <2>2
  <2>5. QED
    BY <2>1, <2>3, <2>4 DEF MirrorInv, RefsOK
<1>14. QED
  BY <1>3, <1>9, <1>12, <1>13, DisturbKeeps DEF MirrorInv, Grows

(* A deletion by another process leaves the other references complete.     *)
LEMMA OtherDeleteStep ==
    ASSUME MirrorInv, NEW side \in Side, NEW r, OtherDelete(side, r)
    PROVE  MirrorInv'
<1>1. /\ refs' = [refs EXCEPT ![side] = Without(@, r)] /\ Disturb
      /\ UNCHANGED <<storeVars, exists, bundle>> /\ nops' \in 0 .. MaxOps
  BY MirrorAssumption DEF OtherDelete, Start, MirrorInv
<1>2. Grows
  BY <1>1, GrowsNothing
<1>3. \A s \in Side : IsTips(refs[s], Stored(s)')
  BY <1>2, RefsKept
<1>4. PICK f : f = Without(refs[side], r)
  OBVIOUS
<1>5. IsTips(f, Stored(side)')
  BY <1>3, <1>4, Tips
<1>6. RefsOK'
  BY <1>1, <1>3, <1>4, <1>5 DEF MirrorInv, RefsOK
<1>7. QED
  BY <1>1, <1>2, <1>6, DisturbKeeps DEF MirrorInv, Grows

-----------------------------------------------------------------------------
(* The theorems.                                                           *)

(* Two empty repositories and no bundle.                                   *)
LEMMA InitMirrorInv == Init => MirrorInv
<1> SUFFICES ASSUME Init PROVE MirrorInv
  OBVIOUS
<1>1. PICK n : n = Cardinality(Object)
  OBVIOUS
<1>2. n \in Nat
  BY <1>1, PackAssumption, FS_CardinalityType
<1>3. ParentsOK
  <2>1. parent = <<>>
    BY DEF Init
  <2>2. parent \in Seq(Nat) /\ Len(parent) = 0 /\ DOMAIN parent = {}
    BY <2>1
  <2>3. Len(parent) \in 0 .. n
    BY <1>2, <2>2
  <2>4. QED
    BY <1>1, <2>2, <2>3 DEF ParentsOK
<1>4. StoresOK
  <2>1. PackInv
    BY PackInitInv DEF Init
  <2>2. Held = {} /\ remoteOdb = {} /\ CollectedOK
    BY DEF Init, PackInit, Readable, Held, CollectedOK, NotPacking
  <2>3. QED
    BY <2>1, <2>2 DEF StoresOK, Closed
<1>5. RefsOK
  BY NoTips DEF Init, RefsOK
<1>6. CallOK
  <2>1. DOMAIN NoRefs = {}
    BY DEF NoRefs
  <2>2. call = NoCall
    BY DEF Init
  <2>3. QED
    BY <2>1, <2>2, EndedCall DEF CallOK
<1>7. BundleOK
  <2>1. /\ call.pc = "idle"
        /\ bundle = [state |-> "none", refs |-> NoRefs, objects |-> {}, needs |-> {}]
    BY EndedCall DEF Init, NoBundle
  <2>2. /\ bundle.state = "none" /\ bundle.refs = NoRefs /\ bundle.objects = {}
        /\ bundle.needs = {}
    BY <2>1
  <2>3. QED
    BY <2>1, <2>2, NoTips DEF BundleOK, Spans, Closed
<1>8. exists \in BOOLEAN /\ nops \in 0 .. MaxOps
  BY MirrorAssumption DEF Init
<1>9. QED
  BY <1>3, <1>4, <1>5, <1>6, <1>7, <1>8 DEF MirrorInv

(* Every step of a transfer, of pack() and of other processes keeps it.    *)
LEMMA NextMirrorInv ==
    ASSUME ~InsertsFail, MirrorInv, [Next]_vars
    PROVE  MirrorInv'
<1>1. ASSUME UNCHANGED vars PROVE MirrorInv'
  <2>1. UNCHANGED <<storeVars, refs, exists, bundle, call, nops>>
    BY <1>1 DEF vars, repoVars
  <2>2. Grows /\ RefsOK'
    BY <2>1, GrowsNothing, RefsKept
  <2>3. CallOK' /\ BundleOK'
    BY <2>1, <2>2, CallKept, BundleKept DEF MirrorInv, CallOK
  <2>4. QED
    BY <2>1, <2>2, <2>3 DEF MirrorInv, Grows
<1>2. ASSUME NEW op, NEW k, NEW q, NEW d, NEW s, Call(op, k, q, d, s) PROVE MirrorInv'
  BY <1>2, CallBegins
<1>3. ASSUME NEW p \in Packer, Pack(p) \/ PackOn(p) PROVE MirrorInv'
  BY <1>3, PackingStep
<1>4. ASSUME NEW s \in Side, NEW r, OtherCommit(s, r) \/ OtherDelete(s, r) PROVE MirrorInv'
  BY <1>4, OtherCommitStep, OtherDeleteStep
<1>5. QED
  BY <1>1, <1>2, <1>3, <1>4, ListStep, CompareStep, EndStep, PushStep, FetchStep, ImportStep,
     UpdateStep, ExportStep, BundleStep, ForeignStep
  DEF Next

(* Type correctness of transfers.                                          *)
THEOREM MirrorTyped ==
    ASSUME ~InsertsFail
    PROVE  Spec => []TypeOK
<1>1. MirrorInv => TypeOK
  <2> SUFFICES ASSUME MirrorInv PROVE TypeOK
    OBVIOUS
  <2>1. PICK n : n = Cardinality(Object)
    OBVIOUS
  <2>2. Object = 1 .. n /\ n \in Nat /\ Len(parent) \in 0 .. n
    BY <2>1, MirrorAssumption, PackAssumption, FS_CardinalityType DEF MirrorInv, ParentsOK
  <2>3. \A c \in DOMAIN parent : c \in Object /\ parent[c] \in 0 .. c - 1
    BY <2>2 DEF MirrorInv, ParentsOK
  <2>4. \A s \in Side : {refs[s][r] : r \in DOMAIN refs[s]} \subseteq DOMAIN parent
    <3>1. \A s \in Side : Stored(s) \subseteq DOMAIN parent
      BY StoredExists DEF MirrorInv
    <3>2. QED
      BY <3>1 DEF MirrorInv, RefsOK, IsTips
  <2>5. Readable \cup remoteOdb \cup bundle.objects \cup bundle.needs \cup gaps \subseteq DOMAIN parent
    BY DEF MirrorInv, StoresOK, BundleOK, Held, Spans
  <2>6. QED
    BY <2>3, <2>4, <2>5 DEF TypeOK, MirrorInv, StoresOK, PackInv, BundleOK, CallOK
<1>2. QED
  BY <1>1, InitMirrorInv, NextMirrorInv, PTL DEF Spec

(* Wherever a transfer stops, every reference of either repository names a *)
(* commit that is stored there with its whole history (mirror.cpp: objects *)
(* go before references), but for what an imported bundle built on and was *)
(* not here; the other repository has no such gaps.                        *)
THEOREM ReferencesComplete ==
    ASSUME ~InsertsFail
    PROVE  Spec => []RefsComplete
<1>1. MirrorInv => RefsComplete
  <2> DEFINE granted(s) == IF s = "local" THEN gaps ELSE {}
  <2> SUFFICES ASSUME MirrorInv, NEW s \in Side, NEW r \in DOMAIN refs[s]
               PROVE  /\ refs[s][r] \in Stored(s)
                      /\ Ancestry(refs[s][r]) \subseteq Stored(s) \cup granted(s)
    BY DEF RefsComplete
  <2>1. refs[s][r] \in Stored(s)
    BY DEF MirrorInv, RefsOK, IsTips
  <2>2. PICK S : S = Stored(s) \cup granted(s)
    OBVIOUS
  <2>3. S \subseteq DOMAIN parent /\ Closed(parent, S)
    <3>1. CASE s = "local"
      BY <2>2, <3>1 DEF MirrorInv, StoresOK, Stored, Held
    <3>2. CASE s = "remote"
      BY <2>2, <3>2 DEF MirrorInv, StoresOK, Stored
    <3>3. QED
      BY <3>1, <3>2 DEF Side
  <2>4. QED
    BY <2>1, <2>2, <2>3, AncestryWithin DEF MirrorInv
<1>2. QED
  BY <1>1, InitMirrorInv, NextMirrorInv, PTL DEF Spec

(* What a transfer and the writers around it do to the objects of this     *)
(* repository is what VostPack lets any process do.                        *)
LEMMA ObjectSteps ==
    ASSUME MirrorInv, [Next]_vars
    PROVE  [PackNext]_packVars
<1>1. ASSUME NEW os, os \subseteq DOMAIN parent, StorePack(os) PROVE PackNext
  <2>1. PICK n : n = Cardinality(Object)
    OBVIOUS
  <2>2. Object = 1 .. n /\ n \in Nat /\ Len(parent) \in 0 .. n
    BY <2>1, MirrorAssumption, PackAssumption, FS_CardinalityType DEF MirrorInv, ParentsOK
  <2>3. os \in SUBSET Object
    BY <1>1, <2>2 DEF MirrorInv, ParentsOK
  <2>4. QED
    BY <1>1, <2>3 DEF PackNext
<1>2. CASE Fetch
  <2>1. PICK kept : kept = Restrict(Selected(call.request, call.views["remote"]),
                             DOMAIN Selected(call.request, call.views["remote"])
                               \cap DOMAIN refs["remote"])
    OBVIOUS
  <2>2. PICK tips : tips = Carried(kept, refs["remote"])
    OBVIOUS
  <2>3. StorePack(Objects(tips) \ Objects(refs["local"]))
    BY <1>2, <2>1, <2>2 DEF Fetch
  <2>4. IsTips(refs["remote"], DOMAIN parent) /\ DOMAIN kept \subseteq DOMAIN refs["remote"]
    <3>1. Stored("remote") \subseteq DOMAIN parent /\ IsTips(refs["remote"], Stored("remote"))
      BY StoredExists DEF MirrorInv, RefsOK, Side
    <3>2. QED
      BY <2>1, <3>1, Tips DEF Restrict
  <2>5. IsTips(tips, DOMAIN parent)
    BY <2>2, <2>4, CarriedTips
  <2>6. Objects(tips) \subseteq DOMAIN parent
    BY <2>5, ObjectsClosed DEF MirrorInv
  <2>7. QED
    BY <1>1, <2>3, <2>6
<1>3. CASE ImportBundle
  BY <1>1, <1>3 DEF ImportBundle, MirrorInv, BundleOK, Spans
<1>4. CASE ExportBundle
  <2>1. UNCHANGED packVars \/ \E os \in SUBSET Object : StoreLoose(os)
    BY <1>4, Zenon DEF ExportBundle, storeVars
  <2>2. QED
    BY <2>1 DEF PackNext
<1>5. ASSUME NEW s \in Side, NEW r, OtherCommit(s, r) PROVE [PackNext]_packVars
  <2>1. UNCHANGED packVars \/ \E o \in Object : StoreLoose({o})
    BY <1>5 DEF OtherCommit
  <2>2. QED
    BY <2>1 DEF PackNext
<1>6. ASSUME NEW p \in Packer, Pack(p) \/ PackOn(p) PROVE PackNext
  BY <1>6 DEF Pack, PackOn, PackNext
<1>7. ASSUME NEW op, NEW k, NEW q, NEW d, NEW s, Call(op, k, q, d, s) PROVE UNCHANGED packVars
  BY <1>7 DEF Call, storeVars
<1>8. CASE \/ ListLocal \/ ListRemote \/ ListRemoteFails \/ Compare \/ Push
           \/ UpdateOneRef \/ DeleteOneRef \/ RefuseOneRef \/ Return \/ WriteHeader
           \/ WriteBundlePack \/ Fail \/ UNCHANGED vars
  BY <1>8 DEF ListLocal, ListRemote, ListRemoteFails, Compare, Push, UpdateOneRef, DeleteOneRef,
     RefuseOneRef, Return, WriteHeader, WriteBundlePack, Fail, vars, repoVars, storeVars
<1>9. ASSUME NEW s \in Side, NEW r, OtherDelete(s, r) PROVE UNCHANGED packVars
  BY <1>9 DEF OtherDelete, storeVars
<1>10. ASSUME NEW x, OtherExport(x) \/ ForeignBundle(x) PROVE UNCHANGED packVars
  BY <1>10 DEF OtherExport, ForeignBundle, storeVars
<1>11. QED
  BY <1>2, <1>3, <1>4, <1>5, <1>6, <1>7, <1>8, <1>9, <1>10 DEF Next

(* A repository that transfers, packs and is written to meanwhile is one   *)
(* of VostPack's, so that                                                  *)
THEOREM TransfersPack ==
    ASSUME ~InsertsFail
    PROVE  Spec => PackSpec
<1>1. Init => PackInit
  BY DEF Init
<1>2. QED
  BY <1>1, ObjectSteps, InitMirrorInv, NextMirrorInv, PTL DEF Spec, PackSpec

(* no object becomes unreadable, be it one that a transfer has brought and *)
(* no reference leads to yet (gitstore.cpp, pack; mirror.cpp).             *)
THEOREM TransfersKeepObjects ==
    ASSUME ~InsertsFail
    PROVE  Spec => ObjectsKept
<1>1. PackSpec => ObjectsKept
  BY PackKeepsObjects
<1>2. QED
  BY <1>1, TransfersPack

-----------------------------------------------------------------------------
(* What undisturbed transfers do.                                          *)

Places == Side \cup {"bundle"}

(* Where a listing's references are.                                       *)
Place(v) ==
    IF v \in {"local", "again"} THEN "local"
    ELSE IF call.kind = "bundle" THEN "bundle" ELSE "remote"

(* The references asked for.                                               *)
New == Renamed(call.request, call.before[From])

(* Whether references that the source lacks are deleted.                   *)
Mirrors == call.op = "backup" /\ IsMirror(call.request)

(* What calls are made of.                                                 *)
AskOK ==
    /\ call.op \in {"none", "backup", "restore", "export", "import"}
    /\ call.kind \in {"repo", "bundle"}
    /\ call.op \in {"export", "import"} => call.kind = "bundle" /\ ~call.dry_run
    /\ call.squash => Sends(call.op) /\ call.kind = "bundle" /\ ~call.dry_run
    /\ \A p \in Places : IsFunction(call.before[p])

(* f and g agree on r.                                                     *)
Same(f, g, r) == (r \in DOMAIN f <=> r \in DOMAIN g) /\ (r \in DOMAIN f => f[r] = g[r])

(* Only the other repository of a backup refuses, and at the end.          *)
ToRepository == call.op = "backup" /\ call.kind = "repo"

RefusedOK ==
    /\ call.pc = "update" /\ Sends(call.op) => ToRepository
    /\ call.refused # {} => call.pc \in {"update", "idle"} /\ ToRepository

(* On the way from old to new, or to old with new written over it: what is *)
(* left to do, or was refused, is as it was, the rest as it is to be.      *)
Progress(now, old, new, tips, deletes, refused, mirrors) ==
    /\ DOMAIN tips \subseteq DOMAIN new /\ \A r \in DOMAIN tips : tips[r] = new[r]
    /\ deletes \subseteq DOMAIN old \ DOMAIN new
    /\ ~mirrors => deletes = {}
    /\ refused \cap (DOMAIN tips \cup deletes) = {}
    /\ \A r \in DOMAIN new \ (DOMAIN tips \cup refused) : r \in DOMAIN now /\ now[r] = new[r]
    /\ \A r \in DOMAIN tips \cup deletes \cup refused : Same(now, old, r)
    /\ \A r \in (DOMAIN now \cup DOMAIN old) \ (DOMAIN new \cup deletes \cup refused) :
          IF mirrors /\ r \in DOMAIN old THEN r \notin DOMAIN now ELSE Same(now, old, r)

(* Only the destination changes.                                           *)
OthersKept == \A p \in Places \ {To} : RefsAt(p) = call.before[p]

(* Before the transfer the destination has not changed, either, and the    *)
(* listings show what there was.                                           *)
ListingOK ==
    call.pc \in {"list", "transfer"} =>
        /\ RefsAt(To) = call.before[To] /\ call.deletes = {}
        /\ \A v \in DOMAIN call.views : call.views[v] = call.before[Place(v)]
        /\ call.pc = "transfer" => ~call.dry_run

(* Then the references are on the way to what was asked for.               *)
UpdatingOK ==
    call.pc = "update" =>
        /\ To # "bundle" /\ ~call.dry_run /\ ~call.squash
        /\ Progress(refs[To], call.before[To], New, call.tips, call.deletes, call.refused, Mirrors)

(* A bundle is about to be written with the references asked for.          *)
ExportingOK ==
    call.pc = "export" =>
        /\ To = "bundle" /\ ~call.dry_run /\ DOMAIN call.tips = DOMAIN New
        /\ IF call.squash THEN \A r \in DOMAIN call.tips : parent[call.tips[r]] = 0
           ELSE call.tips = New

(* The MirrorDiff compares what was there with what is asked for.          *)
DiffOK ==
    call.pc \in {"transfer", "update"} /\ To # "bundle" /\ call.op # "import" =>
        call.diff = DiffRefs(AskedFor, call.before[To])

QuietOK ==
    Quiet => /\ OthersKept /\ ListingOK /\ UpdatingOK /\ ExportingOK /\ DiffOK
             /\ call.pc = "idle" => call.outcome = "ok"

DoneOK == AskOK /\ QuietOK /\ DiffIsWhatHappens

(* What restoring leaves: the new references written over the old.         *)
Overlay(new, old) ==
    [r \in DOMAIN new \cup DOMAIN old |-> IF r \in DOMAIN new THEN new[r] ELSE old[r]]

(* Two functions are equal that agree everywhere.                          *)
LEMMA Agreeing ==
    ASSUME NEW f, NEW g, IsFunction(f), IsFunction(g),
           \A r \in DOMAIN f \cup DOMAIN g : Same(f, g, r)
    PROVE  f = g
<1>1. DOMAIN f = DOMAIN g
  BY DEF Same
<1>2. \A r \in DOMAIN f : f[r] = g[r]
  BY DEF Same
<1>3. [r \in DOMAIN f |-> f[r]] = [r \in DOMAIN g |-> g[r]]
  BY <1>1, <1>2
<1>4. QED
  BY <1>3 DEF IsFunction

(* A diff that says nothing is to be done is right.                        *)
LEMMA InSyncEqual ==
    ASSUME NEW f, NEW g, IsFunction(f), IsFunction(g), InSync(DiffRefs(f, g))
    PROVE  f = g
<1>1. /\ DOMAIN f \ DOMAIN g = {} /\ DOMAIN g \ DOMAIN f = {}
      /\ {r \in DOMAIN f \cap DOMAIN g : f[r] # g[r]} = {}
  BY DEF InSync, DiffRefs, NoDiff
<1>2. \A r \in DOMAIN f \cup DOMAIN g : Same(f, g, r)
  BY <1>1 DEF Same
<1>3. QED
  BY <1>2, Agreeing

(* Without deletions, the diff is the one with what stays.                 *)
LEMMA OverlayDiff ==
    ASSUME NEW new, NEW old
    PROVE  [DiffRefs(new, old) EXCEPT !.del = {}] = DiffRefs(Overlay(new, old), old)
<1>1. /\ DOMAIN Overlay(new, old) = DOMAIN new \cup DOMAIN old
      /\ \A r \in DOMAIN new : Overlay(new, old)[r] = new[r]
      /\ \A r \in DOMAIN old \ DOMAIN new : Overlay(new, old)[r] = old[r]
  BY DEF Overlay
<1>2. /\ DOMAIN Overlay(new, old) \ DOMAIN old = DOMAIN new \ DOMAIN old
      /\ DOMAIN old \ DOMAIN Overlay(new, old) = {}
      /\ {r \in DOMAIN Overlay(new, old) \cap DOMAIN old : Overlay(new, old)[r] # old[r]}
           = {r \in DOMAIN new \cap DOMAIN old : new[r] # old[r]}
  BY <1>1
<1>3. \A a, u, d : [[add |-> a, update |-> u, del |-> d] EXCEPT !.del = {}]
                     = [add |-> a, update |-> u, del |-> {}]
  OBVIOUS
<1>4. QED
  BY <1>2, <1>3, Zenon DEF DiffRefs

(* Selecting gives a function.                                             *)
LEMMA SelectedFunction ==
    ASSUME NEW request, NEW available
    PROVE  IsFunction(Selected(request, available))
<1>1. CASE DOMAIN request.map # {}
  <2> DEFINE sources == {ResolveOneRef(n, available) : n \in DOMAIN request.map}
             key(src) == CHOOSE n \in DOMAIN request.map : ResolveOneRef(n, available) = src
             dst(src) == Destination(src, request.map[key(src)])
             D == sources \cap DOMAIN available
  <2>1. Selected(request, available) = [src \in D |-> dst(src)]
    BY <1>1, Zenon DEF Selected
  <2> HIDE DEF dst, D
  <2>2. QED
    BY <2>1 DEF IsFunction
<1>2. CASE DOMAIN request.map = {}
  <2> DEFINE sources == IF request.names = {} THEN DOMAIN available
                        ELSE {ResolveOneRef(n, available) : n \in request.names}
             D == sources \cap DOMAIN available
  <2>1. Selected(request, available) = [src \in D |-> src]
    BY <1>2, Zenon DEF Selected
  <2> HIDE DEF D
  <2>2. QED
    BY <2>1 DEF IsFunction
<1>3. QED
  BY <1>1, <1>2

(* When all is left to do, nothing has been done.                          *)
LEMMA ProgressStarts ==
    ASSUME NEW old, NEW new, NEW deletes, NEW mirrors \in BOOLEAN,
           deletes = IF mirrors THEN DOMAIN old \ DOMAIN new ELSE {}
    PROVE  Progress(old, old, new, new, deletes, {}, mirrors)
BY DEF Progress, Same

(* Moving one reference is progress,                                       *)
LEMMA ProgressUpdates ==
    ASSUME NEW now, NEW old, NEW new, NEW tips, NEW deletes, NEW refused, NEW mirrors \in BOOLEAN,
           Progress(now, old, new, tips, deletes, refused, mirrors), NEW r \in DOMAIN tips
    PROVE  Progress(With(now, r, tips[r]), old, new, Without(tips, r), deletes, refused, mirrors)
<1>1. PICK now2 : now2 = With(now, r, tips[r])
  OBVIOUS
<1>2. PICK tips2 : tips2 = Without(tips, r)
  OBVIOUS
<1>3. /\ DOMAIN now2 = DOMAIN now \cup {r} /\ now2[r] = tips[r]
      /\ \A q \in DOMAIN now : q # r => now2[q] = now[q]
  BY <1>1 DEF With
<1>4. DOMAIN tips2 = DOMAIN tips \ {r} /\ \A q \in DOMAIN tips2 : tips2[q] = tips[q]
  BY <1>2 DEF Without
<1>5. r \in DOMAIN new /\ tips[r] = new[r] /\ r \notin deletes /\ r \notin refused
  BY DEF Progress
<1>6. \A q : q # r => (Same(now2, old, q) <=> Same(now, old, q))
  BY <1>3 DEF Same
<1>7. QED
  BY <1>1, <1>2, <1>3, <1>4, <1>5, <1>6 DEF Progress

(* and so is deleting one,                                                 *)
LEMMA ProgressDeletes ==
    ASSUME NEW now, NEW old, NEW new, NEW tips, NEW deletes, NEW refused, NEW mirrors \in BOOLEAN,
           Progress(now, old, new, tips, deletes, refused, mirrors), NEW r \in deletes
    PROVE  Progress(Without(now, r), old, new, tips, deletes \ {r}, refused, mirrors)
<1>1. PICK now2 : now2 = Without(now, r)
  OBVIOUS
<1>2. DOMAIN now2 = DOMAIN now \ {r} /\ \A q \in DOMAIN now2 : now2[q] = now[q]
  BY <1>1 DEF Without
<1>3. /\ r \notin DOMAIN new /\ r \notin DOMAIN tips /\ r \in DOMAIN old /\ mirrors
      /\ r \notin refused
  BY DEF Progress
<1>4. \A q : q # r => (Same(now2, old, q) <=> Same(now, old, q))
  BY <1>2 DEF Same
<1>5. QED
  BY <1>1, <1>2, <1>3, <1>4 DEF Progress

(* or leaving one that is refused as it was.                               *)
LEMMA ProgressRefuses ==
    ASSUME NEW now, NEW old, NEW new, NEW tips, NEW deletes, NEW refused, NEW mirrors \in BOOLEAN,
           Progress(now, old, new, tips, deletes, refused, mirrors),
           NEW r \in DOMAIN tips \cup deletes
    PROVE  Progress(now, old, new, Without(tips, r), deletes \ {r}, refused \cup {r}, mirrors)
<1>1. PICK tips2 : tips2 = Without(tips, r)
  OBVIOUS
<1>2. DOMAIN tips2 = DOMAIN tips \ {r} /\ \A q \in DOMAIN tips2 : tips2[q] = tips[q]
  BY <1>1 DEF Without
<1>3. Same(now, old, r)
  BY DEF Progress
<1>4. QED
  BY <1>1, <1>2, <1>3 DEF Progress

(* What is granted is what was asked or, where refused, what was there.    *)
LEMMA GrantedIs ==
    ASSUME NEW asked, NEW old, NEW refused
    PROVE  /\ IsFunction(Granted(asked, old, refused))
           /\ \A r : r \in refused => Same(Granted(asked, old, refused), old, r)
           /\ \A r : r \notin refused => Same(Granted(asked, old, refused), asked, r)
           /\ refused = {} /\ IsFunction(asked) => Granted(asked, old, refused) = asked
<1>1. PICK f : f = Granted(asked, old, refused)
  OBVIOUS
<1>2. /\ DOMAIN f = (DOMAIN asked \ refused) \cup (DOMAIN old \cap refused)
      /\ \A r \in DOMAIN f : f[r] = IF r \in refused THEN old[r] ELSE asked[r]
  BY <1>1 DEF Granted
<1>3. IsFunction(f)
  BY <1>1 DEF IsFunction, Granted
<1>4. /\ \A r : r \in refused => Same(f, old, r)
      /\ \A r : r \notin refused => Same(f, asked, r)
  BY <1>2 DEF Same
<1>5. refused = {} /\ IsFunction(asked) => f = asked
  BY <1>3, <1>4, Agreeing
<1>6. QED
  BY <1>1, <1>3, <1>4, <1>5

(* When nothing is left, all that is granted has been done.                *)
LEMMA ProgressEnds ==
    ASSUME NEW now, NEW old, NEW new, NEW tips, NEW deletes, NEW refused, NEW mirrors \in BOOLEAN,
           Progress(now, old, new, tips, deletes, refused, mirrors), DOMAIN tips = {}, deletes = {},
           IsFunction(now), NEW asked, asked = IF mirrors THEN new ELSE Overlay(new, old)
    PROVE  now = Granted(asked, old, refused)
<1>1. PICK f : f = Granted(asked, old, refused)
  OBVIOUS
<1>2. /\ IsFunction(f)
      /\ \A r : r \in refused => Same(f, old, r)
      /\ \A r : r \notin refused => Same(f, asked, r)
  BY <1>1, GrantedIs
<1>3. ASSUME NEW r, r \notin refused PROVE Same(now, asked, r)
  <2>1. CASE mirrors
    BY <1>3, <2>1 DEF Progress, Same
  <2>2. CASE ~mirrors
    <3>1. /\ DOMAIN asked = DOMAIN new \cup DOMAIN old
          /\ \A q \in DOMAIN new : asked[q] = new[q]
          /\ \A q \in DOMAIN old \ DOMAIN new : asked[q] = old[q]
      BY <2>2 DEF Overlay
    <3>2. QED
      BY <1>3, <2>2, <3>1 DEF Progress, Same
  <2>3. QED
    BY <2>1, <2>2
<1>4. ASSUME NEW r, r \in refused PROVE Same(now, old, r)
  BY <1>4 DEF Progress
<1>5. \A r : Same(now, f, r)
  BY <1>2, <1>3, <1>4 DEF Same
<1>6. QED
  BY <1>1, <1>2, <1>5, Agreeing

(* The call goes on as it was made.                                        *)
SameCall ==
    /\ call'.op = call.op /\ call'.kind = call.kind /\ call'.request = call.request
    /\ call'.dry_run = call.dry_run /\ call'.squash = call.squash
    /\ call'.before = call.before /\ call'.quiet = call.quiet /\ call'.reached = call.reached

(* A step that keeps what a call was asked for keeps all that depends on   *)
(* it.                                                                     *)
LEMMA SameCallAsks ==
    ASSUME SameCall
    PROVE  /\ Quiet' = Quiet /\ From' = From /\ To' = To /\ New' = New
           /\ Mirrors' = Mirrors /\ AskedFor' = AskedFor /\ \A v : Place(v)' = Place(v)
           /\ AskOK => AskOK'
<1>1. From' = From /\ To' = To /\ Quiet' = Quiet
  BY DEF SameCall, From, To, Quiet, Sends
<1>2. New' = New /\ Mirrors' = Mirrors /\ \A v : Place(v)' = Place(v)
  BY <1>1 DEF SameCall, New, Mirrors, Place, Renamed, Carried, Selected
<1>3. AskedFor' = AskedFor
  BY <1>1 DEF SameCall, AskedFor
<1>4. AskOK => AskOK'
  BY DEF SameCall, AskOK, Sends
<1>5. QED
  BY <1>1, <1>2, <1>3, <1>4

(* Nothing is promised of a call that has failed or is disturbed.          *)
LEMMA NotQuiet ==
    ASSUME ~Quiet'
    PROVE  QuietOK' /\ DiffIsWhatHappens'
BY DEF QuietOK, DiffIsWhatHappens

(* A call that has failed, or none, has nothing to show.                   *)
LEMMA NoCallDone ==
    ASSUME call' \in {NoCall, Failed}
    PROVE  DoneOK'
<1>1. /\ call'.op = "none" /\ call'.kind = "repo" /\ ~call'.squash
      /\ call'.before = [s \in Side \cup {"bundle"} |-> NoRefs]
  BY DEF NoCall, Failed
<1>2. IsFunction(NoRefs)
  BY DEF IsFunction, NoRefs
<1>3. AskOK'
  BY <1>1, <1>2 DEF AskOK, Places
<1>4. ~Quiet'
  BY <1>1 DEF Quiet
<1>5. QED
  BY <1>3, <1>4, NotQuiet DEF DoneOK

(* A call begins with everything as it is before.                          *)
LEMMA CallDone ==
    ASSUME MirrorInv, NEW op \in Ops, NEW k, NEW q, NEW d, NEW s, Call(op, k, q, d, s)
    PROVE  DoneOK'
<1>1. /\ call' = [NoCall EXCEPT !.pc = "list", !.op = op, !.kind = k, !.request = q,
                                !.dry_run = d, !.squash = s,
                                !.before = [p \in Side \cup {"bundle"} |-> RefsAt(p)]]
      /\ UNCHANGED <<refs, bundle>>
      /\ op \in Ops \ {"pack"} /\ k \in Kinds
      /\ op \in {"export", "import"} => k = "bundle" /\ ~d
      /\ s => Sends(op) /\ k = "bundle" /\ ~d
  BY DEF Call
<1>2. /\ call'.pc = "list" /\ call'.op = op /\ call'.kind = k /\ call'.dry_run = d
      /\ call'.squash = s /\ call'.deletes = {} /\ call'.views = NoRefs
      /\ call'.before = [p \in Side \cup {"bundle"} |-> RefsAt(p)]
  BY <1>1 DEF NoCall
<1>3. \A p \in Places : RefsAt(p)' = RefsAt(p) /\ call'.before[p] = RefsAt(p)
  BY <1>1, <1>2 DEF Places, RefsAt
<1>4. \A p \in Places : IsFunction(RefsAt(p))
  BY DEF Places, RefsAt, MirrorInv, RefsOK, BundleOK, IsTips, IsFunction
<1>5. AskOK'
  BY <1>1, <1>2, <1>3, <1>4, MirrorAssumption, ZenonT(60) DEF AskOK
<1>6. To' \in Places /\ DOMAIN call'.views = {}
  BY <1>2 DEF To, Places, Side, NoRefs
<1>7. QuietOK'
  BY <1>2, <1>3, <1>6 DEF QuietOK, OthersKept, ListingOK, UpdatingOK, ExportingOK, DiffOK
<1>8. DiffIsWhatHappens'
  BY <1>2 DEF DiffIsWhatHappens
<1>9. QED
  BY <1>5, <1>7, <1>8 DEF DoneOK

(* Before the transfer nothing has changed.                                *)
LEMMA AsBefore ==
    ASSUME Quiet, QuietOK, call.pc \in {"list", "transfer"}
    PROVE  /\ \A p \in Places : RefsAt(p) = call.before[p]
           /\ refs["local"] = call.before["local"] /\ refs["remote"] = call.before["remote"]
           /\ bundle.refs = call.before["bundle"]
           /\ \A v \in DOMAIN call.views : call.views[v] = call.before[Place(v)]
           /\ call.deletes = {} /\ OthersKept
<1>1. \A p \in Places : RefsAt(p) = call.before[p]
  BY DEF QuietOK, OthersKept, ListingOK
<1>2. QED
  BY <1>1 DEF QuietOK, ListingOK, Places, Side, RefsAt

(* Listings show what there is.                                            *)
LEMMA ListDone ==
    ASSUME MirrorInv, DoneOK, ListLocal \/ ListRemote \/ ListRemoteFails
    PROVE  DoneOK'
<1>1. call.pc = "list" /\ UNCHANGED <<refs, bundle, parent>> /\ call = [f \in Fields |-> call[f]]
  BY DEF ListLocal, ListRemote, ListRemoteFails, repoVars, storeVars, MirrorInv, CallOK
<1>2. \A p : RefsAt(p)' = RefsAt(p)
  BY <1>1 DEF RefsAt
<1>3. ASSUME NEW v, NEW available, Listed(v, available),
             Quiet => available = call.before[Place(v)]
      PROVE  DoneOK'
  <2>1. SameCall /\ call'.pc = "list" /\ call'.views = With(call.views, v, available)
        /\ call'.deletes = call.deletes
    BY <1>1, <1>3 DEF Listed, SameCall, Fields
  <2>2. /\ DOMAIN call'.views = DOMAIN call.views \cup {v}
        /\ \A w \in DOMAIN call'.views :
              call'.views[w] = IF w = v THEN available ELSE call.views[w]
    BY <2>1 DEF With
  <2>3. SUFFICES QuietOK'
    BY <2>1, SameCallAsks DEF DoneOK, DiffIsWhatHappens
  <2>4. SUFFICES ASSUME Quiet' PROVE QuietOK'
    BY DEF QuietOK
  <2>5. Quiet /\ To' = To /\ call'.before = call.before /\ \A w : Place(w)' = Place(w)
    BY <2>1, <2>4, SameCallAsks DEF SameCall
  <2>6. /\ \A p \in Places : RefsAt(p) = call.before[p]
        /\ \A w \in DOMAIN call.views : call.views[w] = call.before[Place(w)]
        /\ call.deletes = {} /\ To \in Places
    BY <1>1, <2>5, AsBefore DEF DoneOK, To, Places, Side
  <2>7. OthersKept'
    BY <1>2, <2>5, <2>6 DEF OthersKept
  <2>8. ListingOK'
    BY <1>2, <1>3, <2>1, <2>2, <2>5, <2>6 DEF ListingOK
  <2>9. QED
    BY <2>1, <2>7, <2>8 DEF QuietOK, UpdatingOK, ExportingOK, DiffOK
<1>4. CASE ListLocal
  <2>1. PICK v \in {"local", "again"} : Listed(v, refs["local"])
    BY <1>4 DEF ListLocal
  <2>2. Quiet => refs["local"] = call.before[Place(v)]
    BY <1>1, AsBefore DEF DoneOK, Place
  <2>3. QED
    BY <1>3, <2>1, <2>2
<1>5. CASE ListRemote
  <2>1. CASE call.kind = "repo" /\ Listed("remote", refs["remote"])
    <3>1. Quiet => refs["remote"] = call.before[Place("remote")]
      BY <1>1, <2>1, AsBefore DEF DoneOK, Place
    <3>2. QED
      BY <1>3, <2>1, <3>1
  <2>2. CASE call' = Failed
    BY <2>2, NoCallDone
  <2>3. CASE call.kind # "repo" /\ Listed("remote", bundle.refs)
    <3>1. Quiet => bundle.refs = call.before[Place("remote")]
      BY <1>1, <2>3, AsBefore DEF DoneOK, Place, AskOK
    <3>2. QED
      BY <1>3, <2>3, <3>1
  <2>4. QED
    BY <1>5, <2>1, <2>2, <2>3 DEF ListRemote
<1>6. CASE ListRemoteFails
  <2>1. ~call'.reached /\ call'.op = call.op /\ call'.kind = call.kind /\ call'.squash = call.squash
        /\ call'.dry_run = call.dry_run /\ call'.before = call.before
    BY <1>1, <1>6 DEF ListRemoteFails, Fields
  <2>2. AskOK'
    BY <2>1 DEF DoneOK, AskOK, Sends
  <2>3. QED
    BY <2>1, <2>2, NotQuiet DEF DoneOK, Quiet
<1>7. QED
  BY <1>4, <1>5, <1>6

(* The diff tells what the call is asked for.                              *)
LEMMA DiffTells ==
    ASSUME Quiet, AskOK, QuietOK, call.pc = "list", DOMAIN call.views = Views(call),
           To # "bundle", call.op # "import"
    PROVE  DiffOf(call) = DiffRefs(AskedFor, call.before[To])
<1>1. \A v \in DOMAIN call.views : call.views[v] = call.before[Place(v)]
  BY AsBefore
<1>2. call.op \in {"backup", "restore"}
  BY DEF Quiet, AskOK, To, Sends
<1>3. PICK old : old = call.before[To]
  OBVIOUS
<1>4. PICK new : new = New
  OBVIOUS
<1>5. AskedFor = IF Mirrors THEN new ELSE Overlay(new, old)
  BY <1>3, <1>4, Zenon DEF AskedFor, New, Mirrors, Overlay
<1>6. CASE call.op = "backup"
  <2>1. call.kind = "repo" /\ From = "local" /\ To = "remote"
    BY <1>6 DEF AskOK, To, From, Sends
  <2>2. Views(call) = Side
    BY <1>6, <2>1 DEF Views
  <2>3. call.views["local"] = call.before[From] /\ call.views["remote"] = old
    BY <1>1, <1>3, <2>1, <2>2 DEF Place, Side
  <2>4. Renamed(call.request, call.views["local"]) = new
    BY <1>4, <2>3 DEF New
  <2>5. DiffOf(call) = IF IsMirror(call.request) THEN DiffRefs(new, old)
                       ELSE [DiffRefs(new, old) EXCEPT !.del = {}]
    BY <1>6, <2>1, <2>3, <2>4, Zenon DEF DiffOf
  <2>6. QED
    BY <1>3, <1>5, <1>6, <2>5, OverlayDiff DEF Mirrors
<1>7. CASE call.op = "restore"
  <2>1. From = Place("remote") /\ To = "local" /\ ~Mirrors
    BY <1>7 DEF To, From, Sends, Place, Mirrors
  <2>2. Views(call) = Side
    BY <1>7 DEF Views
  <2>3. call.views["remote"] = call.before[From] /\ call.views["local"] = old
    BY <1>1, <1>3, <2>1, <2>2 DEF Place, Side
  <2>4. Renamed(call.request, call.views["remote"]) = new
    BY <1>4, <2>3 DEF New
  <2>5. DiffOf(call) = [DiffRefs(new, old) EXCEPT !.del = {}]
    BY <1>7, <2>3, <2>4 DEF DiffOf
  <2>6. QED
    BY <1>3, <1>5, <2>1, <2>5, OverlayDiff
<1>8. QED
  BY <1>2, <1>6, <1>7

(* What the call has to reach, whatever was there.                         *)
LEMMA AskedForIs ==
    /\ To = "bundle" => AskedFor = New
    /\ To # "bundle" => AskedFor = IF Mirrors THEN New ELSE Overlay(New, call.before[To])
    /\ IsFunction(New) /\ IsFunction(AskedFor) /\ Mirrors \in BOOLEAN /\ To \in Places
<1>1. IsFunction(New)
  <2>1. PICK selected : selected = Selected(call.request, call.before[From])
    OBVIOUS
  <2>2. New = Carried(selected, call.before[From])
    BY <2>1 DEF New, Renamed
  <2>3. QED
    BY <2>2 DEF Carried, IsFunction
<1>2. /\ To = "bundle" => AskedFor = New
      /\ To # "bundle" => AskedFor = IF Mirrors THEN New ELSE Overlay(New, call.before[To])
  BY Zenon DEF AskedFor, New, Mirrors, Overlay
<1>3. IsFunction(Overlay(New, call.before[To]))
  <2>1. PICK old : old = call.before[To]
    OBVIOUS
  <2>2. PICK new : new = New
    OBVIOUS
  <2>3. IsFunction(Overlay(new, old))
    BY DEF IsFunction, Overlay
  <2>4. QED
    BY <2>1, <2>2, <2>3
<1>4. To \in Places /\ Mirrors \in BOOLEAN
  BY DEF To, Places, Side, Mirrors
<1>5. QED
  BY <1>1, <1>2, <1>3, <1>4

(* What is in sync stays; a dry run does nothing.                          *)
LEMMA CompareDone ==
    ASSUME MirrorInv, RefusedOK, DoneOK, Compare
    PROVE  DoneOK'
<1>1. /\ call.pc = "list" /\ UNCHANGED <<refs, bundle, parent>> /\ DOMAIN call.views = Views(call)
      /\ call = [f \in Fields |-> call[f]]
  BY DEF Compare, repoVars, storeVars, MirrorInv, CallOK
<1>2. \A p : RefsAt(p)' = RefsAt(p)
  BY <1>1 DEF RefsAt
<1>3. PICK diff : diff = DiffOf(call)
  OBVIOUS
<1>4. PICK c : c = [call EXCEPT !.diff = diff]
  OBVIOUS
<1>5. \/ /\ call' = Returned(c)
         /\ \/ call.dry_run
            \/ InSync(diff) /\ (call.op = "restore" \/ (call.op = "backup" /\ call.kind = "repo"))
      \/ call' = [c EXCEPT !.pc = "transfer"] /\ ~call.dry_run
  BY <1>3, <1>4, Zenon DEF Compare
<1>6. /\ SameCall /\ call'.diff = diff /\ call'.refused = call.refused
      /\ \/ call'.pc = "idle" /\ call'.outcome = "ok"
         \/ /\ call'.pc = "transfer" /\ call'.views = call.views /\ call'.deletes = call.deletes
            /\ ~call.dry_run
  BY <1>1, <1>4, <1>5, ZenonT(60) DEF Returned, SameCall, Fields
<1>7. AskOK'
  BY <1>6, SameCallAsks DEF DoneOK
<1>8. SUFFICES ASSUME Quiet' PROVE QuietOK' /\ DiffIsWhatHappens'
  BY <1>7, NotQuiet DEF DoneOK
<1>9. /\ Quiet /\ To' = To /\ New' = New /\ AskedFor' = AskedFor
      /\ call'.before = call.before /\ \A v : Place(v)' = Place(v)
  BY <1>6, <1>8, SameCallAsks DEF SameCall
<1>10. /\ \A p \in Places : RefsAt(p) = call.before[p]
       /\ \A v \in DOMAIN call.views : call.views[v] = call.before[Place(v)]
       /\ call.deletes = {} /\ To \in Places /\ AskOK
  BY <1>1, <1>9, AsBefore, AskedForIs DEF DoneOK
<1>11. To # "bundle" /\ call.op # "import" => diff = DiffRefs(AskedFor, call.before[To])
  BY <1>1, <1>3, <1>9, DiffTells DEF DoneOK
<1>12. QuietOK'
  <2>1. OthersKept'
    BY <1>2, <1>9, <1>10 DEF OthersKept
  <2>2. ListingOK'
    BY <1>2, <1>6, <1>9, <1>10 DEF ListingOK, SameCall
  <2>3. DiffOK'
    BY <1>6, <1>9, <1>11 DEF DiffOK, SameCall
  <2>4. QED
    BY <1>6, <2>1, <2>2, <2>3 DEF QuietOK, UpdatingOK, ExportingOK
<1>13. DiffIsWhatHappens'
  <2>1. SUFFICES ASSUME call'.pc = "idle" PROVE DiffIsWhatHappens'
    BY DEF DiffIsWhatHappens
  <2>2. call.dry_run \/ (InSync(diff) /\ (call.op = "restore" \/ (call.op = "backup" /\ call.kind = "repo")))
    BY <1>5, <1>6, <2>1, <1>1, <1>4 DEF Fields
  <2>3. ~call.dry_run => RefsAt(To) = AskedFor /\ ~call.squash
    <3>1. SUFFICES ASSUME ~call.dry_run PROVE RefsAt(To) = AskedFor /\ ~call.squash
      OBVIOUS
    <3>2. To # "bundle" /\ call.op # "import" /\ ~call.squash /\ InSync(diff)
      BY <1>10, <2>2, <3>1 DEF To, Sends, AskOK
    <3>3. IsFunction(AskedFor) /\ IsFunction(call.before[To])
      BY <1>10, AskedForIs DEF AskOK
    <3>4. QED
      BY <1>10, <1>11, <3>2, <3>3, InSyncEqual
  <2>4. RefsAt(To)' = RefsAt(To) /\ RefsAt(To) = call.before[To]
    BY <1>2, <1>9, <1>10
  <2>5. call'.refused = {} /\ Granted(AskedFor, call.before[To], {}) = AskedFor
    BY <1>1, <1>6, AskedForIs, GrantedIs DEF RefusedOK
  <2>6. QED
    BY <1>6, <1>9, <1>11, <2>3, <2>4, <2>5 DEF DiffIsWhatHappens, SameCall
<1>14. QED
  BY <1>12, <1>13

(* What a transfer has still to do when its objects have arrived.          *)
LEMMA TransferDone ==
    ASSUME MirrorInv, RefusedOK, DoneOK, call.pc = "transfer", UNCHANGED <<refs, bundle>>,
           SameCall, call'.pc = "update", call'.diff = call.diff, call'.refused = call.refused,
           Quiet => /\ To # "bundle" /\ ~call.squash /\ call'.tips = New
                    /\ call'.deletes = IF Mirrors THEN DOMAIN call.before[To] \ DOMAIN New ELSE {}
    PROVE  DoneOK'
<1>1. AskOK' /\ DiffIsWhatHappens'
  BY SameCallAsks DEF DoneOK, DiffIsWhatHappens
<1>2. SUFFICES ASSUME Quiet' PROVE QuietOK'
  BY <1>1 DEF DoneOK, QuietOK
<1>3. /\ Quiet /\ To' = To /\ New' = New /\ AskedFor' = AskedFor /\ Mirrors' = Mirrors
      /\ call'.before = call.before
  BY <1>2, SameCallAsks DEF SameCall
<1>4. (\A p \in Places : RefsAt(p) = call.before[p]) /\ To \in Places /\ Mirrors \in BOOLEAN
  BY <1>3, AsBefore, AskedForIs DEF DoneOK
<1>5. \A p : RefsAt(p)' = RefsAt(p)
  BY DEF RefsAt
<1>6. OthersKept'
  BY <1>3, <1>4, <1>5 DEF OthersKept
<1>7. UpdatingOK'
  <2>1. refs'[To] = call.before[To] /\ ~call.dry_run
    BY <1>3, <1>4 DEF RefsAt, DoneOK, QuietOK, ListingOK
  <2>2. PICK old : old = call.before[To]
    OBVIOUS
  <2>3. PICK new : new = New
    OBVIOUS
  <2>4. PICK deletes : deletes = IF Mirrors THEN DOMAIN old \ DOMAIN new ELSE {}
    OBVIOUS
  <2>5. Progress(old, old, new, new, deletes, {}, Mirrors)
    BY <1>4, <2>4, ProgressStarts
  <2>6. call'.tips = new /\ call'.deletes = deletes /\ call'.refused = {}
    BY <1>3, <2>2, <2>3, <2>4 DEF RefusedOK
  <2>7. QED
    BY <1>3, <2>1, <2>2, <2>3, <2>5, <2>6 DEF UpdatingOK, SameCall
<1>8. DiffOK'
  BY <1>3 DEF DiffOK, DoneOK, QuietOK, SameCall
<1>9. QED
  BY <1>6, <1>7, <1>8 DEF QuietOK, ListingOK, ExportingOK

(* A backup sends what it has listed.                                      *)
LEMMA PushDone ==
    ASSUME MirrorInv, RefusedOK, DoneOK, Push
    PROVE  DoneOK'
<1>1. PICK tips : tips = Carried(Selected(call.request, call.views["local"]), refs["local"])
  OBVIOUS
<1>2. /\ call.pc = "transfer" /\ call.op = "backup" /\ call.kind = "repo"
      /\ UNCHANGED <<refs, bundle>> /\ call = [f \in Fields |-> call[f]]
      /\ DOMAIN call.views = Side
  BY DEF Push, MirrorInv, CallOK, Views
<1>3. call' = [call EXCEPT !.pc = "update", !.tips = tips,
                           !.deletes = IF IsMirror(call.request)
                                       THEN DOMAIN call.views["remote"] \ DOMAIN tips ELSE {}]
  BY <1>1, Zenon DEF Push
<1>4. /\ SameCall /\ call'.pc = "update" /\ call'.diff = call.diff /\ call'.tips = tips
      /\ call'.refused = call.refused
      /\ call'.deletes = IF IsMirror(call.request)
                         THEN DOMAIN call.views["remote"] \ DOMAIN tips ELSE {}
  BY <1>2, <1>3 DEF SameCall, Fields
<1>5. From = "local" /\ To = "remote" /\ ~call.squash
  BY <1>2 DEF From, To, Sends, DoneOK, AskOK
<1>6. ASSUME Quiet
      PROVE  /\ tips = New
             /\ call'.deletes = IF Mirrors THEN DOMAIN call.before[To] \ DOMAIN New ELSE {}
  <2>1. /\ call.views["local"] = call.before["local"] /\ refs["local"] = call.before["local"]
        /\ call.views["remote"] = call.before["remote"]
    BY <1>2, <1>6, AsBefore DEF DoneOK, Place, Side
  <2>2. tips = New
    BY <1>1, <1>5, <2>1 DEF New, Renamed
  <2>3. QED
    BY <1>2, <1>4, <1>5, <2>1, <2>2 DEF Mirrors
<1>7. QED
  BY <1>2, <1>4, <1>5, <1>6, TransferDone

(* A restore fetches what it has listed: nothing has disappeared.          *)
LEMMA FetchDone ==
    ASSUME MirrorInv, RefusedOK, DoneOK, Fetch
    PROVE  DoneOK'
<1>1. PICK selected : selected = Selected(call.request, call.views["remote"])
  OBVIOUS
<1>2. PICK tips : tips = Carried(Restrict(selected, DOMAIN selected \cap DOMAIN refs["remote"]),
                                 refs["remote"])
  OBVIOUS
<1>3. /\ call.pc = "transfer" /\ call.op = "restore" /\ call.kind = "repo"
      /\ UNCHANGED <<refs, bundle>> /\ call = [f \in Fields |-> call[f]]
      /\ DOMAIN call.views = Side
  BY DEF Fetch, MirrorInv, CallOK, Views
<1>4. call' = [call EXCEPT !.pc = "update", !.tips = tips]
  BY <1>1, <1>2 DEF Fetch
<1>5. /\ SameCall /\ call'.pc = "update" /\ call'.diff = call.diff /\ call'.tips = tips
      /\ call'.deletes = call.deletes /\ call'.refused = call.refused
  BY <1>3, <1>4 DEF SameCall, Fields
<1>6. From = "remote" /\ To = "local" /\ ~call.squash /\ ~Mirrors
  BY <1>3 DEF From, To, Sends, DoneOK, AskOK, Mirrors
<1>7. ASSUME Quiet PROVE tips = New /\ call'.deletes = {}
  <2>1. /\ call.views["remote"] = call.before["remote"] /\ refs["remote"] = call.before["remote"]
        /\ call.deletes = {}
    BY <1>3, <1>7, AsBefore DEF DoneOK, Place, Side
  <2>2. DOMAIN selected \subseteq DOMAIN refs["remote"] /\ IsFunction(selected)
    BY <1>1, <2>1, SelectedType, SelectedFunction
  <2>3. Restrict(selected, DOMAIN selected \cap DOMAIN refs["remote"]) = selected
    BY <2>2 DEF Restrict, IsFunction
  <2>4. QED
    BY <1>1, <1>2, <1>5, <1>6, <2>1, <2>3 DEF New, Renamed
<1>8. QED
  BY <1>3, <1>5, <1>6, <1>7, TransferDone

(* An import brings what the bundle has.                                   *)
LEMMA ImportDone ==
    ASSUME MirrorInv, RefusedOK, DoneOK, ImportBundle
    PROVE  DoneOK'
<1>1. PICK tips : tips = Renamed(call.request, bundle.refs)
  OBVIOUS
<1>2. /\ call.pc = "transfer" /\ call.kind = "bundle" /\ ~Sends(call.op)
      /\ UNCHANGED <<refs, bundle, parent>> /\ call = [f \in Fields |-> call[f]]
  BY DEF ImportBundle, MirrorInv, CallOK
<1>3. From = "bundle" /\ To = "local" /\ ~call.squash /\ ~Mirrors
  BY <1>2 DEF From, To, Sends, DoneOK, AskOK, Mirrors
<1>4. ASSUME Quiet
      PROVE  /\ tips = New /\ call.deletes = {} /\ refs["local"] = call.before["local"]
             /\ \A p \in Places : RefsAt(p) = call.before[p]
  BY <1>1, <1>2, <1>3, <1>4, AsBefore DEF DoneOK, New
<1>5. CASE call' = Failed
  BY <1>5, NoCallDone
<1>6. CASE call' = [call EXCEPT !.pc = "update", !.tips = tips]
  <2>1. /\ SameCall /\ call'.pc = "update" /\ call'.diff = call.diff /\ call'.tips = tips
        /\ call'.deletes = call.deletes /\ call'.refused = call.refused
    BY <1>2, <1>6 DEF SameCall, Fields
  <2>2. QED
    BY <1>2, <1>3, <1>4, <2>1, TransferDone
<1>7. CASE DOMAIN tips = {} /\ call' = Returned(call)
  <2>1. /\ SameCall /\ call'.pc = "idle" /\ call'.outcome = "ok" /\ call'.diff = call.diff
        /\ call'.refused = call.refused
    BY <1>2, <1>7 DEF SameCall, Returned, Fields
  <2>2. SUFFICES ASSUME Quiet' PROVE QuietOK' /\ DiffIsWhatHappens'
    BY <2>1, NotQuiet, SameCallAsks DEF DoneOK
  <2>3. /\ Quiet /\ To' = To /\ AskedFor' = AskedFor /\ call'.before = call.before
    BY <2>1, <2>2, SameCallAsks DEF SameCall
  <2>4. \A p : RefsAt(p)' = RefsAt(p)
    BY <1>2 DEF RefsAt
  <2>5. QuietOK'
    <3>1. OthersKept'
      BY <1>4, <2>3, <2>4 DEF OthersKept
    <3>2. QED
      BY <2>1, <3>1 DEF QuietOK, ListingOK, UpdatingOK, ExportingOK, DiffOK
  <2>6. AskedFor = call.before["local"]
    <3>1. AskedFor = Overlay(New, call.before["local"]) /\ DOMAIN New = {}
      BY <1>3, <1>4, <1>7, <2>3, AskedForIs
    <3>2. PICK old : old = call.before["local"]
      OBVIOUS
    <3>3. IsFunction(old)
      BY <3>2 DEF DoneOK, AskOK, Places, Side
    <3>4. PICK new : new = New
      OBVIOUS
    <3>5. Overlay(new, old) = old
      BY <3>1, <3>3, <3>4 DEF Overlay, IsFunction
    <3>6. QED
      BY <3>1, <3>2, <3>4, <3>5
  <2>7. ~call.dry_run /\ (call.op # "import" => call.diff = DiffRefs(AskedFor, call.before[To]))
    BY <1>2, <1>3, <2>3 DEF DoneOK, QuietOK, ListingOK, DiffOK
  <2>8. RefsAt(To)' = AskedFor
    BY <1>3, <1>4, <2>3, <2>4, <2>6 DEF Places, Side
  <2>9. call'.refused = {} /\ Granted(AskedFor, call.before[To], {}) = AskedFor
    BY <1>2, <2>1, AskedForIs, GrantedIs DEF RefusedOK
  <2>10. DiffIsWhatHappens'
    BY <1>3, <2>1, <2>3, <2>7, <2>8, <2>9 DEF DiffIsWhatHappens, SameCall
  <2>11. QED
    BY <2>5, <2>10
<1>8. QED
  BY <1>1, <1>5, <1>6, <1>7 DEF ImportBundle

(* Every reference that is moved, deleted or refused is progress.          *)
LEMMA UpdateDone ==
    ASSUME MirrorInv, DoneOK, UpdateOneRef \/ DeleteOneRef \/ RefuseOneRef
    PROVE  DoneOK'
<1>1. /\ call.pc = "update" /\ UNCHANGED <<bundle, parent>> /\ call = [f \in Fields |-> call[f]]
      /\ refs = [s \in Side |-> refs[s]]
  BY DEF UpdateOneRef, DeleteOneRef, RefuseOneRef, repoVars, storeVars, MirrorInv, CallOK, RefsOK
<1>2. ASSUME NEW now, refs' = [refs EXCEPT ![Target] = now],
             SameCall, call'.pc = "update", call'.diff = call.diff,
             Quiet => Progress(now, call.before[To], New, call'.tips, call'.deletes,
                               call'.refused, Mirrors)
      PROVE  DoneOK'
  <2>1. AskOK' /\ DiffIsWhatHappens'
    BY <1>2, SameCallAsks DEF DoneOK, DiffIsWhatHappens
  <2>2. SUFFICES ASSUME Quiet' PROVE QuietOK'
    BY <2>1 DEF DoneOK, QuietOK
  <2>3. /\ Quiet /\ To' = To /\ New' = New /\ AskedFor' = AskedFor /\ Mirrors' = Mirrors
        /\ call'.before = call.before
    BY <1>2, <2>2, SameCallAsks DEF SameCall
  <2>4. To # "bundle" /\ ~call.dry_run /\ ~call.squash
    BY <1>1, <2>3 DEF DoneOK, QuietOK, UpdatingOK
  <2>5. To = Target /\ Target \in Side
    BY <2>4 DEF To, Target, Side
  <2>6. \A p \in Places \ {To} : RefsAt(p)' = RefsAt(p)
    BY <1>1, <1>2, <2>5 DEF RefsAt, Places
  <2>7. OthersKept'
    BY <2>3, <2>6 DEF OthersKept, DoneOK, QuietOK
  <2>8. refs'[To] = now
    BY <1>1, <1>2, <2>5
  <2>9. UpdatingOK'
    BY <1>2, <2>3, <2>4, <2>8 DEF UpdatingOK, SameCall
  <2>10. DiffOK'
    BY <1>1, <1>2, <2>3 DEF DiffOK, DoneOK, QuietOK, SameCall
  <2>11. QED
    BY <1>2, <2>7, <2>9, <2>10 DEF QuietOK, ListingOK, ExportingOK
<1>3. /\ Mirrors \in BOOLEAN
      /\ Quiet => /\ To = Target
                  /\ Progress(refs[Target], call.before[To], New, call.tips, call.deletes,
                              call.refused, Mirrors)
  BY <1>1, AskedForIs DEF DoneOK, QuietOK, UpdatingOK, To, Target
<1>4. CASE UpdateOneRef
  <2>1. PICK r \in DOMAIN call.tips :
           /\ refs' = [refs EXCEPT ![Target] = With(@, r, call.tips[r])]
           /\ call' = [call EXCEPT !.tips = Without(@, r)]
    BY <1>4 DEF UpdateOneRef
  <2>2. PICK now : now = With(refs[Target], r, call.tips[r])
    OBVIOUS
  <2>3. refs' = [refs EXCEPT ![Target] = now]
    BY <1>1, <2>1, <2>2
  <2>4. /\ SameCall /\ call'.pc = "update" /\ call'.diff = call.diff
        /\ call'.tips = Without(call.tips, r) /\ call'.deletes = call.deletes
        /\ call'.refused = call.refused
    BY <1>1, <2>1 DEF SameCall, Fields
  <2>5. Quiet => Progress(now, call.before[To], New, call'.tips, call'.deletes, call'.refused,
                          Mirrors)
    BY <1>3, <2>2, <2>4, ProgressUpdates
  <2>6. QED
    BY <1>2, <2>3, <2>4, <2>5
<1>5. CASE DeleteOneRef
  <2>1. PICK r \in call.deletes :
           /\ refs' = [refs EXCEPT ![Target] = Without(@, r)]
           /\ call' = [call EXCEPT !.deletes = @ \ {r}]
    BY <1>5 DEF DeleteOneRef
  <2>2. PICK now : now = Without(refs[Target], r)
    OBVIOUS
  <2>3. refs' = [refs EXCEPT ![Target] = now]
    BY <1>1, <2>1, <2>2
  <2>4. /\ SameCall /\ call'.pc = "update" /\ call'.diff = call.diff
        /\ call'.tips = call.tips /\ call'.deletes = call.deletes \ {r}
        /\ call'.refused = call.refused
    BY <1>1, <2>1 DEF SameCall, Fields
  <2>5. Quiet => Progress(now, call.before[To], New, call'.tips, call'.deletes, call'.refused,
                          Mirrors)
    BY <1>3, <2>2, <2>4, ProgressDeletes
  <2>6. QED
    BY <1>2, <2>3, <2>4, <2>5
<1>6. CASE RefuseOneRef
  <2>1. PICK r \in DOMAIN call.tips \cup call.deletes :
           call' = [call EXCEPT !.tips = Without(@, r), !.deletes = @ \ {r},
                                !.refused = @ \cup {r}]
    BY <1>6 DEF RefuseOneRef
  <2>2. PICK now : now = refs[Target]
    OBVIOUS
  <2>3. refs' = [refs EXCEPT ![Target] = now]
    BY <1>1, <1>6, <2>2 DEF RefuseOneRef, repoVars
  <2>4. /\ SameCall /\ call'.pc = "update" /\ call'.diff = call.diff
        /\ call'.tips = Without(call.tips, r) /\ call'.deletes = call.deletes \ {r}
        /\ call'.refused = call.refused \cup {r}
    BY <1>1, <2>1 DEF SameCall, Fields
  <2>5. Quiet => Progress(now, call.before[To], New, call'.tips, call'.deletes, call'.refused,
                          Mirrors)
    BY <1>3, <2>2, <2>4, ProgressRefuses
  <2>6. QED
    BY <1>2, <2>3, <2>4, <2>5
<1>7. QED
  BY <1>4, <1>5, <1>6

(* A transfer returns when all is done or refused.                         *)
LEMMA ReturnDone ==
    ASSUME MirrorInv, RefusedOK, DoneOK, Return
    PROVE  DoneOK'
<1>1. /\ call.pc = "update" /\ DOMAIN call.tips = {} /\ call.deletes = {}
      /\ UNCHANGED <<refs, bundle, parent>> /\ call' = Returned(call)
      /\ call = [f \in Fields |-> call[f]]
  BY DEF Return, repoVars, storeVars, MirrorInv, CallOK
<1>2. /\ SameCall /\ call'.pc = "idle" /\ call'.outcome = "ok" /\ call'.diff = call.diff
      /\ call'.refused = call.refused
  BY <1>1 DEF SameCall, Returned, Fields
<1>3. SUFFICES ASSUME Quiet' PROVE QuietOK' /\ DiffIsWhatHappens'
  BY <1>2, NotQuiet, SameCallAsks DEF DoneOK
<1>4. /\ Quiet /\ To' = To /\ AskedFor' = AskedFor /\ call'.before = call.before
  BY <1>2, <1>3, SameCallAsks DEF SameCall
<1>5. \A p : RefsAt(p)' = RefsAt(p)
  BY <1>1 DEF RefsAt
<1>6. QuietOK'
  <2>1. OthersKept'
    BY <1>4, <1>5 DEF OthersKept, DoneOK, QuietOK
  <2>2. QED
    BY <1>2, <2>1 DEF QuietOK, ListingOK, UpdatingOK, ExportingOK, DiffOK
<1>7. /\ To # "bundle" /\ ~call.dry_run /\ ~call.squash
      /\ Progress(refs[To], call.before[To], New, call.tips, call.deletes, call.refused, Mirrors)
      /\ call.op # "import" => call.diff = DiffRefs(AskedFor, call.before[To])
  BY <1>1, <1>4 DEF DoneOK, QuietOK, UpdatingOK, DiffOK
<1>8. refs[To] = Granted(AskedFor, call.before[To], call.refused)
  <2>1. PICK now, old : now = refs[To] /\ old = call.before[To]
    OBVIOUS
  <2>2. PICK new, tips, deletes, refused, asked :
           /\ new = New /\ tips = call.tips /\ deletes = call.deletes
           /\ refused = call.refused /\ asked = AskedFor
    OBVIOUS
  <2>3. PICK mirrors \in BOOLEAN : mirrors = Mirrors
    BY AskedForIs
  <2>4. Progress(now, old, new, tips, deletes, refused, mirrors)
    BY <1>7, <2>1, <2>2, <2>3
  <2>5. asked = IF mirrors THEN new ELSE Overlay(new, old)
    BY <1>7, <2>1, <2>2, <2>3, AskedForIs
  <2>6. IsFunction(now) /\ DOMAIN tips = {} /\ deletes = {}
    BY <1>1, <1>7, <2>1, <2>2 DEF MirrorInv, RefsOK, IsTips, IsFunction, To, Side
  <2>7. now = Granted(asked, old, refused)
    BY <2>4, <2>5, <2>6, ProgressEnds
  <2>8. QED
    BY <2>1, <2>2, <2>7
<1>9. RefsAt(To)' = Granted(AskedFor, call.before[To], call.refused)
  BY <1>4, <1>5, <1>7, <1>8 DEF RefsAt
<1>10. call.refused # {} => call.op = "backup" /\ To = "remote"
  BY DEF RefusedOK, ToRepository, To, Sends
<1>11. DiffIsWhatHappens'
  BY <1>2, <1>4, <1>7, <1>9, <1>10 DEF DiffIsWhatHappens, SameCall
<1>12. QED
  BY <1>6, <1>11

(* Writing the bundle.                                                     *)
LEMMA BundleDone ==
    ASSUME MirrorInv, RefusedOK, DoneOK, WriteHeader \/ WriteBundlePack
    PROVE  DoneOK'
<1>1. /\ call.pc = "export" /\ UNCHANGED <<refs, parent>> /\ call = [f \in Fields |-> call[f]]
      /\ bundle = [state |-> bundle.state, refs |-> bundle.refs, objects |-> bundle.objects,
                   needs |-> bundle.needs]
  BY DEF WriteHeader, WriteBundlePack, storeVars, MirrorInv, CallOK, BundleOK
<1>2. \A p \in Side : RefsAt(p)' = RefsAt(p)
  BY <1>1 DEF RefsAt, Side
<1>3. ASSUME Quiet
      PROVE  /\ To = "bundle" /\ ~call.dry_run /\ DOMAIN call.tips = DOMAIN New /\ AskedFor = New
             /\ IF call.squash THEN \A r \in DOMAIN call.tips : parent[call.tips[r]] = 0
                ELSE call.tips = New
  BY <1>1, <1>3, AskedForIs DEF DoneOK, QuietOK, ExportingOK
<1>4. CASE WriteHeader
  <2>1. SameCall /\ call' = call
    BY <1>4 DEF WriteHeader, SameCall
  <2>2. AskOK' /\ DiffIsWhatHappens'
    BY <1>1, <2>1, SameCallAsks DEF DoneOK, DiffIsWhatHappens
  <2>3. SUFFICES ASSUME Quiet' PROVE QuietOK'
    BY <2>2 DEF DoneOK, QuietOK
  <2>4. Quiet /\ To' = To /\ New' = New
    BY <2>1, <2>3, SameCallAsks
  <2>5. OthersKept'
    BY <1>2, <1>3, <2>1, <2>4 DEF OthersKept, DoneOK, QuietOK, Places
  <2>6. ExportingOK'
    BY <1>1, <1>3, <2>1, <2>4 DEF ExportingOK
  <2>7. QED
    BY <1>1, <2>1, <2>5, <2>6 DEF QuietOK, ListingOK, UpdatingOK, DiffOK
<1>5. CASE WriteBundlePack
  <2>1. PICK c : c = [call EXCEPT !.tips = NoRefs]
    OBVIOUS
  <2>2. call' = Returned(c) /\ bundle.state = "pack"
    BY <1>5, <2>1 DEF WriteBundlePack
  <2>3. SameCall /\ call'.pc = "idle" /\ call'.outcome = "ok" /\ call'.refused = call.refused
    BY <1>1, <2>1, <2>2 DEF SameCall, Returned, Fields
  <2>4. bundle'.refs = call.tips
    <3>1. bundle.refs = call.tips
      BY <1>1, <2>2 DEF MirrorInv, BundleOK
    <3>2. bundle' = [bundle EXCEPT !.state = "whole", !.objects = PackedHistory(call.tips)]
      BY <1>5 DEF WriteBundlePack
    <3>3. QED
      BY <1>1, <3>1, <3>2
  <2>5. SUFFICES ASSUME Quiet' PROVE QuietOK' /\ DiffIsWhatHappens'
    BY <2>3, NotQuiet, SameCallAsks DEF DoneOK
  <2>6. /\ Quiet /\ To' = To /\ AskedFor' = AskedFor /\ call'.before = call.before
    BY <2>3, <2>5, SameCallAsks DEF SameCall
  <2>7. QuietOK'
    <3>1. OthersKept'
      BY <1>2, <1>3, <2>6 DEF OthersKept, DoneOK, QuietOK, Places
    <3>2. QED
      BY <2>3, <3>1 DEF QuietOK, ListingOK, UpdatingOK, ExportingOK, DiffOK
  <2>8. RefsAt(To)' = call.tips
    BY <1>3, <2>4, <2>6 DEF RefsAt
  <2>9. call'.refused = {} /\ Granted(AskedFor, call.before[To], {}) = AskedFor
    BY <1>1, <2>3, AskedForIs, GrantedIs DEF RefusedOK
  <2>10. DiffIsWhatHappens'
    BY <1>1, <1>3, <2>3, <2>6, <2>8, <2>9 DEF DiffIsWhatHappens, SameCall
  <2>11. QED
    BY <2>7, <2>10
<1>6. QED
  BY <1>4, <1>5

(* A bundle is to have what was listed.                                    *)
LEMMA ExportDone ==
    ASSUME MirrorInv, DoneOK, ExportBundle
    PROVE  DoneOK'
<1>1. /\ call.pc = "transfer" /\ call.kind = "bundle" /\ Sends(call.op) /\ refs' = refs
      /\ call = [f \in Fields |-> call[f]] /\ "local" \in DOMAIN call.views
  BY DEF ExportBundle, MirrorInv, CallOK, Views, Sends
<1>2. From = "local" /\ To = "bundle"
  BY <1>1 DEF From, To
<1>3. ASSUME NEW squashed, NEW new, ExportTips(squashed, new) PROVE DoneOK'
  <2>1. /\ SameCall /\ call'.pc = "export"
        /\ call'.tips = IF call.squash THEN squashed ELSE Listing
    BY <1>1, <1>3 DEF ExportTips, SameCall, Fields
  <2>2. AskOK' /\ DiffIsWhatHappens'
    BY <2>1, SameCallAsks DEF DoneOK, DiffIsWhatHappens
  <2>3. SUFFICES ASSUME Quiet' PROVE QuietOK'
    BY <2>2 DEF DoneOK, QuietOK
  <2>4. Quiet /\ To' = To /\ New' = New /\ call'.before = call.before
    BY <2>1, <2>3, SameCallAsks DEF SameCall
  <2>5. Listing = New /\ ~call.dry_run
    <3>1. call.views["local"] = call.before["local"] /\ ~call.dry_run
      BY <1>1, <2>4, AsBefore DEF DoneOK, QuietOK, ListingOK, Place
    <3>2. QED
      BY <1>2, <3>1 DEF Listing, New
  <2>6. \A p \in Places \ {"bundle"} : RefsAt(p)' = RefsAt(p)
    BY <1>1 DEF RefsAt
  <2>7. OthersKept'
    BY <1>2, <2>4, <2>6 DEF OthersKept, DoneOK, QuietOK
  <2>8. ExportingOK'
    <3>1. CASE call.squash
      <4>1. DOMAIN call'.tips = DOMAIN New /\ \A r \in DOMAIN call'.tips : parent'[call'.tips[r]] = 0
        BY <1>3, <2>1, <2>5, <3>1 DEF ExportTips
      <4>2. QED
        BY <1>2, <2>1, <2>4, <2>5, <3>1, <4>1 DEF ExportingOK, SameCall
    <3>2. CASE ~call.squash
      BY <1>2, <2>1, <2>4, <2>5, <3>2 DEF ExportingOK, SameCall
    <3>3. QED
      BY <3>1, <3>2
  <2>9. QED
    BY <2>1, <2>7, <2>8 DEF QuietOK, ListingOK, UpdatingOK, DiffOK
<1>4. CASE ExportFails
  BY <1>4, NoCallDone DEF ExportFails
<1>5. QED
  BY <1>3, <1>4, ExportBegins

(* pack() does not touch references.                                       *)
LEMMA UnchangedDone ==
    ASSUME DoneOK, UNCHANGED <<parent, refs, bundle, call>>
    PROVE  DoneOK'
<1>1. SameCall
  BY DEF SameCall
<1>2. /\ Quiet' = Quiet /\ From' = From /\ To' = To /\ New' = New
      /\ Mirrors' = Mirrors /\ AskedFor' = AskedFor /\ \A v : Place(v)' = Place(v) /\ AskOK'
  BY <1>1, SameCallAsks DEF DoneOK
<1>3. \A p : RefsAt(p)' = RefsAt(p)
  BY DEF RefsAt
<1>4. QuietOK'
  BY <1>2, <1>3 DEF DoneOK, QuietOK, OthersKept, ListingOK, UpdatingOK, ExportingOK, DiffOK
<1>5. DiffIsWhatHappens'
  BY <1>2, <1>3 DEF DoneOK, DiffIsWhatHappens
<1>6. QED
  BY <1>2, <1>4, <1>5 DEF DoneOK

(* Nothing is promised when others interfere.                              *)
LEMMA DisturbDone ==
    ASSUME MirrorInv, DoneOK, Disturb
    PROVE  DoneOK'
<1>1. CASE call' = NoCall
  BY <1>1, NoCallDone
<1>2. CASE call' = [call EXCEPT !.quiet = FALSE]
  <2>1. call = [f \in Fields |-> call[f]]
    BY DEF MirrorInv, CallOK
  <2>2. /\ ~call'.quiet /\ call'.op = call.op /\ call'.kind = call.kind
        /\ call'.squash = call.squash /\ call'.dry_run = call.dry_run /\ call'.before = call.before
    BY <1>2, <2>1 DEF Fields
  <2>3. AskOK'
    BY <2>2 DEF DoneOK, AskOK, Sends
  <2>4. QED
    BY <2>2, <2>3, NotQuiet DEF DoneOK, Quiet
<1>3. QED
  BY <1>1, <1>2 DEF Disturb

(* Every step keeps what undisturbed calls promise.                        *)
LEMMA NextDoneOK ==
    ASSUME MirrorInv, RefusedOK, DoneOK, [Next]_vars
    PROVE  DoneOK'
<1>1. ASSUME UNCHANGED vars PROVE DoneOK'
  BY <1>1, UnchangedDone DEF vars, repoVars, storeVars
<1>2. ASSUME NEW op \in Ops, NEW k, NEW q, NEW d, NEW s, Call(op, k, q, d, s) PROVE DoneOK'
  BY <1>2, CallDone
<1>3. ASSUME NEW p \in Packer, Pack(p) \/ PackOn(p) PROVE DoneOK'
  BY <1>3, UnchangedDone DEF Pack, PackOn
<1>4. ASSUME NEW s \in Side, NEW r, OtherCommit(s, r) \/ OtherDelete(s, r) PROVE DoneOK'
  BY <1>4, DisturbDone DEF OtherCommit, OtherDelete
<1>5. ASSUME NEW x, Fail \/ OtherExport(x) \/ ForeignBundle(x) PROVE DoneOK'
  BY <1>5, NoCallDone DEF Fail, OtherExport, ForeignBundle
<1>6. QED
  BY <1>1, <1>2, <1>3, <1>4, <1>5, ListDone, CompareDone, PushDone, FetchDone, ImportDone,
     UpdateDone, ReturnDone, ExportDone, BundleDone
  DEF Next

(* At the start nothing has been refused,                                  *)
LEMMA InitRefusedOK == Init => RefusedOK
BY DEF Init, NoCall, RefusedOK

(* and updates and deletions are refused only to backups.                  *)
LEMMA NextRefusedOK ==
    ASSUME MirrorInv, RefusedOK, [Next]_vars
    PROVE  RefusedOK'
<1>1. call = [f \in Fields |-> call[f]]
  BY DEF MirrorInv, CallOK
<1>2. ASSUME call'.refused = {}, call'.pc # "update" PROVE RefusedOK'
  BY <1>2 DEF RefusedOK
<1>3. ASSUME call'.refused = call.refused, call'.op = call.op, call'.kind = call.kind,
             call'.pc \in {"idle", call.pc}
      PROVE  RefusedOK'
  BY <1>3 DEF RefusedOK, ToRepository
<1>4. ASSUME call.pc \in {"list", "transfer"}, call'.refused = call.refused,
             call'.pc # "update"
      PROVE  RefusedOK'
  BY <1>4 DEF RefusedOK
<1>5. ASSUME call.pc = "transfer", call'.refused = call.refused, call'.op = call.op,
             call'.kind = call.kind, Sends(call.op) => ToRepository
      PROVE  RefusedOK'
  BY <1>5 DEF RefusedOK, ToRepository
<1>6. CASE call' \in {NoCall, Failed}
  BY <1>2, <1>6 DEF NoCall, Failed
<1>7. CASE call' = Returned(call)
  BY <1>1, <1>3, <1>7 DEF Returned, Fields
<1>8. ASSUME NEW op, NEW k, NEW q, NEW d, NEW s, Call(op, k, q, d, s) PROVE RefusedOK'
  BY <1>2, <1>8 DEF Call, NoCall
<1>9. CASE ListLocal \/ ListRemote \/ ListRemoteFails
  BY <1>1, <1>4, <1>6, <1>9 DEF ListLocal, ListRemote, ListRemoteFails, Listed, Fields
<1>10. CASE Compare
  <2>1. PICK c : c = [call EXCEPT !.diff = DiffOf(call)]
    OBVIOUS
  <2>2. call.pc = "list" /\ call' \in {Returned(c), [c EXCEPT !.pc = "transfer"]}
    BY <1>10, <2>1, Zenon DEF Compare
  <2>3. call'.refused = call.refused /\ call'.pc # "update"
    BY <1>1, <2>1, <2>2, ZenonT(60) DEF Returned, Fields
  <2>4. QED
    BY <1>4, <2>2, <2>3
<1>11. CASE Push
  BY <1>1, <1>5, <1>11 DEF Push, ToRepository, Fields
<1>12. CASE Fetch
  BY <1>1, <1>5, <1>12 DEF Fetch, Sends, Fields
<1>13. CASE ImportBundle
  BY <1>1, <1>5, <1>6, <1>7, <1>13 DEF ImportBundle, Fields
<1>14. CASE UpdateOneRef \/ DeleteOneRef
  BY <1>1, <1>3, <1>14 DEF UpdateOneRef, DeleteOneRef, Fields
<1>15. CASE RefuseOneRef
  <2>1. /\ call.pc = "update" /\ Sends(call.op)
        /\ call'.pc = call.pc /\ call'.op = call.op /\ call'.kind = call.kind
    BY <1>1, <1>15 DEF RefuseOneRef, Target, Fields
  <2>2. QED
    BY <2>1 DEF RefusedOK, ToRepository
<1>16. CASE Return \/ Fail
  BY <1>6, <1>7, <1>16 DEF Return, Fail
<1>17. CASE ExportBundle
  <2>1. ASSUME NEW squashed, NEW new, ExportTips(squashed, new) PROVE RefusedOK'
    <3>1. call'.refused = call.refused /\ call'.pc = "export"
      BY <1>1, <2>1 DEF ExportTips, Fields
    <3>2. QED
      BY <1>4, <1>17, <3>1 DEF ExportBundle
  <2>2. QED
    BY <1>6, <1>17, <2>1, ExportBegins DEF ExportFails
<1>18. CASE WriteHeader
  BY <1>3, <1>18 DEF WriteHeader
<1>19. CASE WriteBundlePack
  <2>1. PICK c : c = [call EXCEPT !.tips = NoRefs]
    OBVIOUS
  <2>2. call' = Returned(c)
    BY <1>19, <2>1 DEF WriteBundlePack
  <2>3. QED
    BY <1>1, <1>3, <2>1, <2>2 DEF Returned, Fields
<1>20. ASSUME NEW p \in Packer, Pack(p) \/ PackOn(p) PROVE RefusedOK'
  BY <1>3, <1>20 DEF Pack, PackOn
<1>21. ASSUME NEW s \in Side, NEW r, OtherCommit(s, r) \/ OtherDelete(s, r) PROVE RefusedOK'
  BY <1>1, <1>3, <1>6, <1>21 DEF OtherCommit, OtherDelete, Disturb, Fields
<1>22. ASSUME NEW x, OtherExport(x) \/ ForeignBundle(x) PROVE RefusedOK'
  BY <1>6, <1>22 DEF OtherExport, ForeignBundle
<1>23. CASE UNCHANGED vars
  BY <1>3, <1>23 DEF vars
<1>24. QED
  BY <1>8, <1>9, <1>10, <1>11, <1>12, <1>13, <1>14, <1>15, <1>16, <1>17, <1>18, <1>19, <1>20,
     <1>21, <1>22, <1>23
  DEF Next

(* At the start no call has been made.                                     *)
LEMMA InitDoneOK == Init => DoneOK
<1> SUFFICES ASSUME Init PROVE DoneOK
  OBVIOUS
<1>1. /\ call.op = "none" /\ call.kind = "repo" /\ ~call.squash
      /\ call.before = [s \in Side \cup {"bundle"} |-> NoRefs]
  BY DEF Init, NoCall
<1>2. IsFunction(NoRefs)
  BY DEF IsFunction, NoRefs
<1>3. AskOK
  BY <1>1, <1>2 DEF AskOK, Places
<1>4. QED
  BY <1>1, <1>3 DEF DoneOK, QuietOK, DiffIsWhatHappens, Quiet

(* A transfer that nobody disturbs has done all it was asked for when it   *)
(* returns, but for what the other repository refused of a backup; its     *)
(* MirrorDiff says what was asked; a dry run has moved no reference        *)
(* (mirror.cpp, backup, restore, bundle_export, bundle_import).            *)
THEOREM TransfersDone ==
    ASSUME ~InsertsFail
    PROVE  Spec => []DiffIsWhatHappens
<1>1. DoneOK => DiffIsWhatHappens
  BY DEF DoneOK
<1>2. QED
  BY <1>1, InitMirrorInv, NextMirrorInv, InitRefusedOK, NextRefusedOK, InitDoneOK, NextDoneOK, PTL
  DEF Spec

-----------------------------------------------------------------------------
(* References keep their kind.                                             *)

(* References with full names.                                             *)
IsNamed(f) == \A r \in DOMAIN f : IsRefName(r)

(* Wherever references are, they have full names.                          *)
NamesOK ==
    /\ \A s \in Side : IsNamed(refs[s])
    /\ IsNamed(bundle.refs)
    /\ call.op # "none" \/ call.pc # "idle" => call.request \in Requests
    /\ \A p \in Places : IsNamed(call.before[p])
    /\ \A v \in DOMAIN call.views : IsNamed(call.views[v])
    /\ call.pc \in {"update", "export"} => IsNamed(call.tips)

(* What a request selects gets a full name, of the same kind unless the    *)
(* name is given in full.                                                  *)
LEMMA SelectedNames ==
    ASSUME NEW request \in Requests, NEW available, IsNamed(available),
           NEW selected, selected = Selected(request, available), NEW src \in DOMAIN selected
    PROVE  /\ IsRefName(selected[src])
           /\ selected[src][1] = src[1] \/ NamedInFull(request, selected[src])
<1>1. IsRefName(src)
  BY SelectedType DEF IsNamed
<1>2. CASE DOMAIN request.map # {}
  <2> DEFINE sources == {ResolveOneRef(n, available) : n \in DOMAIN request.map}
             key(s) == CHOOSE n \in DOMAIN request.map : ResolveOneRef(n, available) = s
  <2>1. selected = [s \in sources \cap DOMAIN available |-> Destination(s, request.map[key(s)])]
    BY <1>2, Zenon DEF Selected
  <2>2. src \in sources
    BY <2>1
  <2>3. PICK n \in DOMAIN request.map : n = key(src)
    BY <2>2
  <2>4. PICK d : d = request.map[n]
    OBVIOUS
  <2>5. selected[src] = Destination(src, d)
    BY <2>1, <2>3, <2>4
  <2>6. IsName(d)
    BY <2>3, <2>4, MirrorAssumption
  <2>7. CASE d.full
    <3>1. selected[src] = d.path /\ IsRefName(d.path)
      BY <2>5, <2>6, <2>7 DEF Destination, IsName
    <3>2. QED
      BY <2>3, <2>4, <2>7, <3>1 DEF NamedInFull
  <2>8. CASE ~d.full
    <3>1. selected[src] = Front(src) \o d.path
      BY <2>5, <2>8 DEF Destination
    <3>2. /\ src \in Seq(STRING) /\ Len(src) \in Nat /\ Len(src) > 1
          /\ d.path \in Seq(STRING) /\ Len(d.path) > 0
      BY <1>1, <2>6 DEF IsRefName, IsName
    <3>3. PICK front : front = Front(src)
      OBVIOUS
    <3>4. front \in Seq(STRING) /\ Len(front) = Len(src) - 1 /\ front[1] = src[1]
      BY <3>2, <3>3 DEF Front
    <3>5. PICK path : path = d.path
      OBVIOUS
    <3>6. /\ front \o path \in Seq(STRING) /\ Len(front \o path) > 1
          /\ (front \o path)[1] = front[1]
      BY <3>2, <3>4, <3>5
    <3>7. QED
      BY <3>1, <3>3, <3>4, <3>5, <3>6 DEF IsRefName
  <2>9. QED
    BY <2>7, <2>8
<1>3. CASE DOMAIN request.map = {}
  <2> DEFINE sources == IF request.names = {} THEN DOMAIN available
                        ELSE {ResolveOneRef(n, available) : n \in request.names}
  <2>1. selected = [s \in sources \cap DOMAIN available |-> s]
    BY <1>3, Zenon DEF Selected
  <2> HIDE DEF sources
  <2>2. selected[src] = src
    BY <2>1
  <2>3. QED
    BY <1>1, <2>2
<1>4. QED
  BY <1>2, <1>3

(* So the references that are transferred have full names.                 *)
LEMMA CarriedNames ==
    ASSUME NEW request \in Requests, NEW available, IsNamed(available), NEW others,
           NEW kept, IsFunction(kept),
           \A src \in DOMAIN kept : /\ src \in DOMAIN Selected(request, available)
                                    /\ kept[src] = Selected(request, available)[src]
    PROVE  IsNamed(Carried(kept, others))
<1>1. PICK selected : selected = Selected(request, available)
  OBVIOUS
<1>2. \A src \in DOMAIN kept : IsRefName(kept[src])
  BY <1>1, SelectedNames
<1>3. DOMAIN Carried(kept, others) = {kept[src] : src \in DOMAIN kept}
  BY DEF Carried
<1>4. QED
  BY <1>2, <1>3 DEF IsNamed

(* Renaming by a request's map makes full names of full names.             *)
LEMMA RenamedNames ==
    ASSUME NEW request \in Requests, NEW available, IsNamed(available)
    PROVE  IsNamed(Renamed(request, available))
BY CarriedNames, SelectedFunction DEF Renamed

(* Changes to a set of references that keep full names.                    *)
LEMMA NamesKept ==
    ASSUME NEW f, IsNamed(f)
    PROVE  /\ \A r, x : IsRefName(r) => IsNamed(With(f, r, x))
           /\ \A r : IsNamed(Without(f, r))
           /\ IsNamed(NoRefs)
BY DEF IsNamed, With, Without, NoRefs

(* Every step keeps full names.                                            *)
LEMMA EndNames ==
    ASSUME NamesOK, UNCHANGED <<refs, bundle>>, call'.pc = "idle", call'.views = NoRefs,
           \/ call' \in {NoCall, Failed}
           \/ call'.op = call.op /\ call'.request = call.request /\ call'.before = call.before
    PROVE  NamesOK'
<1>1. DOMAIN call'.views = {}
  BY DEF NoRefs
<1>2. CASE call' \in {NoCall, Failed}
  <2>1. /\ call'.op = "none" /\ call'.before = [s \in Side \cup {"bundle"} |-> NoRefs]
    BY <1>2 DEF NoCall, Failed
  <2>2. \A p \in Places : IsNamed(call'.before[p])
    BY <2>1 DEF Places, IsNamed, NoRefs
  <2>3. QED
    BY <1>1, <2>1, <2>2 DEF NamesOK
<1>3. QED
  BY <1>1, <1>2 DEF NamesOK

(* Going on to the updates keeps the names.                                *)
LEMMA TransferNames ==
    ASSUME NamesOK, UNCHANGED <<refs, bundle>>, SameCall, call.pc # "idle",
           call'.pc \in {"update", "export"}, call'.views = call.views, IsNamed(call'.tips)
    PROVE  NamesOK'
BY DEF NamesOK, SameCall

(* Every step keeps the names of references full.                          *)
LEMMA NextNamesOK ==
    ASSUME MirrorInv, DoneOK, NamesOK, [Next]_vars
    PROVE  NamesOK'
<1>1. call = [f \in Fields |-> call[f]] /\ refs = [s \in Side |-> refs[s]]
  BY DEF MirrorInv, CallOK, RefsOK
<1>2. ASSUME UNCHANGED <<refs, bundle, call>> PROVE NamesOK'
  BY <1>2 DEF NamesOK
<1>3. ASSUME NEW s \in Side, NEW f, IsNamed(f), refs' = [refs EXCEPT ![s] = f]
      PROVE  \A t \in Side : IsNamed(refs'[t])
  BY <1>1, <1>3 DEF NamesOK
<1>4. ASSUME NEW op \in Ops, NEW k, NEW q \in Requests, NEW d, NEW s, Call(op, k, q, d, s)
      PROVE  NamesOK'
  <2>1. /\ call' = [NoCall EXCEPT !.pc = "list", !.op = op, !.kind = k, !.request = q,
                                  !.dry_run = d, !.squash = s,
                                  !.before = [p \in Side \cup {"bundle"} |-> RefsAt(p)]]
        /\ UNCHANGED <<refs, bundle>>
    BY <1>4 DEF Call
  <2>2. /\ call'.pc = "list" /\ call'.request = q /\ call'.views = NoRefs
        /\ call'.before = [p \in Side \cup {"bundle"} |-> RefsAt(p)]
    BY <2>1 DEF NoCall
  <2>3. \A p \in Places : IsNamed(call'.before[p])
    BY <2>2 DEF Places, RefsAt, NamesOK
  <2>4. DOMAIN call'.views = {}
    BY <2>2 DEF NoRefs
  <2>5. QED
    BY <2>1, <2>2, <2>3, <2>4 DEF NamesOK
<1>5. ASSUME NEW v, NEW available, IsNamed(available), UNCHANGED <<refs, bundle>>, call.pc = "list",
             call' \in {[call EXCEPT !.views = With(@, v, available)],
                        [call EXCEPT !.views = With(@, v, available), !.reached = FALSE]}
      PROVE  NamesOK'
  <2>1. /\ call'.pc = "list" /\ call'.op = call.op /\ call'.request = call.request
        /\ call'.before = call.before /\ call'.views = With(call.views, v, available)
    BY <1>1, <1>5 DEF Fields
  <2>2. \A w \in DOMAIN call'.views : IsNamed(call'.views[w])
    BY <1>5, <2>1 DEF With, NamesOK
  <2>3. QED
    BY <1>5, <2>1, <2>2 DEF NamesOK
<1>6. CASE ListLocal
  BY <1>5, <1>6 DEF ListLocal, Listed, repoVars, NamesOK, Side
<1>7. CASE ListRemote
  <2>1. CASE call' = Failed
    BY <1>7, <2>1, EndNames, EndedCall DEF ListRemote, repoVars
  <2>2. CASE Listed("remote", refs["remote"]) \/ Listed("remote", bundle.refs)
    BY <1>5, <1>7, <2>2 DEF ListRemote, Listed, repoVars, NamesOK, Side
  <2>3. QED
    BY <1>7, <2>1, <2>2 DEF ListRemote
<1>8. CASE ListRemoteFails
  <2>1. IsNamed(NoRefs)
    BY DEF IsNamed, NoRefs
  <2>2. QED
    BY <1>5, <1>8, <2>1 DEF ListRemoteFails, repoVars
<1>9. CASE Compare
  <2>1. PICK c : c = [call EXCEPT !.diff = DiffOf(call)]
    OBVIOUS
  <2>2. /\ UNCHANGED <<refs, bundle>> /\ call.pc = "list"
        /\ call' \in {Returned(c), [c EXCEPT !.pc = "transfer"]}
    BY <1>9, <2>1, Zenon DEF Compare, repoVars
  <2>3. /\ call'.op = call.op /\ call'.request = call.request /\ call'.before = call.before
        /\ \/ call'.pc = "transfer" /\ call'.views = call.views
           \/ call'.pc = "idle" /\ call'.views = NoRefs
    BY <1>1, <2>1, <2>2, ZenonT(60) DEF Returned, Fields
  <2>4. CASE call'.pc = "transfer" /\ call'.views = call.views
    BY <2>2, <2>3, <2>4 DEF NamesOK
  <2>5. CASE call'.pc = "idle" /\ call'.views = NoRefs
    BY <2>2, <2>3, <2>5, EndNames
  <2>6. QED
    BY <2>3, <2>4, <2>5
<1>10. CASE Push
  <2>1. PICK selected : selected = Selected(call.request, call.views["local"])
    OBVIOUS
  <2>2. PICK tips : tips = Carried(selected, refs["local"])
    OBVIOUS
  <2>3. /\ UNCHANGED <<refs, bundle>> /\ call.pc = "transfer" /\ call.op = "backup" /\ call.kind = "repo"
        /\ SameCall /\ call'.pc = "update" /\ call'.views = call.views /\ call'.tips = tips
    BY <1>1, <1>10, <2>1, <2>2 DEF Push, SameCall, Fields
  <2>4. "local" \in DOMAIN call.views /\ call.request \in Requests
    BY <2>3 DEF MirrorInv, CallOK, Views, NamesOK, Side
  <2>5. IsNamed(tips)
    BY <2>1, <2>2, <2>4, CarriedNames, SelectedFunction DEF NamesOK
  <2>6. QED
    BY <2>3, <2>5, TransferNames
<1>11. CASE Fetch
  <2>1. PICK selected : selected = Selected(call.request, call.views["remote"])
    OBVIOUS
  <2>2. PICK kept : kept = Restrict(selected, DOMAIN selected \cap DOMAIN refs["remote"])
    OBVIOUS
  <2>3. PICK tips : tips = Carried(kept, refs["remote"])
    OBVIOUS
  <2>4. /\ UNCHANGED <<refs, bundle>> /\ call.pc = "transfer" /\ call.op = "restore"
        /\ call' = [call EXCEPT !.pc = "update", !.tips = tips]
    BY <1>11, <2>1, <2>2, <2>3 DEF Fetch
  <2>5. SameCall /\ call'.pc = "update" /\ call'.views = call.views /\ call'.tips = tips
    BY <1>1, <2>4 DEF SameCall, Fields
  <2>6. "remote" \in DOMAIN call.views /\ call.request \in Requests
    BY <2>4 DEF MirrorInv, CallOK, Views, NamesOK, Side
  <2>7. /\ IsFunction(kept)
        /\ \A src \in DOMAIN kept : src \in DOMAIN selected /\ kept[src] = selected[src]
    BY <2>2 DEF Restrict, IsFunction
  <2>8. IsNamed(tips)
    BY <2>1, <2>3, <2>6, <2>7, CarriedNames DEF NamesOK
  <2>9. QED
    BY <2>4, <2>5, <2>8, TransferNames
<1>12. CASE ImportBundle
  <2>1. PICK tips : tips = Renamed(call.request, bundle.refs)
    OBVIOUS
  <2>2. /\ UNCHANGED <<refs, bundle>> /\ call.pc = "transfer"
        /\ call' \in {Returned(call), Failed, [call EXCEPT !.pc = "update", !.tips = tips]}
    BY <1>12, <2>1 DEF ImportBundle
  <2>3. CASE call' \in {Returned(call), Failed}
    <3>1. /\ call'.pc = "idle" /\ call'.views = NoRefs
          /\ \/ call' = Failed
             \/ call'.op = call.op /\ call'.request = call.request /\ call'.before = call.before
      BY <1>1, <2>3, EndedCall DEF Returned, Fields
    <3>2. QED
      BY <2>2, <3>1, EndNames
  <2>4. CASE call' = [call EXCEPT !.pc = "update", !.tips = tips]
    <3>1. SameCall /\ call'.pc = "update" /\ call'.views = call.views /\ call'.tips = tips
      BY <1>1, <2>4 DEF SameCall, Fields
    <3>2. IsNamed(tips)
      BY <2>1, <2>2, RenamedNames DEF NamesOK
    <3>3. QED
      BY <2>2, <3>1, <3>2, TransferNames
  <2>5. QED
    BY <2>2, <2>3, <2>4
<1>13. CASE UpdateOneRef \/ DeleteOneRef \/ RefuseOneRef
  <2>1. /\ bundle' = bundle /\ call.pc = "update" /\ Target \in Side
    BY <1>13 DEF UpdateOneRef, DeleteOneRef, RefuseOneRef, repoVars, Target, Side
  <2>2. PICK r : \/ /\ r \in DOMAIN call.tips
                    /\ refs' = [refs EXCEPT ![Target] = With(@, r, call.tips[r])]
                    /\ call' = [call EXCEPT !.tips = Without(@, r)]
                 \/ /\ refs' = [refs EXCEPT ![Target] = Without(@, r)]
                    /\ call' = [call EXCEPT !.deletes = @ \ {r}]
                 \/ /\ refs' = refs
                    /\ call' = [call EXCEPT !.tips = Without(@, r), !.deletes = @ \ {r},
                                            !.refused = @ \cup {r}]
    BY <1>13 DEF UpdateOneRef, DeleteOneRef, RefuseOneRef, repoVars
  <2>3. /\ call'.pc = "update" /\ SameCall /\ call'.views = call.views
        /\ call'.tips \in {call.tips, Without(call.tips, r)}
    BY <1>1, <2>1, <2>2 DEF SameCall, Fields
  <2>4. IsNamed(call.tips) /\ IsNamed(refs[Target])
    BY <2>1 DEF NamesOK
  <2>5. PICK f : refs' = [refs EXCEPT ![Target] = f] /\ IsNamed(f)
    BY <1>1, <2>1, <2>2, <2>4, NamesKept DEF IsNamed
  <2>6. \A s \in Side : IsNamed(refs'[s])
    BY <1>3, <2>1, <2>5
  <2>7. IsNamed(call'.tips)
    BY <2>3, <2>4, NamesKept
  <2>8. QED
    BY <2>1, <2>3, <2>6, <2>7 DEF NamesOK, SameCall
<1>14. CASE Return \/ Fail
  <2>1. UNCHANGED <<refs, bundle>> /\ call' \in {Returned(call), Failed}
    BY <1>14 DEF Return, Fail, repoVars
  <2>2. /\ call'.pc = "idle" /\ call'.views = NoRefs
        /\ \/ call' = Failed
           \/ call'.op = call.op /\ call'.request = call.request /\ call'.before = call.before
    BY <1>1, <2>1, EndedCall DEF Returned, Fields
  <2>3. CASE call' = Failed
    BY <2>1, <2>2, <2>3, EndNames
  <2>4. CASE call'.op = call.op /\ call'.request = call.request /\ call'.before = call.before
    BY <2>1, <2>2, <2>4, EndNames
  <2>5. QED
    BY <2>2, <2>3, <2>4
<1>15. CASE ExportBundle
  <2>1. /\ call.pc = "transfer" /\ refs' = refs /\ "local" \in DOMAIN call.views
    BY <1>15 DEF ExportBundle, MirrorInv, CallOK, Views, Sends
  <2>2. CASE ExportFails
    BY <2>1, <2>2, EndNames, EndedCall DEF ExportFails
  <2>3. ASSUME NEW squashed, NEW new, ExportTips(squashed, new) PROVE NamesOK'
    <3>1. /\ SameCall /\ call'.pc = "export" /\ call'.views = call.views
          /\ DOMAIN call'.tips = DOMAIN Listing /\ bundle'.refs = NoRefs
      BY <1>1, <2>3 DEF ExportTips, NoBundle, SameCall, Fields
    <3>2. IsNamed(Listing)
      BY <2>1, RenamedNames DEF Listing, NamesOK
    <3>3. IsNamed(call'.tips) /\ IsNamed(bundle'.refs)
      BY <3>1, <3>2 DEF IsNamed, NoRefs
    <3>4. QED
      BY <2>1, <3>1, <3>3 DEF NamesOK, SameCall
  <2>4. QED
    BY <1>15, <2>2, <2>3, ExportBegins
<1>16. CASE WriteHeader
  <2>1. /\ refs' = refs /\ call' = call /\ call.pc = "export"
        /\ bundle' = [bundle EXCEPT !.state = "pack", !.refs = call.tips]
    BY <1>16 DEF WriteHeader
  <2>2. bundle'.refs = call.tips
    BY <2>1 DEF MirrorInv, BundleOK
  <2>3. QED
    BY <2>1, <2>2 DEF NamesOK
<1>17. CASE WriteBundlePack
  <2>1. PICK c : c = [call EXCEPT !.tips = NoRefs]
    OBVIOUS
  <2>2. /\ refs' = refs /\ call' = Returned(c)
        /\ bundle' = [bundle EXCEPT !.state = "whole", !.objects = PackedHistory(call.tips)]
    BY <1>17, <2>1 DEF WriteBundlePack
  <2>3. bundle'.refs = bundle.refs
    BY <2>2 DEF MirrorInv, BundleOK
  <2>4. /\ call'.pc = "idle" /\ call'.views = NoRefs
        /\ call'.op = call.op /\ call'.request = call.request /\ call'.before = call.before
        /\ call.pc = "export"
    BY <1>1, <1>17, <2>1, <2>2 DEF Returned, Fields, WriteBundlePack
  <2>5. DOMAIN call'.views = {}
    BY <2>4 DEF NoRefs
  <2>6. QED
    BY <2>2, <2>3, <2>4, <2>5 DEF NamesOK
<1>18. ASSUME NEW p \in Packer, Pack(p) \/ PackOn(p) PROVE NamesOK'
  BY <1>2, <1>18 DEF Pack, PackOn
<1>19. ASSUME Disturb, bundle' = bundle, \A s \in Side : IsNamed(refs'[s]) PROVE NamesOK'
  <2>1. CASE call' = NoCall
    <3>1. /\ call'.op = "none" /\ call'.pc = "idle" /\ call'.views = NoRefs
          /\ call'.before = [s \in Side \cup {"bundle"} |-> NoRefs]
      BY <2>1 DEF NoCall
    <3>2. \A p \in Places : IsNamed(call'.before[p])
      BY <3>1 DEF Places, IsNamed, NoRefs
    <3>3. DOMAIN call'.views = {}
      BY <3>1 DEF NoRefs
    <3>4. QED
      BY <1>19, <3>1, <3>2, <3>3 DEF NamesOK
  <2>2. CASE call' = [call EXCEPT !.quiet = FALSE]
    <3>1. /\ call'.pc = call.pc /\ call'.op = call.op /\ call'.request = call.request
          /\ call'.before = call.before /\ call'.views = call.views /\ call'.tips = call.tips
      BY <1>1, <2>2 DEF Fields
    <3>2. QED
      BY <1>19, <3>1 DEF NamesOK
  <2>3. QED
    BY <1>19, <2>1, <2>2 DEF Disturb
<1>20. ASSUME NEW s \in Side, NEW r \in Ref, OtherCommit(s, r) \/ OtherDelete(s, r)
       PROVE  NamesOK'
  <2>1. Disturb /\ bundle' = bundle
    BY <1>20 DEF OtherCommit, OtherDelete
  <2>2. \/ \E x : refs' = [refs EXCEPT ![s] = With(@, r, x)]
        \/ refs' = [refs EXCEPT ![s] = Without(@, r)]
    BY <1>20 DEF OtherCommit, OtherDelete
  <2>3. PICK g : refs' = [refs EXCEPT ![s] = g] /\ IsNamed(g)
    BY <2>2, NamesKept, MirrorAssumption DEF NamesOK
  <2>4. QED
    BY <1>3, <1>19, <2>1, <2>3
<1>21. ASSUME refs' = refs, call' = NoCall, IsNamed(bundle'.refs) PROVE NamesOK'
  <2>1. /\ call'.op = "none" /\ call'.pc = "idle" /\ call'.views = NoRefs
        /\ call'.before = [s \in Side \cup {"bundle"} |-> NoRefs]
    BY <1>21 DEF NoCall
  <2>2. (\A p \in Places : IsNamed(call'.before[p])) /\ DOMAIN call'.views = {}
    BY <2>1 DEF Places, IsNamed, NoRefs
  <2>3. QED
    BY <1>21, <2>1, <2>2 DEF NamesOK
<1>22. ASSUME NEW base, OtherExport(base) PROVE NamesOK'
  <2>1. PICK S : S = {r \in DOMAIN refs["remote"] : refs["remote"][r] \notin Ancestry(base)}
    OBVIOUS
  <2>2. refs' = refs /\ call' = NoCall /\ bundle'.refs = Restrict(refs["remote"], S)
    BY <1>22, <2>1 DEF OtherExport
  <2>3. IsNamed(bundle'.refs)
    BY <2>1, <2>2 DEF NamesOK, Side, IsNamed, Restrict
  <2>4. QED
    BY <1>21, <2>2, <2>3
<1>23. ASSUME NEW r \in Ref, ForeignBundle(r) PROVE NamesOK'
  <2>1. PICK x : refs' = refs /\ call' = NoCall /\ bundle'.refs = With(NoRefs, r, x)
    BY <1>23 DEF ForeignBundle
  <2>2. IsNamed(NoRefs) /\ IsRefName(r)
    BY MirrorAssumption DEF IsNamed, NoRefs
  <2>3. IsNamed(bundle'.refs)
    BY <2>1, <2>2, NamesKept
  <2>4. QED
    BY <1>21, <2>1, <2>3
<1>24. ASSUME UNCHANGED vars PROVE NamesOK'
  BY <1>2, <1>24 DEF vars, repoVars
<1>25. QED
  BY <1>4, <1>6, <1>7, <1>8, <1>9, <1>10, <1>11, <1>12, <1>13, <1>14, <1>15, <1>16, <1>17,
     <1>18, <1>20, <1>22, <1>23, <1>24
  DEF Next

(* At the start there are no references.                                   *)
LEMMA InitNamesOK == Init => NamesOK
<1> SUFFICES ASSUME Init PROVE NamesOK
  OBVIOUS
<1>1. /\ call.op = "none" /\ call.pc = "idle" /\ call.views = NoRefs /\ bundle.refs = NoRefs
      /\ call.before = [s \in Side \cup {"bundle"} |-> NoRefs] /\ refs = [s \in Side |-> NoRefs]
  BY DEF Init, NoCall, NoBundle
<1>2. IsNamed(NoRefs) /\ DOMAIN NoRefs = {}
  BY DEF IsNamed, NoRefs
<1>3. QED
  BY <1>1, <1>2 DEF NamesOK, Places

(* A reference that is to move goes where one of the source is.            *)
LEMMA NewComesFrom ==
    ASSUME NamesOK, call.request \in Requests, From \in Places, NEW r \in DOMAIN New
    PROVE  \E src \in DOMAIN call.before[From] :
              /\ call.before[From][src] = New[r]
              /\ src[1] = r[1] \/ NamedInFull(call.request, r)
<1>1. PICK available : available = call.before[From]
  OBVIOUS
<1>2. PICK selected : selected = Selected(call.request, available)
  OBVIOUS
<1>3. PICK new : new = Carried(selected, available)
  OBVIOUS
<1>4. new = New /\ IsNamed(available)
  BY <1>1, <1>2, <1>3 DEF New, Renamed, NamesOK
<1>5. r \in {selected[src] : src \in DOMAIN selected}
  BY <1>3, <1>4 DEF Carried
<1>6. PICK src \in DOMAIN selected : selected[src] = r /\ new[r] = available[src]
  <2>1. new[r] = available[CHOOSE src \in DOMAIN selected : selected[src] = r]
    BY <1>3, <1>5 DEF Carried
  <2>2. QED
    BY <1>5, <2>1
<1>7. src \in DOMAIN available
  BY <1>2, SelectedType
<1>8. src[1] = r[1] \/ NamedInFull(call.request, r)
  BY <1>2, <1>4, <1>6, SelectedNames
<1>9. QED
  BY <1>1, <1>4, <1>6, <1>7, <1>8

(* Wherever an undisturbed transfer stands, only references it was asked   *)
(* for have moved, each to where one of the source is, of its own kind     *)
(* unless the request says otherwise (mirror.cpp, resolve_ref_map,         *)
(* targeted_push, additive_fetch).                                         *)
THEOREM TransfersStayWithin ==
    ASSUME ~InsertsFail
    PROVE  Spec => []OnlyAskedMoves
<1>1. MirrorInv /\ DoneOK /\ NamesOK => OnlyAskedMoves
  <2> SUFFICES ASSUME MirrorInv, DoneOK, NamesOK PROVE OnlyAskedMoves
    OBVIOUS
  <2> SUFFICES ASSUME Quiet, To # "bundle" PROVE OnlyAskedMoves
    BY DEF OnlyAskedMoves
  <2>1. /\ From \in Places \ {To} /\ To \in Side /\ call.request \in Requests
        /\ From # "bundle" => refs[From] = call.before[From]
    <3>1. From \in Places \ {To} /\ To \in Side
      BY DEF From, To, Places, Side
    <3>2. call.request \in Requests
      BY DEF NamesOK, Quiet
    <3>3. RefsAt(From) = call.before[From]
      BY <3>1 DEF DoneOK, QuietOK, OthersKept
    <3>4. QED
      BY <3>1, <3>2, <3>3 DEF RefsAt
  <2>2. PICK now, old, new : now = refs[To] /\ old = call.before[To] /\ new = New
    OBVIOUS
  <2>3. PICK asked : asked = AskedFor
    OBVIOUS
  <2>4. PICK mirrors \in BOOLEAN : mirrors = Mirrors
    BY AskedForIs
  <2>5. (mirrors => asked = new) /\ (~mirrors => asked = Overlay(new, old))
    BY <2>2, <2>3, <2>4, AskedForIs
  <2>6. /\ DOMAIN asked \subseteq DOMAIN new \cup DOMAIN old
        /\ \A r \in DOMAIN new : r \in DOMAIN asked /\ asked[r] = new[r]
        /\ \A r \in DOMAIN asked : r \notin DOMAIN new => Same(asked, old, r)
    BY <2>5 DEF Overlay, Same
  <2>7. ASSUME NEW r \in DOMAIN now \cup DOMAIN old, Tip(now, r) # Tip(old, r)
        PROVE  /\ Tip(now, r) = Tip(asked, r)
               /\ Tip(now, r) # 0 => r \in DOMAIN now /\ r \in DOMAIN new /\ now[r] = new[r]
    <3>1. \A f : Same(now, f, r) => Tip(now, r) = Tip(f, r)
      BY DEF Same, Tip
    <3>2. ASSUME now = old PROVE FALSE
      BY <2>7, <3>2
    <3>3. ASSUME Same(now, asked, r)
          PROVE  Tip(now, r) # 0 => r \in DOMAIN now /\ r \in DOMAIN new /\ now[r] = new[r]
      BY <2>6, <2>7, <3>1, <3>3 DEF Tip, Same
    <3>4. CASE call.pc \in {"list", "transfer"}
      <4>1. RefsAt(To) = call.before[To]
        BY <3>4 DEF DoneOK, QuietOK, ListingOK
      <4>2. QED
        BY <2>2, <3>2, <4>1 DEF RefsAt
    <3>5. CASE call.pc = "idle"
      <4>1. call.outcome = "ok"
        BY <3>5 DEF DoneOK, QuietOK
      <4>2. ~call.squash
        BY DEF DoneOK, AskOK, To
      <4>3. \/ RefsAt(To) = call.before[To]
            \/ RefsAt(To) = Granted(AskedFor, call.before[To], call.refused)
        BY <3>5, <4>1, <4>2 DEF DoneOK, DiffIsWhatHappens
      <4>4. now = old \/ now = Granted(asked, old, call.refused)
        BY <2>2, <2>3, <4>3 DEF RefsAt
      <4>5. Same(now, old, r) \/ Same(now, asked, r)
        BY <3>2, <4>4, GrantedIs
      <4>6. QED
        BY <2>7, <3>1, <3>3, <4>5
    <3>6. CASE call.pc = "update"
      <4>1. PICK tips, deletes, refused :
               tips = call.tips /\ deletes = call.deletes /\ refused = call.refused
        OBVIOUS
      <4>2. Progress(now, old, new, tips, deletes, refused, mirrors)
        BY <2>2, <2>4, <3>6, <4>1 DEF DoneOK, QuietOK, UpdatingOK
      <4>3. r \notin DOMAIN tips \cup deletes \cup refused /\ ~Same(now, old, r)
        BY <2>7, <3>1, <4>2 DEF Progress
      <4>4. CASE r \in DOMAIN new
        BY <2>6, <4>2, <4>3, <4>4 DEF Progress, Tip
      <4>5. CASE r \notin DOMAIN new
        <5>1. mirrors /\ r \notin DOMAIN now
          BY <2>7, <4>2, <4>3, <4>5 DEF Progress
        <5>2. QED
          BY <2>5, <4>5, <5>1 DEF Tip
      <4>6. QED
        BY <4>4, <4>5
    <3>7. CASE call.pc = "export"
      BY <3>7 DEF DoneOK, QuietOK, ExportingOK
    <3>8. QED
      BY <3>4, <3>5, <3>6, <3>7 DEF MirrorInv, CallOK
  <2>8. ASSUME NEW r \in DOMAIN now \cup DOMAIN old, Tip(now, r) # Tip(old, r), Tip(now, r) # 0
        PROVE  \E src \in DOMAIN call.before[From] :
                  /\ call.before[From][src] = now[r]
                  /\ src[1] = r[1] \/ NamedInFull(call.request, r)
    <3>1. r \in DOMAIN New /\ New[r] = now[r]
      BY <2>2, <2>7, <2>8
    <3>2. QED
      BY <2>1, <3>1, NewComesFrom
  <2>9. QED
    BY <2>1, <2>2, <2>3, <2>7, <2>8 DEF OnlyAskedMoves
<1>2. QED
  BY <1>1, InitMirrorInv, NextMirrorInv, InitRefusedOK, NextRefusedOK, InitDoneOK, NextDoneOK,
     InitNamesOK, NextNamesOK, PTL
  DEF Spec
=============================================================================
