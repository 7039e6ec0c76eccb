------------------------------ MODULE VostTree -------------------------------
(***************************************************************************)
(* Directory trees and the algorithms on them (tree.cpp).  A tree gives    *)
(* every path up to MaxDepth segments its entry; paths are normalized, and *)
(* the root is the empty path.  A file's content and mode are one value.   *)
(***************************************************************************)
EXTENDS Naturals, Sequences, SequencesExt

CONSTANTS
    Name,       \* path segments
    Data,       \* blob contents, with their mode
    MaxDepth    \* bound: segments of a path

Root == <<>>
Path == UNION {[1 .. n -> Name] : n \in 1 .. MaxDepth}

NoEntry == "no entry"
DirEntry == "directory"

ASSUME TreeAssumption ==
    /\ MaxDepth \in Nat \ {0}
    /\ Data \cap {NoEntry, DirEntry} = {}

ASSUME NameAssumption == IsFiniteSet(Name)

EmptyTree == [p \in Path |-> NoEntry]

(* Every entry is in a directory.                                          *)
IsTree(tree) ==
    /\ tree \in [Path -> Data \cup {NoEntry, DirEntry}]
    /\ \A p \in Path : tree[p] # NoEntry /\ Len(p) > 1 => tree[Front(p)] = DirEntry

Files(tree) == {p \in Path : tree[p] \in Data}

(* The contents a tree holds, directories aside.                           *)
Contents(tree) == [p \in Files(tree) |-> tree[p]]

(* Writes are a function of the path.  Of two to one path the later one    *)
(* counts.                                                                 *)
OneWrite(p, data) == [q \in {p} |-> data]

Over(new, old) ==
    [q \in DOMAIN new \cup DOMAIN old |-> IF q \in DOMAIN new THEN new[q] ELSE old[q]]

InTurn(parts) ==
    [q \in UNION {DOMAIN parts[i] : i \in DOMAIN parts} |->
       parts[Max({i \in DOMAIN parts : q \in DOMAIN parts[i]})][q]]

-----------------------------------------------------------------------------
(* entry_at_path: every segment but the last must name a directory.        *)
Lookup(tree, p) ==
    IF p = Root THEN DirEntry
    ELSE IF \A i \in 1 .. Len(p) - 1 : tree[SubSeq(p, 1, i)] = DirEntry
         THEN tree[p]
         ELSE NoEntry

(* walk_tree: the files below a directory.                                 *)
WalkTree(tree, d) == {p \in Files(tree) : IsStrictPrefix(d, p)}

Below(p, paths) == \E i \in DOMAIN paths : IsStrictPrefix(p, paths[i])

(***************************************************************************)
(* The subtree that a rebuilt directory p starts from is looked up once:   *)
(* for the first write below p, before anything is removed; with no write  *)
(* below p, when the removes, taken in order, first reach below p.  A      *)
(* remove of p itself that comes earlier leaves nothing to be found.       *)
(***************************************************************************)
KeepsContents(p, writes, removes) ==
    \/ \E w \in DOMAIN writes : IsStrictPrefix(p, w)
    \/ \E i \in DOMAIN removes :
          /\ IsStrictPrefix(p, removes[i])
          /\ \A j \in 1 .. i - 1 : removes[j] # p /\ ~IsStrictPrefix(p, removes[j])

(* Mistaken: removes are done after the writes.                            *)
FateRemovesLast(base, writes, removes, p, parent) ==
    CASE parent = "kept" -> "kept"
      [] parent \in {"gone", "file"} -> "gone"
      [] OTHER ->
           IF p \in ToSet(removes) THEN "gone"
           ELSE IF p \in DOMAIN writes THEN "file"
           ELSE IF \/ \E w \in DOMAIN writes : IsStrictPrefix(p, w)
                   \/ Below(p, removes)
           THEN IF /\ parent = "base" /\ base[p] = DirEntry
                   /\ KeepsContents(p, writes, removes)
                THEN "base" ELSE "fresh"
           ELSE IF parent = "fresh" THEN "gone"
           ELSE "kept"

(* Mistaken: a directory that is written into starts empty.                *)
FateForgetsContents(base, writes, removes, p, parent) ==
    CASE parent = "kept" -> "kept"
      [] parent \in {"gone", "file"} -> "gone"
      [] OTHER ->
           IF p \in DOMAIN writes THEN "file"
           ELSE IF \/ \E w \in DOMAIN writes : IsStrictPrefix(p, w)
                   \/ Below(p, removes)
           THEN "fresh"
           ELSE IF parent = "fresh" \/ p \in ToSet(removes) THEN "gone"
           ELSE "kept"

(* Mistaken: what is below a removed directory stays.                      *)
FateLeavesOrphans(base, writes, removes, p, parent) ==
    CASE parent \in {"kept", "gone"} -> "kept"
      [] parent = "file" -> "gone"
      [] OTHER ->
           IF p \in DOMAIN writes THEN "file"
           ELSE IF \/ \E w \in DOMAIN writes : IsStrictPrefix(p, w)
                   \/ Below(p, removes)
           THEN IF /\ parent = "base" /\ base[p] = DirEntry
                   /\ KeepsContents(p, writes, removes)
                THEN "base" ELSE "fresh"
           ELSE IF parent = "fresh" \/ p \in ToSet(removes) THEN "gone"
           ELSE "kept"

(***************************************************************************)
(* rebuild_tree: what becomes of the entry at p, from what became of the   *)
(* directory it is in.                                                     *)
(*   "base"   a directory, rebuilt from the one that was there             *)
(*   "fresh"  a directory, rebuilt from an empty one                       *)
(*   "file"   a written file: leaf writes are inserted last                *)
(*   "kept"   left as it was, with everything below it                     *)
(*   "gone"   not there                                                    *)
(* A path of no segments, the root, is silently skipped.                   *)
(***************************************************************************)
Fate(base, writes, removes, p, parent) ==
    CASE parent = "kept" -> "kept"
      [] parent \in {"gone", "file"} -> "gone"
      [] OTHER ->
           IF p \in DOMAIN writes THEN "file"
           ELSE IF \/ \E w \in DOMAIN writes : IsStrictPrefix(p, w)
                   \/ Below(p, removes)
           THEN IF /\ parent = "base" /\ base[p] = DirEntry
                   /\ KeepsContents(p, writes, removes)
                THEN "base" ELSE "fresh"
           ELSE IF parent = "fresh" \/ p \in ToSet(removes) THEN "gone"
           ELSE "kept"

RebuildTree(base, writes, removes) ==
    LET fate[p \in Path \cup {Root}] ==
          IF p = Root THEN "base"
          ELSE Fate(base, writes, removes, p, fate[Front(p)])
    IN [p \in Path |->
          CASE fate[p] = "kept" -> base[p]
            [] fate[p] = "gone" -> NoEntry
            [] fate[p] = "file" -> writes[p]
            [] OTHER -> DirEntry]

-----------------------------------------------------------------------------
(* The reference the algorithm is compared with: what a change is to do to *)
(* the files, whatever the order of its parts.  Removed paths go with      *)
(* everything below them, written files replace what is in their way.      *)

InTheWay(p, q) == IsPrefix(p, q) \/ IsPrefix(q, p)

Nested(paths) == \E p, q \in paths : IsStrictPrefix(p, q)

Changed(contents, writes, removes) ==
    LET kept == {p \in DOMAIN contents :
                   /\ ~\E r \in removes : IsPrefix(r, p)
                   /\ ~\E w \in DOMAIN writes : InTheWay(w, p)}
        (* removing a path below a file replaces the file *)
        left == {p \in kept : ~\E r \in removes : IsStrictPrefix(p, r)}
    IN [p \in left \cup DOMAIN writes |->
          IF p \in DOMAIN writes THEN writes[p] ELSE contents[p]]
=============================================================================
