------------------------------ MODULE VostCopy -------------------------------
(***************************************************************************)
(* Copying between a branch and a directory on disk (copy.cpp): copy_in,   *)
(* sync_in, copy_out and sync_out, file by file, while another process may *)
(* edit the disk and commit to the branch.                                 *)
(*                                                                         *)
(* The disk directory is a tree too, in which directories may be empty.    *)
(* A file has a mode and a content.  A symbolic link names a sibling,      *)
(* which never is a directory or a link.                                   *)
(***************************************************************************)
EXTENDS VostTree

CONSTANTS
    Mode,         \* the mode of each member of Data: "blob", "exec", "link"
    Content,      \* its content; of a link, the name of its target
    EmptyFile,    \* the plain file without content
    Ops,          \* the operations used
    At,           \* the repository directories copied into or out of
    Filters,      \* the pairs of include and exclude patterns used
    RepoEdits,    \* commits others make: a path and its new entry
    DiskEdits,    \* edits others make on disk
    MaxOps        \* bound: number of calls and edits

Links == {x \in Data : Mode[x] = "link"}

(* The names that links give.                                              *)
Linked == {Content[x] : x \in Links}

ASSUME CopyAssumption ==
    /\ Mode \in [Data -> {"blob", "exec", "link"}]
    /\ EmptyFile \in Data /\ Mode[EmptyFile] = "blob"
    /\ At \subseteq Path \cup {Root}
    /\ \A d \in At : 2 * Len(d) < MaxDepth
    /\ RepoEdits \subseteq Path \X (Data \cup {NoEntry})
    /\ DiskEdits \subseteq Path \X (Data \cup {NoEntry, DirEntry})
    /\ MaxOps \in Nat

(* A file can be made executable, or not.                                  *)
ASSUME ModeAssumption ==
    \A x \in Data, mode \in {"blob", "exec"} :
        Mode[x] # "link" => \E y \in Data : Content[y] = Content[x] /\ Mode[y] = mode

(* No directory or link is made under a name that a link gives.            *)
ASSUME LinkAssumption ==
    /\ Linked \subseteq Name
    /\ \A d \in At : \A i \in DOMAIN d : d[i] \notin Linked
    /\ \A e \in RepoEdits \cup DiskEdits : \A i \in DOMAIN e[1] :
          e[1][i] \in Linked => i = Len(e[1]) /\ e[2] \notin Links \cup {DirEntry}

VARIABLES
    tree,       \* the tree at the tip of the branch
    ncommits,   \* commits so far: tells a stale snapshot
    disk,       \* the directory on disk
    call,       \* the call under way or, at pc "idle", the last one
    nops

vars == <<tree, ncommits, disk, call, nops>>

NoFiles == <<>>     \* the function without arguments

NoCall ==
    [pc |-> "idle", op |-> "none", at |-> Root, filter |-> CHOOSE f \in Filters : TRUE,
     checksum |-> TRUE, dry_run |-> FALSE,
     base |-> EmptyTree, commit |-> 0,      \* the snapshot
     listed |-> {}, todo |-> {},            \* paths relative to at, or to the disk directory
     existing |-> NoFiles, writes |-> NoFiles,
     add |-> {}, update |-> {}, del |-> {}, \* the ChangeReport
     outcome |-> "none",
     disk0 |-> EmptyTree, quiet |-> TRUE]   \* for the properties: the disk at the
                                            \* start; nobody has interfered

Init ==
    /\ tree = EmptyTree /\ ncommits = 0
    /\ disk = EmptyTree
    /\ call = NoCall
    /\ nops = 0

-----------------------------------------------------------------------------
(* matches_filters: a pattern matches the file name or the whole path.     *)
(* include and exclude are optional, <<>> or a list of patterns <<list>>.  *)
PatternMatches(pattern, rel) == pattern = rel \/ pattern = <<Last(rel)>>

MatchesFilters(filter, rel) ==
    /\ \A list \in ToSet(filter.include) : \E p \in list : PatternMatches(p, rel)
    /\ \A list \in ToSet(filter.exclude) : ~\E p \in list : PatternMatches(p, rel)

IsLink(d, p) == d[p] \in Data /\ Mode[d[p]] = "link"

LinkTarget(d, p) == Front(p) \o <<Content[d[p]]>>

(* disk_walk: every file, by its canonical path.  The canonical path of a  *)
(* link is that of its target, unless the target is missing.               *)
DiskWalk(d) ==
    {IF IsLink(d, p) /\ d[LinkTarget(d, p)] # NoEntry THEN LinkTarget(d, p) ELSE p :
        p \in Files(d)}

Under(at, rel) == at \o rel

Relative(at, p) == SubSeq(p, Len(at) + 1, Len(p))

(* What is at dest already.  The subtree at dest is found first, and dest  *)
(* is then looked up once more, inside it.                                 *)
Existing(base, at) ==
    LET again == at \o at
        found == Lookup(base, at)
        files == {Relative(again, p) : p \in WalkTree(base, again)}
    IN IF at # Root /\ found # DirEntry
       THEN [error |-> "none", files |-> NoFiles]
       ELSE CASE Lookup(base, again) = NoEntry -> [error |-> "NotFound", files |-> NoFiles]
              [] Lookup(base, again) \in Data -> [error |-> "NotADirectory", files |-> NoFiles]
              [] OTHER -> [error |-> "none",
                           files |-> [rel \in files |-> base[again \o rel]]]

-----------------------------------------------------------------------------
Start == nops < MaxOps /\ nops' = nops + 1

Begin(op, at, filter, checksum, dry_run) ==
    [NoCall EXCEPT !.op = op, !.at = at, !.filter = filter, !.checksum = checksum,
                   !.dry_run = dry_run, !.base = tree, !.commit = ncommits, !.disk0 = disk]

Ended(c, outcome) == [c EXCEPT !.pc = "idle", !.outcome = outcome]

(* copy_in and sync_in: walk the disk, and what is at dest.                *)
StartIn(op, at, filter, checksum, dry_run) ==
    LET c == Begin(op, at, filter, checksum, dry_run)
        existing == IF op = "sync_in" \/ checksum THEN Existing(tree, at)
                    ELSE [error |-> "none", files |-> NoFiles]
        listed == {rel \in DiskWalk(disk) : MatchesFilters(filter, rel)}
    IN /\ op \in Ops /\ call.pc = "idle" /\ Start
       /\ \A rel \in listed : Under(at, rel) \in Path
       /\ call' = IF existing.error # "none" THEN Ended(c, existing.error)
                  ELSE [c EXCEPT !.pc = "read", !.existing = existing.files,
                                 !.listed = listed, !.todo = listed]
       /\ UNCHANGED <<tree, ncommits, disk>>

(* Mistaken: files are compared by content alone.                          *)
UnchangedContent(c, rel, data) ==
    c.checksum /\ rel \in DOMAIN c.existing /\ Content[c.existing[rel]] = Content[data]

(* The comparison of blob hash and mode.                                   *)
Unchanged(c, rel, data) ==
    c.checksum /\ rel \in DOMAIN c.existing /\ c.existing[rel] = data

(* One file is read.  A file that has disappeared since the walk reads as  *)
(* empty; reading a directory throws.                                      *)
ReadFile(rel) ==
    LET data == IF disk[rel] = NoEntry THEN EmptyFile ELSE disk[rel]
        path == Under(call.at, rel)
        is_update == call.op = "sync_in" /\ rel \in DOMAIN call.existing
        read == [call EXCEPT !.todo = @ \ {rel}]
    IN /\ call.pc = "read" /\ rel \in call.todo
       /\ call' = IF data = DirEntry THEN Ended(call, "error")
                  ELSE IF Unchanged(call, rel, data) THEN read
                  ELSE [read EXCEPT !.writes = Over(OneWrite(path, data), @),
                                    !.add = IF is_update THEN @ ELSE @ \cup {path},
                                    !.update = IF is_update THEN @ \cup {path} ELSE @]
       /\ UNCHANGED <<tree, ncommits, disk, nops>>

(* Mistaken: what the filters leave out is deleted too.                    *)
ExtrasFilteredOut(c) ==
    IF c.op = "copy_in" THEN {}
    ELSE {Under(c.at, rel) : rel \in DOMAIN c.existing \ c.listed}

Extras(c) ==
    IF c.op = "copy_in" THEN {}
    ELSE {Under(c.at, rel) : rel \in {r \in DOMAIN c.existing \ c.listed :
                                        MatchesFilters(c.filter, r)}}

(* Everything is read: commit_changes, from the snapshot of the call.      *)
CommitIn ==
    LET removes == Extras(call)
        ended(outcome) == Ended([call EXCEPT !.del = removes], outcome)
    IN /\ call.pc = "read" /\ call.todo = {}
       /\ IF call.dry_run \/ (DOMAIN call.writes = {} /\ removes = {})
          THEN call' = ended("ok") /\ UNCHANGED <<tree, ncommits>>
          ELSE IF call.commit # ncommits
          THEN call' = ended("StaleSnapshot") /\ UNCHANGED <<tree, ncommits>>
          ELSE /\ tree' = RebuildTree(call.base, call.writes, SetToSeq(removes))
               /\ ncommits' = ncommits + 1
               /\ call' = ended("ok")
       /\ UNCHANGED <<disk, nops>>

-----------------------------------------------------------------------------
(* copy_out and sync_out.  sync_out has the option dry_run and does not    *)
(* look at it.                                                             *)
StartOut(op, at, filter) ==
    LET c == Begin(op, at, filter, TRUE, FALSE)
        rels == {Relative(at, p) : p \in WalkTree(tree, at)}
        listed == {rel \in rels : MatchesFilters(filter, rel)}
    IN /\ op \in Ops /\ call.pc = "idle" /\ Start
       /\ call' = CASE Lookup(tree, at) = NoEntry -> Ended(c, "NotFound")
                    [] Lookup(tree, at) \in Data -> Ended(c, "NotADirectory")
                    [] OTHER -> [c EXCEPT !.pc = "write", !.listed = listed,
                                          !.todo = listed, !.add = listed]
       /\ UNCHANGED <<tree, ncommits, disk>>

(* Mistaken: parent directories are taken to be there.                     *)
MakeNoDirs(d, p) == d

MakeDirs(d, p) == [q \in Path |-> IF IsStrictPrefix(q, p) THEN DirEntry ELSE d[q]]

(* The value a file gets that is opened and written: the executable bit is *)
(* added when the repository has it, and stays when it was there.          *)
Overwritten(old, data) ==
    CHOOSE new \in Data :
        /\ Content[new] = Content[data]
        /\ Mode[new] = IF "exec" \in {Mode[data]} \cup (IF old \in Data THEN {Mode[old]} ELSE {})
                       THEN "exec" ELSE "blob"

(* A link replaces what is there.  A file is written through a link that   *)
(* is in its place; where a directory is, opening fails and goes unnoticed.*)
Written(d, p, data) ==
    LET q == IF IsLink(d, p) THEN LinkTarget(d, p) ELSE p
    IN IF Mode[data] = "link" THEN [d EXCEPT ![p] = data]
       ELSE IF d[q] = DirEntry THEN d
       ELSE [d EXCEPT ![q] = Overwritten(d[q], data)]

Holds(d, p) == \E q \in Path : IsStrictPrefix(p, q) /\ d[q] # NoEntry

(* One file is written: create_directories throws when a file is in the    *)
(* place of a directory, and so does removing a directory with entries to  *)
(* make room for a link.                                                   *)
WriteFile(rel) ==
    LET data == call.base[Under(call.at, rel)]
        blocked == \E q \in Files(disk) : IsStrictPrefix(q, rel)
        full == Mode[data] = "link" /\ disk[rel] = DirEntry /\ Holds(disk, rel)
        dirs == MakeDirs(disk, rel)
    IN /\ call.pc = "write" /\ rel \in call.todo
       /\ IF blocked \/ full
          THEN /\ call' = Ended(call, "error")
               /\ disk' = IF blocked THEN disk ELSE dirs
          ELSE /\ call' = [call EXCEPT !.todo = @ \ {rel}]
               /\ disk' = Written(dirs, rel, data)
       /\ UNCHANGED <<tree, ncommits, nops>>

CopiedOut ==
    /\ call.pc = "write" /\ call.todo = {}
    /\ call' = IF call.op = "copy_out" THEN Ended(call, "ok")
               ELSE [call EXCEPT !.pc = "delete"]
    /\ UNCHANGED <<tree, ncommits, disk, nops>>

(* sync_out then walks the disk again and removes what it did not write.   *)
DeleteExtras ==
    LET extra == {rel \in DiskWalk(disk) : /\ MatchesFilters(call.filter, rel)
                                           /\ rel \notin call.listed}
    IN /\ call.pc = "delete"
       /\ disk' = [p \in Path |-> IF p \in extra THEN NoEntry ELSE disk[p]]
       /\ call' = [call EXCEPT !.pc = "prune", !.del = extra]
       /\ UNCHANGED <<tree, ncommits, nops>>

(* Mistaken: directories are visited from the top down.                    *)
PruneTopDown ==
    /\ call.pc = "prune"
    /\ disk' = [p \in Path |-> IF disk[p] = DirEntry /\ ~Holds(disk, p)
                               THEN NoEntry ELSE disk[p]]
    /\ call' = Ended(call, "ok")
    /\ UNCHANGED <<tree, ncommits, nops>>

(* Directories are visited from the bottom up and removed when empty.      *)
PruneDirs ==
    /\ call.pc = "prune"
    /\ disk' = [p \in Path |-> IF disk[p] = DirEntry /\ WalkTree(disk, p) = {}
                               THEN NoEntry ELSE disk[p]]
    /\ call' = Ended(call, "ok")
    /\ UNCHANGED <<tree, ncommits, nops>>

-----------------------------------------------------------------------------
(* Other processes.                                                        *)

Disturb == call' = [call EXCEPT !.quiet = FALSE]

RepoEdit(p, entry) ==
    /\ Start
    /\ IF entry = NoEntry THEN tree[p] \in Data ELSE tree[p] # entry
    /\ tree' = IF entry = NoEntry THEN RebuildTree(tree, NoFiles, <<p>>)
               ELSE RebuildTree(tree, OneWrite(p, entry), <<>>)
    /\ ncommits' = ncommits + 1
    /\ Disturb
    /\ UNCHANGED disk

(* A file or an empty directory is put where nothing or a file was, or     *)
(* taken away.                                                             *)
DiskEdit(p, entry) ==
    /\ Start
    /\ disk[p] # entry
    /\ ~\E q \in Files(disk) : IsStrictPrefix(q, p)
    /\ disk[p] = DirEntry => entry = NoEntry /\ ~Holds(disk, p)
    /\ disk' = IF entry = NoEntry THEN [disk EXCEPT ![p] = NoEntry]
               ELSE [MakeDirs(disk, p) EXCEPT ![p] = entry]
    /\ Disturb
    /\ UNCHANGED <<tree, ncommits>>

-----------------------------------------------------------------------------
Next ==
    \/ \E op \in {"copy_in", "sync_in"}, at \in At, f \in Filters, c, d \in BOOLEAN :
          StartIn(op, at, f, c, d)
    \/ \E rel \in call.todo : ReadFile(rel) \/ WriteFile(rel)
    \/ CommitIn
    \/ \E op \in {"copy_out", "sync_out"}, at \in At, f \in Filters : StartOut(op, at, f)
    \/ CopiedOut
    \/ DeleteExtras
    \/ PruneDirs
    \/ \E e \in RepoEdits : RepoEdit(e[1], e[2])
    \/ \E e \in DiskEdits : DiskEdit(e[1], e[2])
    \/ nops = MaxOps /\ call.pc = "idle" /\ UNCHANGED vars

Spec == Init /\ [][Next]_vars

-----------------------------------------------------------------------------
(* Type invariant: the branch and the disk hold trees, whatever a copy has *)
(* written before it failed and whoever interfered.                        *)
TypeOK ==
    /\ IsTree(tree) /\ IsTree(disk)
    /\ call.pc \in {"idle", "read", "write", "delete", "prune"}
    /\ call.outcome \in {"none", "ok", "error", "NotFound", "NotADirectory", "StaleSnapshot"}
    /\ call.todo \subseteq call.listed
    /\ DOMAIN call.writes \subseteq Path
    /\ ncommits \in 0 .. MaxOps /\ nops \in 0 .. MaxOps

(* What a call that has just returned was asked to do.                     *)
JustDid(ops) ==
    call.pc = "idle" /\ call.op \in ops /\ call.outcome = "ok" /\ call.quiet

Wanted == {rel \in Files(call.disk0) : MatchesFilters(call.filter, rel)}

NoLinks(d) == \A p \in Path : ~IsLink(d, p)

(* The contents that copying the disk into the snapshot, and for a sync    *)
(* deleting what is not on disk, leads to.                                 *)
AskedFor ==
    LET targets == {Under(call.at, rel) : rel \in Wanted}
        extras == {p \in WalkTree(call.base, call.at) :
                     /\ MatchesFilters(call.filter, Relative(call.at, p))
                     /\ Relative(call.at, p) \notin Wanted}
    IN Changed(Contents(call.base),
               [p \in targets |-> call.disk0[Relative(call.at, p)]],
               IF call.op = "sync_in" THEN extras ELSE {})

(* copy_in and sync_in leave the files of the branch as they were asked to,*)
(* whether they compare checksums or not: every file on disk that the      *)
(* filters select is there with its content and mode, a sync has deleted   *)
(* the selected files that are not on disk, and nothing else has changed.  *)
(* Left out are a destination that is a directory already and disks with   *)
(* symbolic links (see SyncMakesIdentical and the README).                 *)
InCallsTakeEffect ==
    JustDid({"copy_in", "sync_in"}) /\ ~call.dry_run /\ NoLinks(call.disk0)
        /\ (call.at = Root \/ Lookup(call.base, call.at) # DirEntry)
        => Contents(tree) = AskedFor

(* The report of a sync_in, dry run or not, names the files that it adds,  *)
(* updates and deletes, each in its list, and no unchanged file.  A file   *)
(* that only goes because another is written in its place is not named.    *)
ReportTellsChanges ==
    LET before == Contents(call.base)
        differ == {p \in DOMAIN AskedFor \cap DOMAIN before : AskedFor[p] # before[p]}
        gone == DOMAIN before \ DOMAIN AskedFor
    IN JustDid({"sync_in"}) /\ call.checksum /\ NoLinks(call.disk0)
         /\ (call.at = Root \/ Lookup(call.base, call.at) = NoEntry)
         => /\ call.add = DOMAIN AskedFor \ DOMAIN before
            /\ call.update = differ
            /\ call.del \subseteq gone
            /\ \A p \in gone \ call.del : \E q \in call.add : InTheWay(p, q)

(* copy_out and sync_out deliver every selected file, with its content and *)
(* at least its executable bit, unless a link or a directory was in its    *)
(* place; a sync has also deleted the selected files that are not in the   *)
(* repository and all empty directories; nothing else has changed.         *)
OutCallsDeliver ==
    LET source(rel) == call.base[Under(call.at, rel)]
        delivered(rel) ==
            /\ disk[rel] \in Data
            /\ Content[disk[rel]] = Content[source(rel)]
            /\ Mode[disk[rel]] \in {Mode[source(rel)], "exec"}
        syncs == call.op = "sync_out"
        selected(p) == MatchesFilters(call.filter, p)
    IN JustDid({"copy_out", "sync_out"}) /\ NoLinks(call.disk0)
         /\ (\A rel \in call.listed : call.disk0[rel] # DirEntry)
         => /\ \A rel \in call.listed : delivered(rel)
            /\ \A p \in Files(disk) \ call.listed :
                  disk[p] = call.disk0[p] /\ (syncs => ~selected(p))
            /\ \A p \in Files(call.disk0) \ Files(disk) : syncs /\ selected(p)
            /\ syncs => \A p \in Path : disk[p] = DirEntry => WalkTree(disk, p) # {}

-----------------------------------------------------------------------------
(* Sync makes the destination identical to the source, including deletes:  *)
(* after a sync_in without filters that nobody interfered with, the files  *)
(* at the destination are those on disk.                                   *)
SyncMakesIdentical ==
    call.pc = "idle" /\ call.op = "sync_in" /\ call.quiet /\ ~call.dry_run
        /\ (\A rel \in Files(call.disk0) : MatchesFilters(call.filter, rel))
        => [rel \in {Relative(call.at, p) : p \in WalkTree(tree, call.at)} |->
               tree[Under(call.at, rel)]] = Contents(call.disk0)
=============================================================================
