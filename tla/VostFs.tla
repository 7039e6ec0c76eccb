------------------------------- MODULE VostFs --------------------------------
(***************************************************************************)
(* The write operations of a snapshot and of its Batch: how each of them   *)
(* turns its arguments into the writes and removes of commit_changes, and  *)
(* the tree that comes out.  How the commit reaches the branch is the      *)
(* subject of VostStore; here a thread commits to a branch of its own, so  *)
(* the only stale snapshot is the one an open Batch holds.                 *)
(***************************************************************************)
EXTENDS VostTree

CONSTANTS
    Ops,        \* the operations used
    Arg,        \* the paths that are given as arguments
    Sources,    \* the lists of paths that remove and move are given
    SourceTree, \* the tree of another snapshot, to copy from
    Copies,     \* the lists of [path, contents] that copy_from_ref is given
    MaxOps      \* bound: number of operations

ASSUME ArgAssumption ==
    /\ Arg \subseteq Path \cup {Root}
    /\ Sources \subseteq Seq(Path \cup {Root})
    /\ IsTree(SourceTree)
    /\ Copies \subseteq Seq([path : Path \cup {Root}, contents : BOOLEAN])
    /\ MaxOps \in Nat

VARIABLES
    tree,       \* the tree of the branch and of the current snapshot
    ncommits,   \* commits so far: tells the batch's snapshot from the current
    batch,      \* the Batch object, see NoBatch
    writer,     \* an FsWriter or a BatchWriter, see NoWriter
    nops        \* operations so far

vars == <<tree, ncommits, batch, writer, nops>>

(* fs_, writes_, removes_ and closed_.                                     *)
NoBatch == [closed |-> TRUE, base |-> EmptyTree, commit |-> 0,
            writes |-> <<>>, removes |-> <<>>, calls |-> <<>>]

(* fs_ or batch_, path_ and closed_; the buffer is what Close is given.    *)
NoWriter == [kind |-> "none", path |-> Root, commit |-> 0]

Init ==
    /\ tree = EmptyTree
    /\ ncommits = 0
    /\ batch = NoBatch
    /\ writer = NoWriter
    /\ nops = 0

-----------------------------------------------------------------------------
(* What an operation asks commit_changes to do, or the exception it throws *)
(* before that.                                                            *)

Asks(writes, removes) == [error |-> "none", writes |-> writes, removes |-> removes]

Fails(error) == [error |-> error, writes |-> <<>>, removes |-> <<>>]

First(s, Test(_)) == s[CHOOSE i \in DOMAIN s : Test(s[i]) /\ \A j \in 1 .. i-1 : ~Test(s[j])]

(* Fs::remove checks every path on the snapshot's tree.                    *)
RemoveRequest(paths, recursive) ==
    LET bad(p) == \/ Lookup(tree, p) = NoEntry
                  \/ Lookup(tree, p) = DirEntry /\ ~recursive
        wrong == {i \in DOMAIN paths : bad(paths[i])}
    IN IF wrong = {} THEN Asks(<<>>, paths)
       ELSE Fails(IF Lookup(tree, First(paths, bad)) = NoEntry
                  THEN "NotFound" ELSE "IsADirectory")

(* The files at or below src, under their new names.                       *)
Relocated(src, target) ==
    LET rename(p) == target \o SubSeq(p, Len(src) + 1, Len(p))
        moved == IF Lookup(tree, src) = DirEntry THEN WalkTree(tree, src) ELSE {src}
    IN [q \in {rename(p) : p \in moved} |->
          tree[CHOOSE p \in moved : rename(p) = q]]

RenameRequest(src, dest) ==
    IF src = Root \/ dest = Root THEN Fails("InvalidPath")
    ELSE IF Lookup(tree, src) = NoEntry THEN Fails("NotFound")
    ELSE Asks(Relocated(src, dest), <<src>>)

(* Fs::move: into dest when it is a directory, else to dest.  Later        *)
(* sources win over earlier ones with the same name.                       *)
MoveRequest(sources, dest, recursive) ==
    LET into == Lookup(tree, dest) = DirEntry
        bad(p) == \/ p = Root
                  \/ Lookup(tree, p) = NoEntry
                  \/ Lookup(tree, p) = DirEntry /\ ~recursive
        target(p) == IF into THEN dest \o <<Last(p)>> ELSE dest
        wrong == {i \in DOMAIN sources : bad(sources[i])}
        moved == [i \in DOMAIN sources |-> Relocated(sources[i], target(sources[i]))]
    IN IF sources = <<>> THEN Fails("InvalidPath")
       ELSE IF Len(sources) > 1 /\ ~into THEN Fails("NotADirectory")
       ELSE IF wrong # {}
            THEN LET p == First(sources, bad)
                 IN Fails(IF p = Root THEN "InvalidPath"
                          ELSE IF Lookup(tree, p) = NoEntry
                               THEN "NotFound" ELSE "IsADirectory")
       ELSE Asks(InTurn(moved), sources)

(* Fs::copy_from_ref: the files at or below a source, under their names at *)
(* the destination.  A trailing slash asks for a directory's contents.     *)
Copied(src, dest) ==
    LET isDir == Lookup(SourceTree, src.path) = DirEntry
        files == IF isDir THEN WalkTree(SourceTree, src.path) ELSE {src.path}
        rel(p) == SubSeq(p, Len(src.path) + 1, Len(p))
        target(p) ==
            IF isDir
            THEN dest \o (IF src.contents \/ src.path = Root THEN <<>> ELSE <<Last(src.path)>>)
                      \o rel(p)
            ELSE IF Lookup(tree, dest) = DirEntry THEN dest \o <<Last(p)>> ELSE dest
    IN [q \in {target(p) : p \in files} |-> SourceTree[CHOOSE p \in files : target(p) = q]]

(* Mistaken: everything outside the copy is extra.                         *)
ExtraEverywhere(dest, writes) == Files(tree) \ DOMAIN writes

(* delete_extra: what is below the destination and not copied.             *)
ExtraFiles(dest, writes) ==
    IF Lookup(tree, dest) = DirEntry THEN WalkTree(tree, dest) \ DOMAIN writes ELSE {}

CopyRequest(sources, dest, delete_extra) ==
    LET writes == InTurn([i \in DOMAIN sources |-> Copied(sources[i], dest)])
        removes == IF delete_extra THEN ExtraFiles(dest, writes) ELSE {}
    IN IF \E src \in ToSet(sources) : Lookup(SourceTree, src.path) = NoEntry
       THEN Fails("NotFound")
       ELSE IF DOMAIN writes = {} /\ removes = {} THEN Fails("nothing to do")
       ELSE Asks(writes, SetToSeq(removes))

(* The tree that commit_changes makes of a request.                        *)
Result(request) ==
    IF request.error = "none"
    THEN RebuildTree(tree, request.writes, request.removes)
    ELSE tree

(* The request stays within the bounded paths.                             *)
Fits(request) == DOMAIN request.writes \subseteq Path \cup {Root}

-----------------------------------------------------------------------------
Start == nops < MaxOps /\ nops' = nops + 1

Commit(request) ==
    /\ Start
    /\ Fits(request)
    /\ tree' = Result(request)
    /\ ncommits' = IF request.error = "none" THEN ncommits + 1 ELSE ncommits
    /\ UNCHANGED <<batch, writer>>

(* Fs::write, and write_text, write_from_file and write_symlink through it.*)
Write(p, d) == "write" \in Ops /\ Commit(Asks(OneWrite(p, d), <<>>))

Apply(p, d, r) == "apply" \in Ops /\ Commit(Asks(OneWrite(p, d), <<r>>))

RemovePaths(paths, recursive) == "remove" \in Ops /\ Commit(RemoveRequest(paths, recursive))

Move(sources, dest, recursive) ==
    "move" \in Ops /\ Commit(MoveRequest(sources, dest, recursive))

Rename(src, dest) == "rename" \in Ops /\ Commit(RenameRequest(src, dest))

CopyFromRef(sources, dest, delete_extra) ==
    "copy" \in Ops /\ Commit(CopyRequest(sources, dest, delete_extra))

(* The dry_run option of remove, move and copy_from_ref: no commit.        *)
DryRun(request) ==
    /\ "dry_run" \in Ops
    /\ Start
    /\ Fits(request)
    /\ UNCHANGED <<tree, ncommits, batch, writer>>

-----------------------------------------------------------------------------
(* Batch.  The field calls remembers the calls made, for the properties.   *)

NewBatch ==
    /\ "batch" \in Ops
    /\ Start /\ batch.closed /\ writer.kind # "batch"
    /\ batch' = [NoBatch EXCEPT !.closed = FALSE, !.base = tree, !.commit = ncommits]
    /\ UNCHANGED <<tree, ncommits, writer>>

Without(f, p) == [q \in DOMAIN f \ {p} |-> f[q]]

(* std::remove and erase: the elements of s other than e, in their order.  *)
Erase(s, e) ==
    LET rest[i \in 0 .. Len(s)] ==
          IF i = 0 THEN <<>>
          ELSE IF s[i] = e THEN rest[i - 1] ELSE Append(rest[i - 1], s[i])
    IN rest[Len(s)]

(* Batch::write_with_mode on an open batch.                                *)
Staged(p, d) ==
    [batch EXCEPT !.removes = Erase(@, p),
                  !.writes = Over(OneWrite(p, d), Without(@, p)),
                  !.calls = Append(@, [writes |-> OneWrite(p, d), removes |-> <<>>])]

BatchWrite(p, d) ==
    /\ Start /\ ~batch.closed
    /\ batch' = Staged(p, d)
    /\ UNCHANGED <<tree, ncommits, writer>>

(* Mistaken: a staged write of the path survives.                          *)
BatchRemoveKeepsWrite(p) ==
    /\ Start /\ ~batch.closed
    /\ batch' = [batch EXCEPT
                   !.removes = IF p \in ToSet(@) THEN @ ELSE Append(@, p),
                   !.calls = Append(@, [writes |-> <<>>, removes |-> <<p>>])]
    /\ UNCHANGED <<tree, ncommits, writer>>

BatchRemove(p) ==
    /\ Start /\ ~batch.closed
    /\ batch' = [batch EXCEPT
                   !.writes = Without(@, p),
                   !.removes = IF p \in ToSet(@) THEN @ ELSE Append(@, p),
                   !.calls = Append(@, [writes |-> <<>>, removes |-> <<p>>])]
    /\ UNCHANGED <<tree, ncommits, writer>>

(* Mistaken: the batch's snapshot is not compared with the branch.         *)
BatchCommitAnyway ==
    /\ Start /\ ~batch.closed
    /\ batch' = [batch EXCEPT !.closed = TRUE]
    /\ tree' = RebuildTree(batch.base, batch.writes, batch.removes)
    /\ ncommits' = ncommits + 1
    /\ UNCHANGED writer

(* Batch::commit closes the batch first; commit_changes refuses the change *)
(* when the branch has moved since the batch was made.                     *)
BatchCommit ==
    /\ Start /\ ~batch.closed
    /\ batch' = [batch EXCEPT !.closed = TRUE]
    /\ IF batch.commit = ncommits
       THEN /\ tree' = RebuildTree(batch.base, batch.writes, batch.removes)
            /\ ncommits' = ncommits + 1
       ELSE UNCHANGED <<tree, ncommits>>
    /\ UNCHANGED writer

(* Any use of a closed batch throws BatchClosedError.                      *)
BatchClosed ==
    /\ "batch" \in Ops
    /\ Start /\ batch.closed
    /\ UNCHANGED <<tree, ncommits, batch, writer>>

-----------------------------------------------------------------------------
(* FsWriter and BatchWriter collect what they are given and write it when  *)
(* they are closed, or when they are destroyed without having been closed, *)
(* which differs only in that the exception is swallowed.                  *)

OpenWriter(kind, p) ==
    /\ "writer" \in Ops
    /\ Start /\ writer.kind = "none"
    /\ kind = "batch" => batch # NoBatch
    /\ writer' = [kind |-> kind, path |-> p, commit |-> ncommits]
    /\ UNCHANGED <<tree, ncommits, batch>>

(* Fs::write from the snapshot the writer was made from.                   *)
CloseFsWriter(d) ==
    /\ Start /\ writer.kind = "fs"
    /\ writer' = NoWriter
    /\ IF writer.commit = ncommits
       THEN /\ tree' = RebuildTree(tree, OneWrite(writer.path, d), <<>>)
            /\ ncommits' = ncommits + 1
       ELSE UNCHANGED <<tree, ncommits>>
    /\ UNCHANGED batch

(* The batch may have been committed in the meantime.                      *)
CloseBatchWriter(d) ==
    /\ Start /\ writer.kind = "batch"
    /\ writer' = NoWriter
    /\ batch' = IF batch.closed THEN batch ELSE Staged(writer.path, d)
    /\ UNCHANGED <<tree, ncommits>>

-----------------------------------------------------------------------------
Next ==
    \/ \E p \in Arg, d \in Data : Write(p, d) \/ BatchWrite(p, d)
    \/ \E p, r \in Arg, d \in Data : Apply(p, d, r)
    \/ \E src, dest \in Arg : Rename(src, dest)
    \/ \E s \in Sources, b \in BOOLEAN :
          \/ RemovePaths(s, b)
          \/ DryRun(RemoveRequest(s, b))
          \/ \E dest \in Arg : Move(s, dest, b) \/ DryRun(MoveRequest(s, dest, b))
    \/ \E s \in Copies, dest \in Arg, b \in BOOLEAN :
          CopyFromRef(s, dest, b) \/ DryRun(CopyRequest(s, dest, b))
    \/ NewBatch
    \/ \E p \in Arg : BatchRemove(p)
    \/ \E kind \in {"fs", "batch"}, p \in Arg : OpenWriter(kind, p)
    \/ \E d \in Data : CloseFsWriter(d) \/ CloseBatchWriter(d)
    \/ BatchCommit
    \/ BatchClosed
    \/ nops = MaxOps /\ UNCHANGED vars

Spec == Init /\ [][Next]_vars

-----------------------------------------------------------------------------
(* Type invariant: rebuild_tree always makes a tree, in which every entry  *)
(* is in a directory.                                                      *)
TypeOK ==
    /\ IsTree(tree)
    /\ IsTree(batch.base)
    /\ batch.closed \in BOOLEAN
    /\ DOMAIN batch.writes \cap ToSet(batch.removes) = {}
    /\ ncommits \in 0 .. MaxOps /\ batch.commit \in 0 .. ncommits
    /\ writer.kind \in {"none", "fs", "batch"} /\ writer.commit \in 0 .. ncommits
    /\ nops \in 0 .. MaxOps

(* Committing a batch has the effect, on the files, of making its calls    *)
(* one by one, each as a commit of its own, as long as no path of the      *)
(* batch lies inside another: staging forgets and reorders calls, and      *)
(* rebuild_tree does all the removes before the writes.                    *)
BatchActsInTurn ==
    LET touched == UNION {DOMAIN c.writes \cup ToSet(c.removes) : c \in ToSet(batch.calls)}
        one(t, c) == RebuildTree(t, c.writes, c.removes)
        atOnce == RebuildTree(batch.base, batch.writes, batch.removes)
    IN ~Nested(touched) =>
          Contents(atOnce) = Contents(FoldLeft(one, batch.base, batch.calls))

(* A step leaves alone the files that are not in the way of these paths.   *)
SparesOthers(paths) ==
    \A p \in Files(tree) : (\A q \in paths : ~InTheWay(p, q)) => tree'[p] = tree[p]

(* Committing a batch or closing a writer, however long after the snapshot *)
(* was taken, replaces only what is in the way of the paths it was asked   *)
(* to write or remove: the snapshot's other files, which the commit        *)
(* contains too, never come back over what was committed in between.       *)
LateChangesSpareOthers ==
    [][/\ ~batch.closed /\ batch'.closed
          => SparesOthers(DOMAIN batch.writes \cup ToSet(batch.removes))
       /\ writer.kind # "none" /\ writer'.kind = "none" => SparesOthers({writer.path})]_vars

(* What a remove does to the files is what it asks for, whichever order    *)
(* the paths come in, as long as none of them is the root or lies inside   *)
(* another: what is at or below them goes, nothing else does.              *)
RemoveRemovesFiles ==
    \A s \in Sources :
        LET request == RemoveRequest(s, TRUE)
        IN request.error = "none" /\ Root \notin ToSet(s) /\ ~Nested(ToSet(s)) =>
              Contents(Result(request)) = Changed(Contents(tree), <<>>, ToSet(s))

(* A rename takes every file at or below the source, and only those, to    *)
(* the same place relative to the destination, where they replace what is  *)
(* in their way, as long as neither of the two lies inside the other.      *)
RenameMovesFiles ==
    \A src, dest \in Arg :
        LET request == RenameRequest(src, dest)
        IN request.error = "none" /\ Fits(request) /\ ~Nested({src, dest}) =>
              Contents(Result(request))
                 = Changed(Contents(tree), request.writes, {src})

(* The same for moves of several sources, into a directory or not.         *)
MoveMovesFiles ==
    \A s \in Sources, dest \in Arg :
        LET request == MoveRequest(s, dest, TRUE)
        IN request.error = "none" /\ Fits(request)
              /\ ~Nested(ToSet(s) \cup DOMAIN request.writes) =>
              Contents(Result(request))
                 = Changed(Contents(tree), request.writes, ToSet(s))

(* A move overwrites nothing but what is at the new names: every other     *)
(* file that is not at or below a source is read back as before.           *)
MoveSparesOthers ==
    \A s \in Sources, dest \in Arg :
        LET request == MoveRequest(s, dest, TRUE)
        IN request.error = "none" /\ Fits(request) =>
              \A p \in Files(tree) :
                  \/ \E q \in DOMAIN request.writes : InTheWay(p, q)
                  \/ \E src \in ToSet(s) : IsPrefix(src, p)
                  \/ Result(request)[p] = tree[p]

(* Copying the contents of a directory from another snapshot and deleting  *)
(* what is extra makes the files below the destination those of the        *)
(* source, whatever was there; files elsewhere stay as they are.           *)
CopyMakesIdentical ==
    \A s \in Copies, dest \in Arg :
        LET src == s[1].path
            request == CopyRequest(s, dest, TRUE)
            result == Result(request)
            names(t, d) == {SubSeq(p, Len(d) + 1, Len(p)) : p \in WalkTree(t, d)}
        IN /\ Len(s) = 1 /\ (s[1].contents \/ src = Root)
           /\ Lookup(SourceTree, src) = DirEntry
           /\ request.error # "NotFound" /\ Fits(request)
           => /\ names(result, dest) = names(SourceTree, src)
              /\ \A n \in names(result, dest) : result[dest \o n] = SourceTree[src \o n]
              /\ \A p \in Files(tree) : ~InTheWay(dest, p) => result[p] = tree[p]
=============================================================================
