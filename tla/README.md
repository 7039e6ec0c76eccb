# Verification of the vost C++ library

vost is a versioned file store on top of a bare git repository. A *snapshot*
(`Fs`) is an immutable view of one commit; every write makes a new commit and
moves a branch to it, and fails if somebody else has moved the branch since the
snapshot was taken. This directory models the C++ library under `src/cpp/`
(`src/cpp/src/*.cpp`, `src/cpp/include/vost/*.h`) in TLA+. The Python package
(`src/src/vost`) and the Rust, TypeScript and Kotlin ports follow the same design
and are not modelled.

- [1. Inventory](#1-inventory)
- [2. Modules](#2-modules)
- [3. Runs](#3-runs)
- [4. Proofs](#4-proofs)
- [5. Disagreements found](#5-disagreements-found)
- [6. Abstractions and what is not modelled](#6-abstractions-and-what-is-not-modelled)
- [7. Plan](#7-plan)

Running: `tlc -workers 2 -config writers.cfg MCVostStore` (section 3 says which
module each configuration belongs to), `tlapm VostStoreProofs.tla` and likewise for every
module of section 4. PROJECT.json
maps every definition to the lines it translates and lists runs, mutants,
findings, hazards and theorems.

## 1. Inventory

| Component | Source | State it keeps | Operations |
|---|---|---|---|
| Reference updates | `fs.cpp`, `gitstore.cpp` | commit objects, references, reflogs (on disk); a snapshot's commit, tree, reference name and `writable_` | `commit_changes` (every write ends in it), `undo`, `redo`, `back`, `parent`, `squash`, `Fs::empty`, `GitStore::fs`, `RefDict::get/set/del` |
| Repository lock | `lock.cpp` | the flock on `vost.lock` | `with_repo_lock` |
| Trees | `tree.cpp`, `paths.cpp` | tree and blob objects | `rebuild_tree`, `lookup`, `list_tree`, `walk_tree`, `walk_tree_dirs`, `write_commit` |
| Write operations | `fs.cpp` | none beyond the snapshot; a `FsWriter`'s buffer | `write*`, `apply`, `remove`, `move`, `rename`, `copy_from_ref`, `FsWriter` |
| Batch | `batch.cpp` | staged writes and removes, `closed_` | `write*`, `remove`, `commit`; `BatchWriter` |
| Notes | `notes.cpp` | `refs/notes/<ns>`, a `NotesBatch`'s staged changes | `set`, `del`, `NotesBatch::set/del/commit`, `build_note_tree`, `commit_note_tree` |
| Packing | `gitstore.cpp` | the object database's files | `pack`, `gc` |
| Copy and sync | `copy.cpp` | the disk, the tree | `copy_in/out`, `sync_in/out` |
| Mirroring | `mirror.cpp` | the references of two repositories | `backup`, `restore`, bundle export and import |
| Glob, reads | `glob.cpp`, `fs.cpp` | none | `glob`, `ls`, `listdir`, `walk`, `stat`, `read_range`, `log` |
| `retry_write` | `vost.h` | an attempt counter | the retry loop |

**Interaction.** All objects made from one `GitStore` share a `GitStoreInner`: one
libgit2 repository and one `std::mutex`, called a *handle* here. Handles (processes,
or several `GitStore::open` in one process) share only the repository on disk and
the advisory lock `vost.lock`. `commit_changes`, `undo`, `redo` and
`commit_note_tree` take `vost.lock` and then the mutex. `RefDict::set` and
`RefDict::del` take only the mutex. Undo and redo find their target, and notes
build their tree, under the mutex in a section *before* the locked one. `pack` and the
calls of `mirror.cpp` hold the mutex throughout and never `vost.lock`. `retry_write`
and the copies end in `commit_changes`; a batch and a writer hold a snapshot from when
they are opened until they are committed or closed.

**What is hard.** Two processes interleave between any two libgit2 calls that no lock
covers. A process may die, or a call throw, inside both locks. The wait for
`vost.lock` gives up after 30 seconds. A commit rewrites the whole tree of its
snapshot, so a missed conflict silently undoes somebody's work. `redo` finds its way
by the messages in a reflog that every operation writes to. `rebuild_tree` groups
writes and removes by directory and is sensitive to which lookups it does first.
A copy lists a directory and reads it file by file later; a transfer lists references and
moves them one by one later; `pack` removes files other processes may be reading.
PROJECT.json lists these as hazards, each with the properties that would catch it.

**What makes each part correct.**
- Reference updates: the stale check and the update are atomic; no successful commit
  drops another; the reflog is a chain that redo can retrace; locks are released on
  every way out; every call returns; tags do not move.
- Trees: a change does to the files what it asks for, independent of how it is
  grouped, and the result is a tree.
- Batch: one commit has the effect of the calls made one by one.
- Notes: the history stays linear, a commit holds its whole change and nothing of
  anybody else's, and a note has one entry whichever layout git left it in.
- Packing: no object ever becomes unreadable.
- Copy and sync: the destination gets what the filters select, a sync deletes what they
  select and the source lacks, nothing else changes, and the report says what happened.
- Mirroring: a reference never leads to an object that is not there, only references that
  were asked for move, and the difference reported is what happens.
- `retry_write`: a retried change is made once; the loop ends.
- Reads: listings, walks, globs, ranges and logs agree with the tree and with one another.

## 2. Modules

### VostStore
The reference-update core. `commits`, `refs`, `reflog` and `repo_lock` are shared;
`mutex` is per handle; `fs`, `pc`, `call`, `target`, `existing`, `res` are per thread.
A commit's id is its index, and a tree is a function from `Path` to data.

A call of `commit_changes` goes through `pc` values that stand for the points where
another process can run:

    idle -CommitChanges-> flock -AcquireRepoLock-> check -StaleCheck-> build
         -BuildCommit-> lookup -LookupRef-> update -UpdateRef-> unlock
         -ReleaseRepoLock-> idle

`Undo` and `Redo` walk the first parents or scan the reflog (`NthParent`,
`RedoScan`), then join at `flock` and skip `build`. `TimeOutRepoLock` is the
30-second deadline, the stale exit is in `StaleCheck`, `GitFailure` a libgit2 call
that throws inside the section, `Crash` the death of a handle's process.
`RefDictSet`/`RefDictCreate` and `RefDictDel`/`RefDictDelete` are the two halves
(lookup, write) of `RefDict::set` and `RefDict::del`. `RefDictGet`, `FsOfHash`,
`FsEmpty`, `FsBack` and `FsSquash` obtain snapshots. `RequireWritable` refuses writes
through tags and detached snapshots. `UpdateRef` compares with the *second* lookup
(`existing`), because that is what `git_reference_set_target` does with the
`git_reference` it is given; the snapshot's commit is compared only in `StaleCheck`.

### SnapshotStore and VostRefinement
`SnapshotStore` is the promise to a user: commit, undo and redo each happen at one
instant, and only from the snapshot's commit (or onto a missing branch).
`VostRefinement` maps `VostStore` to it (the tip is the reference, the past is what the
reflog records) and states `AtomicSwaps`, checked by the run `writers`.

### VostTree and VostFs
`VostTree` has the tree algorithms as operators. `Fate` says what `rebuild_tree` does
with an entry, given what it did with the directory above; `KeepsContents` is the
order-dependent part: the subtree a directory is rebuilt from is looked up either
before all removes (if anything is written below it) or when the first remove reaches
below it. `Changed` is the reference definition on sets of files that the algorithm is
compared with. A list of writes is a function of the path: `OneWrite`, `Over` (a later one takes the
place of an earlier one) and `InTurn` (of the writes of several sources to one path the last counts)
are how it is put together. `NameAssumption` says that names are finitely many, as directory entries
are. `VostFs` has one action per write operation, each first turned into
its writes and removes or its exception (`RemoveRequest`, `MoveRequest`,
`RenameRequest`, `CopyRequest`), and the `Batch`, `FsWriter` and `BatchWriter` objects
with the snapshot they hold. A destructor closes like `close` and swallows the exception, so
the two are one action.

### VostRead
The readers as operators on the tree of VostFs: `ListTree`, `WalkTreeDirs`, `LsRecursive`,
`Stat` with its link count (`CountSubdirs`), `ReadRange` in arithmetic that wraps at
`SizeMax + 1`, `FnMatch` and `IGlob`. A name is spelled by a sequence of characters only for
the patterns. `NameMatches` and `PathMatches` are the reference definition of a match: some
way to cut the name into pieces, one for each token.

### VostLog
`Fs::log` as a loop over the first parents of a snapshot in VostStore (`LogRound`), with the
path, message and time filters (`Matches`), `skip` and `limit`. The time of a commit is its
index.

### VostRetry
`retry_write` around VostStore's actions. The function that is retried belongs to the caller and
is not in the repository; the model takes the one that depends most on the stale check, a
counter that is read, increased and written: get the branch (`GetBranch`), read the counter from
that snapshot and write the next number (`WriteFile`). The example in the comment of `vost.h` is
another one (section 5). `Returns` and `Wakes` are the loop. Threads that do not retry move other
references meanwhile, with `set`, `del` and `undo` (`Others`). `RetryAssumption` says what the
counter is made of: one path, a text for each number, different ones for different numbers, and the
change that writes it (`CounterTo`).

### VostCopy
`tree` and `ncommits` are the branch, `disk` is the directory, `call` the call under way.
`StartIn`, one `ReadFile` per file, `CommitIn`; `StartOut`, one `WriteFile` per file, `CopiedOut`,
`DeleteExtras`, `PruneDirs`. A file is a value with a `Mode` and a `Content`, so that two files
may differ in the mode alone; a link's content is the name of its target. `RepoEdit` and
`DiskEdit` are other processes, between any two steps. `CopyAssumption` types the constants and
makes room for a destination given twice (`sync_in` looks `dest` up inside `dest`);
`ModeAssumption` says that a file can be made executable, or not; `LinkAssumption` that
no directory and no further link is made under a name that a link gives, so that a link leads to
a file or nowhere.

### VostPack and VostMirror
`VostPack` is the object database: `loose` and `packed` objects and per handle how far
`pack` is (`CollectOids`, `WritePack`, one `RemoveLoose` per file). `VostMirror` extends it with
references on two sides and a bundle file. A call makes its listings (`ListLocal`, `ListRemote`,
in any order relative to the other processes), computes its difference (`Compare`, `DiffOf`),
transfers objects (`Push`, `Fetch`, `ImportBundle`), then moves references one at a time
(`UpdateOneRef`, `DeleteOneRef`); exporting writes header and pack in two steps. `Fail` is a
failure or a crash anywhere. `RefuseOneRef` is a push of which the other repository refuses one
reference: the code gives libgit2 no `push_update_reference` callback, so the push goes on and
succeeds.

Besides the library's own, there are bundles that git made: `OtherExport` is one of the remote
repository's references, complete (`base = 0`) or incremental, and `ForeignBundle` an incremental
one that builds on a commit neither repository has. `bundle.needs` is what an incremental bundle takes for
granted. `ImportBundle` skips the prerequisite lines of the header, as `parse_bundle_header`
does, and asks for none of it; `gaps` records, for `RefsComplete`, what was not there. A
history with a gap cannot be walked, so an export or push of it fails unless the other side has
what is missing (`ExportBundle`, `Push`). `ResolveOneRef` and `Destination` are how short names and reference
maps become full names; `IsName` tells a full name from a short one.

### VostNotes
One namespace: `commits` and `tip` (the notes reference), the `NotesBatch` (`staged`,
`closed`), and per thread the three sections of a change, `ReadBase`, `BuildTree`, and
the locked `WriteNoteCommit`/`UpdateNotesRef`. A note is in the `flat` or the `fan`
layout. `ResolveTarget` is the variant by branch name, `MoveBranch` what other calls do
to that branch.

### VostStoreProofs, VostRetryProofs, VostNotesProofs, VostMirrorProofs, VostTreeProofs, VostFsProofs, VostCopyProofs
The theorems, section 4. `VostStoreProofs` is about types, locks, the stale check,
histories, redo, the refinement and logs; `VostRetryProofs` extends it with the retry loop; `VostMirrorProofs` is about packing and mirroring.
`VostTreeProofs` has the lemmas about `rebuild_tree`, `VostFsProofs` what the operations of
`VostFs` do to files and what range reads, listings and globs return, `VostCopyProofs` what copies and syncs do to branch and disk.
`VostInduction` has the induction on numbers they share: least elements, what a function
defined by recursion on a number is, and sums over finite sets.

### MCVostStore, MCVostFs, MCVostNotes, MCVostRetry, MCVostCopy, MCVostMirror
Values for the constants that a configuration cannot write, and `RedoAdvances`, which
belongs to one instance.

Definitions commented *Mistaken* are variants of the code with a plausible bug. No
specification uses them; PROJECT.json pairs each with the property that it must
violate, which shows that the property can fail.

## 3. Runs

`MaxCalls` and `MaxOps` bound the number of calls and crashes, `MaxBack` the argument of
`undo`, `redo` and `back`. Nothing else is bounded in VostStore and VostNotes. VostCopy and
VostFs are also bounded by `MaxDepth`, VostMirror by the number of commits (`Object`),
VostRetry by `MaxWrites`, the retried calls a thread makes, and by `max_retries`. All
runs check for deadlock; a behaviour whose calls are used up stutters.

### Passing

| Run | Module | Instance | States | Shows |
|---|---|---|---|---|
| `writers` | MCVostStore | 2 processes, 4 calls, steps back of up to 2, snapshots by hash, failures and crashes | 551,571 | `TypeOK`, `LockOwnership`, `CheckStillValid`; `RedoRetracesUndo`: after any run of k undos, redo(k) finds the commit before them; the refinement `AtomicSwaps` |
| `one_handle` | MCVostStore | 2 threads of one handle, 2 branches, a tag, `set` and `del`; empty and squashed snapshots, merges; 3 calls | 916,371 | `SwapFromSnapshot`, `ReflogChain`, `ReflogExtends`, `TagsNeverMove`; `LogExplainsPath`: the newest entry in a path's log has the path's content; `LogPagesAddUp`: pages of a log make up the log |
| `retry` | MCVostRetry | 2 retrying threads in 2 processes, a third thread beside one of them; 5 calls, 1 retry, failures and crashes; `RetrySpec` | 117,135 | `NoLostIncrement`, `GivesUpOnProgress`, `RetryEnds`, `CallsReturn` |
| `tree_ops` | MCVostFs | 3 operations of any kind on 7 paths of depth up to 3; in every tree, every remove, move and rename of one or two of them, copies from another branch, 12 patterns, every range | 1,798 | `TypeOK` (the result is a tree), `RemoveRemovesFiles`, `RenameMovesFiles`, `MoveMovesFiles`, `MoveSparesOthers`, `CopyMakesIdentical`, `GlobFindsMatches`, `ListingsAgree`, `RangesAreExact` |
| `batch` | MCVostFs | batches of up to 3 calls and writers, stale or not, 5 calls | 394,185 | `BatchActsInTurn`, `LateChangesSpareOthers` |
| `notes` | MCVostNotes | 2 processes, 4 calls by hash or branch name, failures and crashes | 487,748 | `TypeOK`, `OneEntryPerNote`, `ChangeTakesEffect`, `NotesHistoryGrows`, `OthersKeptUndisturbed` |
| `copy` | MCVostCopy | copies and syncs to the root and a directory, 3 filters, 4 calls and edits by others | 288,131 | `TypeOK` (branch and disk are trees, whatever failed), `InCallsTakeEffect`, `ReportTellsChanges`, `OutCallsDeliver` |
| `mirror` | MCVostMirror | 2 repositories and a bundle, 3 references, 3 commits, a request for all, by short name and by map, refused references, complete and incremental bundles; 4 calls, commits, deletions | about 1.53 million | `TypeOK`, `RefsComplete`, `OnlyAskedMoves`, `DiffIsWhatHappens`, `ObjectsKept` |

**Why the bounds are enough.** A lost update needs two writers and one call each; a
third and fourth call give either of them a history to undo or redo and leave room for
a crash. Four calls also reach two commits
and two undos of them, the shortest history on which the direction of redo's scan
matters. Depth 3 is the smallest
depth at which a rebuilt directory lies in a rebuilt directory and still has a file
below. Two names give a sibling at every level. A list of two paths is the smallest
on which the order of removes matters. Two hashes give a note that a change does not
touch. One retry suffices to be overtaken in the first and the last attempt; a loop with more
repeats the same step. For a copy, one edit by others makes a difference before it and one
interferes, and a directory that has one of the same name inside tells the two lookups of
`sync_in` apart. Three commits give a history of two and one on the other side, and
a branch and a tag of the same short name make a short name ambiguous. In `writers` the threads form a symmetry set: each has its own
handle and path, and only safety is checked there. The other instances choose particular threads.

**Conditions in the properties.** `RemoveRemovesFiles` is about paths other than the root: a
recursive remove of the root commits and removes nothing (section 5). `RemoveRemovesFiles`, `RenameMovesFiles`,
`MoveMovesFiles` and `BatchActsInTurn` exclude requests in which one path lies inside
another. There the outcome depends on when `rebuild_tree` looks a subtree up, which the
model follows (`KeepsContents`): a directory moved into itself keeps its files in the old
place too, and one that is removed together with something in it stays, emptied.
`MoveSparesOthers` has no such exclusion. The properties of VostCopy are about calls that
nobody interfered with and directories without links (section 6 says what links do);
`DiffIsWhatHappens` and `OnlyAskedMoves` about transfers that nobody interfered with and whose
remote could be reached. `DiffIsWhatHappens` says of references that the other repository
refused that they are as they were; the caller does not learn of it (section 5). Of a dry run it
says that no reference moves; a repository may be created. `RefsComplete` allows for commits behind the prerequisites of
an imported bundle that were missing when it was imported (`gaps`), in the repository that imported
it and not in the other. `TypeOK` and `ObjectsKept` have no condition.

**Fairness.** `FairSpec` is weak fairness of `Proceed(t)` for every thread: a thread
that can go on is eventually run by the operating system. `RetrySpec`, which the run `retry`
uses, adds the steps of the retry loop, a sleep with a deadline among them. A thread that waits for
`vost.lock` can always go on: either the lock is free or the deadline in
`with_repo_lock` ends the wait. For the mutex, weak fairness is enough because calls are
finitely many (`MaxCalls`) and every section ends; `std::mutex` itself promises no
fairness against an unending stream of other callers. Neither the making of calls nor
failures or crashes are fair.

### Violated

Each of these states what a document, comment or test of the repository says, and TLC
finds a behaviour of the code that contradicts it.

| Run | Module | Property |
|---|---|---|
| `lost_set` | MCVostStore | `SwapFromSnapshot` with `RefDict::set` from another process |
| `redo_back` | MCVostStore | `RedoAdvances` |
| `lost_note` | MCVostNotes | `OtherNotesKept` with two processes |
| `sync_again` | MCVostCopy | `SyncMakesIdentical`, without filters and links |

## 4. Proofs

### VostStoreProofs: types, locks and the stale check

VostStoreProofs proves, for any sets of threads, handles, branches, tags, paths and
data, any assignment of threads to handles, and any bounds:

| Theorem | States |
|---|---|
| `TypeCorrect` | `Spec => []TypeOK`; references, snapshots and the targets of calls under way are stored commits |
| `LocksOwned` | `Spec => []LockOwnership` |
| `CheckAtomic` | `Serialized /\ Spec => []CheckStillValid` |
| `SwapsFromSnapshot` | `Serialized /\ Spec => SwapFromSnapshot` |
| `ReflogAlwaysExtends` | `Serialized /\ Spec => []ReflogExtends` |

**Assumptions.** The named assumptions of VostStore: `HandleAssumption` (a thread has a
handle), `NameAssumption` (branches and tags are different references, the placeholders
are not names), `ChangesAssumption`, `OpsAssumption`, `BoundAssumption`. TLC evaluates
them in every run of MCVostStore. `Serialized` is a hypothesis of three theorems: either
nobody uses `RefDict::set` and `RefDict::del`, or all threads share one handle. It cannot
be dropped, as the run `lost_set` shows.

**Argument.** The inductive invariant is

    TypeOK /\ CallOK /\ LockOwnership /\ CheckStillValid /\ HistoryOK
    HistoryOK == BuiltOnSnapshot /\ ReflogExtends

- `TypeOK` needs `CallOK`: what `UpdateRef` and `RefDictCreate` write is a stored commit
  because of what the locals of a call mean at each `pc`.
- `LockOwnership` gives mutual exclusion: two threads between check and update would both
  own `vost.lock` (lemma `OneChecked`).
- `CheckStillValid` follows because only `UpdateRef`, `RefDictCreate` and `RefDictDelete`
  move references. By `OneChecked` the first is never taken by another thread while a check
  is being relied on. Under `Serialized` the other two do not occur, or need the shared
  mutex, which the checking thread holds.
- `ReflogExtends` needs `BuiltOnSnapshot` (the commit about to be published is a child of the
  snapshot's) and `CheckStillValid` (the branch is at the snapshot's commit when it is).

Each invariance lemma has one step per action. `NthParent` and `RedoScan` are never
expanded: their results are used only after the test that they are stored commits.

### VostStoreProofs: histories, redo and the refinement

| Theorem | States |
|---|---|
| `ReflogUnbroken` | `Spec => []ReflogChain`, whatever operations are used |
| `RedoRetraces` | `"undo:" \notin Message`: `Spec => []RedoRetracesUndo` |
| `TagsStay` | `Serialized`: `Spec => TagsNeverMove` |
| `Refinement` | `Ops \cap RefDictOp = {}`: `Spec => AtomicSwaps`, every behaviour of VostStore is one of SnapshotStore |

**Hypotheses.** A user's commit message that starts with `undo:` is taken for an undo
(`src/cpp/src/fs.cpp:905`), so `RedoRetraces` needs that there is none. `Refinement` is about
stores on which nobody uses `RefDict::set` and `del`: SnapshotStore has no such operations.

**Argument.** `LogsOK` says that each reflog is a chain whose last entry is the tip; a write by
`WriteRef` keeps it because the old value it logs is the reference's. `ReflogChain` is then
immediate. For redo, `ScanRetraces` shows by induction on the rounds of the loop that on a log that
ends in k undos `RedoScan` returns the commit before them, and `UndosOK` that what is logged
as an undo is one and moved the branch away from a commit.
For the refinement, the tip of a branch maps to its reference and its past to the commits of
its reflog. `TargetOK` carries what `undo` and `redo` found before taking `vost.lock` (an ancestor of
the snapshot's commit, a commit of the reflog) to the moment of the update; commits never change
and reflogs only grow, so it stays true. `ParentsOK`, that parents have smaller numbers, makes
`NthParent` an ancestor by induction on the number of steps back. Then only `Moved(t)` changes
what SnapshotStore sees, and `CheckStillValid` makes it one of that specification's steps.

### VostStoreProofs: logs

| Theorem | States |
|---|---|
| `LogsExplainPaths` | `Spec => []LogExplainsPath` |
| `LogPagesAreExact` | `Spec => []LogPagesAddUp` |

Neither has a hypothesis: `set`, `del`, failures and crashes may all occur. The invariant is
`TypeOK /\ CallOK /\ ParentsOK`; what `Fs::log` returns is then an induction on the rounds of its
loop (`LogIs`, `LogRoundIs`). For a path, as long as nothing is found the path has not changed since
the current commit (`LogExplains`), and because a first parent has a smaller number, the loop
has reached the beginning of history after as many rounds as there are commits. For pages, two loops
run side by side (`Alongside`): the one for the page is at the same commit as the one for the whole
log until the page is full, and holds the piece of the log that belongs to it (`PageFits`).
`LogPages` says this for any number of entries per page.

### VostRetryProofs

| Theorem | States |
|---|---|
| `IncrementsCounted` | `RetrySpec => []NoLostIncrement` |
| `OvertakenEachTime` | `RetrySpec => GivesUpOnProgress` |

For any number of threads and processes, any `max_retries`, with failures and crashes. The
only hypothesis is `RetryAssumption`. `IncrementsCounted` is about functions that read the counter
from the branch they get and write back the next number, and says nothing of others, the example
in `vost.h` among them; `OvertakenEachTime` does not depend on what is written. References other than the
counter's branch may be set and deleted by other threads, without `vost.lock`, so
`Serialized` need not hold here; the invariant `RetryInv` has a stale check of its own for the
counter's branch (`IncrementOK`). `MainOK` says that the number shown is the number of movements
of the branch. `CreditsOK` compares the sum, over all threads, of the successes reported
with that number: a success that is not yet reported counts (`Due`), so that a crash between the
update and the report can only lower the sum. `LoopOK` and `Overtaken` say that after `a`
attempts the branch has moved at least `a` times since the call began.

### VostNotesProofs

| Theorem | States |
|---|---|
| `NotesTyped` | `Spec => []TypeOK` |
| `NotesHistory` | `Spec => NotesHistoryGrows` |
| `NotesUndisturbed` | `Spec => OthersKeptUndisturbed` |
| `NotesTakeEffect` | `StoredOnce`: `Spec => []ChangeTakesEffect` |
| `NotesCountedOnce` | `StoredOnce`, finitely many hashes: `Spec => []OneEntryPerNote` |
| `NotesKeptAlone` | at most one thread: `Spec => []OtherNotesKept` |

`StoredOnce` is about notes that other tools made before: none is in both layouts, which git
never does. `NotesCountedOnce` is about a cardinality, which needs a finite set. `NotesKeptAlone`
is what is left of the claim that `lost_note` refutes. The inductive invariant `NotesInv` says that
from taking `vost.lock` to the update a thread is alone and that the tree it commits is the one
`build_note_tree` made of the base it read; `LayoutsOK` adds that trees have a note in one layout
only; `AloneOK`, for one thread, that the base read is still the tip's tree.

### VostMirrorProofs: packing and mirroring

For any set of handles that pack at the same time and any finite set of objects:

| Theorem | States |
|---|---|
| `PackIsSafe` | `~InsertsFail => (PackSpec => []PackInv)`, where `PackInv` is `PackTypeOK` and `PackHasRemoved` |
| `PackKeepsObjects` | `~InsertsFail => (PackSpec => ObjectsKept)` |

`PackHasRemoved` is the inductive part: while a call removes loose files, the objects it still
has to remove are in a pack. Packs only grow, so no other call can falsify it, and it is what
makes `RemoveLoose` harmless. The hypothesis `~InsertsFail` cannot be dropped: `pack` removes
the loose file of an object whose insertion failed too (section 5).

For any references, requests and number of commits, with packing, other writers, failures and
crashes anywhere, under the same hypothesis:

| Theorem | States |
|---|---|
| `MirrorTyped` | `Spec => []TypeOK` |
| `ReferencesComplete` | `Spec => []RefsComplete` |
| `TransfersPack` | `Spec => PackSpec`: on the objects of a repository, VostMirror is an implementation of VostPack |
| `TransfersKeepObjects` | `Spec => ObjectsKept`, from the two theorems above |
| `TransfersDone` | `Spec => []DiffIsWhatHappens` |
| `TransfersStayWithin` | `Spec => []OnlyAskedMoves` |

- `MirrorInv` speaks of *closed* sets of commits, which hold the parent of each member: the
  remote repository's objects are closed, the local ones are together with `gaps` (`Held`), as is
  what a bundle holds together with what it needs (`Spans`), the references lie in what is stored, and when references are about
  to be updated (`CallOK`) the objects they are updated to are there already. That is the order of
  objects before references, and it makes each single update safe, so a failure after any of
  them is too. A closed set contains all ancestors of its members, by induction on the number of a
  commit (`Ancestry` is a recursive function).
  Gaps do not spread to the remote repository, because a push that goes on has sent or found
  there all that its tips lead to.
- `DoneOK` follows one undisturbed call. `Progress` is its core: during the updates, a
  reference that is still to be updated or deleted, or that was refused, is as it was, one that
  is done is as it is to be, and the rest is untouched. With nothing left to do it says that the call
  is done but for what was refused (`GrantedIs`). `RefusedOK` says that only a backup to a repository
  is refused anything. A dry run moves no reference.
- `NamesOK` says that all references have full names, which gives `OnlyAskedMoves` its statement
  about namespaces: `resolve_ref_map` takes the namespace from the source.

### VostTreeProofs and VostFsProofs: trees, operations, batches

For trees of any depth, any finite set of names, any data, any lists of sources and any number
of operations:

| Theorem | States |
|---|---|
| `TreesStayTrees` | `Spec => []TypeOK` |
| `RemovesRemoveFiles` | `Spec => []RemoveRemovesFiles`, for paths other than the root |
| `RenamesMoveFiles`, `MovesMoveFiles` | `Spec => []RenameMovesFiles`, `[]MoveMovesFiles` |
| `MovesSpareOthers` | `Spec => []MoveSparesOthers` |
| `CopiesMakeIdentical` | `Spec => []CopyMakesIdentical` |
| `BatchesActInTurn` | `Spec => []BatchActsInTurn` |
| `LateChangesAreLocal` | `Spec => LateChangesSpareOthers` |
| `RangesExact` | `Spec => []RangesAreExact` |
| `ListingsAlwaysAgree` | `Spec => []ListingsAgree` |
| `GlobsFindMatches` | `Spec => []GlobFindsMatches` |

The assumptions are VostTree's `TreeAssumption` and `NameAssumption` and VostFs's
`ArgAssumption`, and for `RangesExact` VostRead's `ReadAssumption`, that a file has at most SIZE_MAX
bytes, and for `GlobsFindMatches` its `GlobAssumption`: names are sequences of characters and
patterns sequences of segments, which are sequences of tokens. That names are finitely many is used
for two things: `delete_extra` puts the extra files into a list, and only a finite set can be listed
(`PathFinite`, `InSomeOrder`); and link counts are numbers of directories, which add up. The
properties' own conditions are those of section 3, no more.

**The algorithm.** `rebuild_tree` is the recursive function `Fate`, from a path to what becomes of
it. That it is defined everywhere is an induction on depth (`FateExists`), and what it says of a
path in terms of the directory above it is `FateCases`. `PathInduction`, that what holds of a
path if it holds of the directory it is in holds of all, is the shape of the proofs about it:

- `RebuildMakesTree`: whatever is written and removed, the result is a tree. This needs no
  condition: a write below a file replaces the file by a directory.
- `RebuildSpares`: what is neither in the way of a written or removed path nor below a removed
  one keeps its content. No condition either.
- `RebuildChanges`: if of all the paths given none lies inside another, the result is `Changed`,
  the definition on sets of files, in which no order matters. `WrittenFate` and
  `KeptFate` are its two cases. `RebuildTakes`, `RebuildWrites` and `RebuildRemoves` are what
  moves, single writes and removes need of it.

**The operations.** Each `...Asks` lemma says what a request writes and removes; `RelocatedApart`
and `CopiedNames` that the new names of different files are different, and lie inside one another
only if the old ones do, so that `RebuildChanges` applies. `RenameInPlace` is a rename to the
same name, which writes what it removes.

**Batches and writers.** The inductive invariant `FsInv` says that a batch's writes and removes
are apart, that its snapshot is not newer than the branch, and

    batch.commit = ncommits => batch.base = tree

which turns the stale check, a comparison of commits, into what the theorem needs: a
commit that is not refused applies to the tree its snapshot was taken of. For `BatchesActInTurn`
the invariant is `SumsUp`: what is staged so far would make of the base what the calls made so far
make of it one by one. It is proved for each `write` (`StagedSumsUp`) and `remove` (`RemoveSumsUp`),
where `ThenWrite` and `ThenRemove` say that forgetting an earlier call on the same path makes
no difference.

**Ranges.** `RangeIs` is about the arithmetic of `read_range`, for any `SizeMax`: the sum is formed
only where it does not exceed SIZE_MAX, so taking it modulo `SizeMax + 1` changes nothing.

**Listings.** `WalkTreeDirs` recurses towards deeper directories. `WalkIs` solves the recursion: the walk
of a directory has one entry for each directory at or below it. `WalkExists` shows that this
satisfies the equation, `WalkUnique`, by induction on the distance to the greatest depth,
that nothing else does. Every directory below the start is then the child of one that is also
visited (`ParentBelow`, `SubdirsBelow`), which is what the entries' names and subdirectories must
agree on. The link counts count each directory in the one above it; the directories above
are different for different parents, so `SumOfDisjoint` of VostInduction makes of the sum of the counts
the number of directories (`LinksAddUp`).

**Globs.** `Cuts` says that the rest of a pattern can be given the rest of a name or path, piece by
piece; its one lemma `CutsStep` peels off the first piece. `FitsFrom` (tokens and characters) and
`Leads` (segments and names) are its two uses, and `NameMatchesIs` and `PathMatchesIs` say that they are
the reference definition's.
- `FnMatchIs`: the matcher returns `FitsFrom`. `MatchStepIs` does a position of the recursion, `StarRun`
  the run of stars that the code skips at once. A wildcard moves both positions, so
  the induction is on the pattern's, for all positions in the name.
- `IGlobIs`: `iglob` finds a path at least once exactly if it matches. A double star moves one position
  and a plain segment both, so the induction is on the sum of what is left of path and pattern
  (`HitsExist`, `HitsCount`). `Counts` is what holds at each pair of positions:
  the count is positive exactly if the rest of the pattern `Leads` to the file; and without a double star
  left it is at most one and, if it is one, as many names as segments are left; with one double star left,
  at most one name fewer. The last part is why no file is found twice: the two ways on from a
  double star, to stop here or to go a level down, need different lengths.

### VostCopyProofs: copies and syncs

For trees of any depth, any files, filters and destinations, any number of calls, and other
processes that change the branch or the disk between any two steps:

| Theorem | States |
|---|---|
| `CopiesKeepTrees` | `Spec => []TypeOK`: branch and disk stay trees, wherever a call fails |
| `CopiesInTakeEffect` | `Spec => []InCallsTakeEffect` |
| `ReportsAreExact` | `Spec => []ReportTellsChanges` |
| `CopiesOutDeliver` | `Spec => []OutCallsDeliver` |

The assumptions are those of VostTree and VostCopy's `CopyAssumption`, `ModeAssumption` and
`LinkAssumption` (section 2); the conditions of the properties are their own.

**Types.** `CopyInv` says that the branch, the disk, and the two trees a call remembers are trees
in which no directory has a name that a link gives (`Stock`), because writing through a link would
otherwise make a file of a directory; that what a call lists, reads and writes are paths
(`Calls`, `ListsOK`, `Placed`); and, as for batches, that a call whose commit is still the branch's has
the branch's tree (`SnapshotOK`). For each action a lemma (`StartInIs`, `ReadFileIs`, `CommitInIs`,
`WriteFileIs`, ...) says what it does to these, once for all theorems.

**Copies in.** `HasRead` is the invariant of the loop over the files: of those read so far, the
changed ones (`Picked`), with their content, are what is to be written, and the lists of the report have
exactly them. `ReadyIs` is its meaning when no file is left, and `ExistingKnown` that the
checksums compared with are those of the branch. The core is `LeaveOut`: writing only what differs
gives the same contents as writing all that was asked for. With
`RebuildChanges` of VostTreeProofs, `CommitMakes` then says what the commit makes of the branch and
`ReportIs` what the report may say.

**Copies out.** `DeliverInv` follows the disk: while files are written, those done are delivered and
all others untouched (`Wrote`, kept by `WroteMore`: no file that is written lies inside another);
after the deletion no surplus file is left (`DeletedIs`); pruning removes directories without files
only (`SyncDelivers`).

### What they share

**Induction.** What a recursive function returns is proved for all arguments in VostInduction's
way: the claim is turned into a set of numbers, and the library's theorems that < is
well-founded on the naturals and that a non-empty set then has a minimal element
(`NatLessThanWellFounded`, `WFMin`) need no predicate as a parameter.

**Only model-checked.** Liveness (`CallsReturn`, `RetryEnds`), because fairness is out of the
prover's reach. Every safety invariant and action property of the passing runs has a theorem.

## 5. Disagreements found

- **A branch assignment can be lost** (`lost_set`). `RefDict::set` takes no `vost.lock`
  (`src/cpp/src/gitstore.cpp:420`) and `commit_changes` swaps against its own second lookup
  (`src/cpp/src/fs.cpp:407`), so a set by another process between the two lookups is
  overwritten. The comment there says "CAS update: old must be commit_oid_hex_".
- **Redo can go back** (`redo_back`). The scan follows entries of earlier redos too, so
  commit, undo, redo, redo ends where the undo did.
- **A concurrent note is dropped** (`lost_note`). The base tree is read before `vost.lock` is
  taken and never compared again.
- **A second `sync_in` into a directory fails** (`sync_again`). The subtree at `dest` is looked
  up, and `dest` then looked up once more inside it (`src/cpp/src/copy.cpp:308`), which throws
  NotFoundError, or compares with the files of `dest/dest` where that exists. `copy_in` with
  checksums does the same. The tests sync into the root only.

PROJECT.json quotes the text each one disagrees with.

More were met while modelling and are described here without a run:

- **A recursive remove of the root removes nothing.** The empty path passes the checks of
  `remove` as a directory (`src/cpp/src/tree.cpp:90`), and `rebuild_tree` ignores it
  (`src/cpp/src/tree.cpp:428`): a commit of the same tree is made, where `fs.h:189` says "Remove one or
  more paths and commit." In the model too; `RemoveRemovesFiles` leaves the root out.
- **A backup does not notice a refused reference.** The pushes set no `push_update_reference`
  callback (`src/cpp/src/mirror.cpp:632`, `:669`), without which libgit2 reports success although the
  other repository has rejected some of the references. `backup` then returns a difference that
  lists them, where `gitstore.h:114` says "MirrorDiff describing what changed". This rests on
  libgit2, which is not in the repository. In the model it is `RefuseOneRef`, and
  `DiffIsWhatHappens` says what is left of the claim: all else is done.
- **A dry run creates the repository.** `backup` calls `auto_create_bare_repo` before it looks
  at `dry_run` (`src/cpp/src/mirror.cpp:760`, `:794`), as `Call` does in the model. The test "dry-run backup makes no
  changes" (`src/cpp/tests/test_mirror.cpp:112`) makes a real backup first.
- **Two processes can create the same tag.** The lookup and the forced create of
  `RefDict::set` are separate (`src/cpp/src/gitstore.cpp:405`, `:420`); the second one moves the
  tag, where `src/cpp/README.md:120` says "throws KeyExistsError on dup". `TagsNeverMove`
  holds in the run `one_handle` because the threads share a mutex.
- **Directories that become empty stay** (`src/cpp/src/tree.cpp:511`); the Python package
  prunes them (`src/src/vost/tree.py:227`).
- **Restoring from a repository that cannot be reached succeeds.** `get_remote_refs` returns no
  references (`src/cpp/src/mirror.cpp:157`), so `restore` finds everything in sync, where
  `mirror.h` says "@throws GitError on transport failures".
- **`log` with limit 0 returns one entry**, because the limit is tested after an entry is added
  (`src/cpp/src/fs.cpp:1045`); `types.h:323` says "Max entries to return".
- **`sync_out` ignores `dry_run`** (`src/cpp/include/vost/types.h:372` declares it).
- **An incremental bundle is imported without its prerequisites.** `parse_bundle_header` skips
  the lines that name them (`src/cpp/src/mirror.cpp:453`) and `bundle_import_impl` does not look for
  them, so the references it sets may lead to commits that are not there, where
  `git bundle unbundle` refuses. No text of the repository promises a check. `RefsComplete` names
  exactly these commits, and the run `mirror` and `ReferencesComplete` show that nothing else is
  missing and that no transfer passes the gap on.
- **The example for `retry_write` does not count** (`src/cpp/include/vost/vost.h:33`,
  `src/cpp/README.md:495`). Its function writes `std::to_string(++n)` of a captured variable and
  never reads `counter.txt`: `n` is increased again at every retry, so numbers are skipped, and two
  callers overwrite each other's numbers. `NoLostIncrement` holds of a function that reads the
  counter from the branch it gets. The example's comment does not say what the file should hold.
- **`pack` can lose an object**: one whose insertion into the pack fails is skipped
  (`src/cpp/src/gitstore.cpp:238`) and its loose file removed like the others. With
  `InsertsFail = TRUE`, `ObjectsKept` is violated.

A few more behaviours of the code are in the models, without a text that clearly says
otherwise: a commit message that starts with `undo:` is taken for an undo by `redo`
(`src/cpp/src/fs.cpp:905`); the stale check passes when the branch is missing
(`src/cpp/src/fs.cpp:356`), so a write from a snapshot of a deleted branch creates it again
with its history; the nested removes and moves of section 3; a pattern that ends in `**`
matches nothing, and two `**` in one pattern list a file more than once.

## 6. Abstractions and what is not modelled

- **libgit2** is modelled from how the code uses it: a call that reads or writes a reference
  is atomic, because libgit2 holds its per-reference lock file; writing the value that is
  there already logs nothing; deleting a reference deletes its reflog;
  `git_reference_set_target` fails if the reference differs from the one looked up.
- **Commit ids** are indices. A commit equal to a stored one may get the stored one's id
  (equal content within one second) or a new one (`WriteCommit`).
- **Messages** are reduced to the prefixes `redo` tells apart.
- **File content and mode** are one value. Rename's option to override the mode, symbolic links
  (a mode) and sizes have no effect on where files go. Paths are sequences of names, already
  normalized; refused paths and reference names are not enumerated.
- **Lock file.** `with_repo_lock` can also fail to open the lock file, before anything is done;
  this is the same as never calling. The Windows variant uses other system calls in
  the same order. A process death releases the flock.
- **Notes.** Libgit2 failures are modelled in the locked section; before it a failure ends
  the call without a trace, like the delete of a missing note. A hash is known to resolve.
- **In VostFs** one thread commits to a branch of its own; interference is VostStore's subject,
  except for commits made while a batch or a writer is open. A writer whose destructor finds its
  snapshot stale loses its data silently, and one whose batch was committed first too. Closing
  a moved-from writer is outside the model.
- **Copies.** Links to directories and unreadable files are left out. A link to an existing file
  is walked as its target; `copy_out` writes a file through a link in its place, never takes an
  executable bit away, and ignores a directory that is in the place of a file; a file that
  disappears between listing and reading is committed empty. All of these are in the model and
  the first four are conditions of its properties.
- **Mirroring.** A push is atomic in its objects and not in its references. Fetching leaves out what
  local references lead to and pushing what the remote repository stores, a simplification of git's
  negotiation; a fetch that relies on a commit behind a gap makes the gap no larger. That a push or
  export of a history with a gap fails, and that a refused reference does not make a push fail, is
  libgit2's behaviour. A bundle whose pack has deltas against objects it leaves out cannot be indexed,
  which is `Fail`. Two sources mapped to
  one destination, names that conflict as file and directory, squashing in a dry run, and a bundle
  overwritten by another process during an import are outside the instance. Peeled tags are
  commits.
- **Globs.** `disk_glob` is the same algorithm over a directory on disk and has no definition
  of its own; an unterminated character class is not enumerated.
- **`retry_write`.** The function that is retried is external (section 2). The lengths of the sleeps are left out; five retries are the constant
  `max_retries`.
- **Not modelled**: `ExcludeFilter`, a pure pattern matcher that no operation of the library
  calls; the queries of `RefDict` (`keys`, `values`, `contains`, `current`, `reflog`) and
  `set_current`, which sets the symbolic HEAD that no other operation depends on;
  option and value types; URL checks, transport and credentials of mirroring, which are I/O;
  the programs under `src/interop` and the third-party `json.hpp` they include, which is three
  quarters of all C++ lines; and the other languages' packages.

## 7. Plan

Done, in this order, the most important behaviour first: VostStore with its lock protocol
and history; SnapshotStore and the refinement; VostStoreProofs; VostTree and VostFs;
VostNotes; VostCopy; VostPack and its proofs; VostMirror; VostRetry; the writers and readers
(VostFs, VostRead); VostLog.

The project is kept to a dozen runs; a disagreement without a run is described in section 5.

The proofs were made in this order: VostStoreProofs, VostNotesProofs, VostRetryProofs,
VostMirrorProofs (with packing), VostTreeProofs, VostFsProofs, VostCopyProofs.

What is left: the liveness properties, which stay with TLC, and the parts that section 6 lists as not
modelled.
