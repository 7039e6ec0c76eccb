----------------------------- MODULE VostMirror ------------------------------
(***************************************************************************)
(* Backup to and restore from another repository or a bundle file          *)
(* (mirror.cpp), reference by reference, while other processes commit to   *)
(* both repositories and the call may fail or its process die anywhere.    *)
(*                                                                         *)
(* A reference name is a sequence: "heads", "tags" or "notes", then the    *)
(* segments of the name.  The references of a repository are a function    *)
(* from the names that exist to commits.  A commit is its index.           *)
(***************************************************************************)
EXTENDS VostPack, Sequences, SequencesExt

CONSTANTS
    Ref,          \* full reference names that writers use
    Requests,     \* what backup and restore are asked for: [names, map]
    Kinds,        \* "repo" and "bundle": where to or from
    Ops,          \* "backup", "restore", "export", "import", "pack"
    Own,          \* the handle, a Packer, that the calls are made on
    MaxOps        \* bound: number of calls, commits and deletions

Side == {"local", "remote"}

(* A full name: a namespace and at least one segment.                      *)
IsRefName(r) == r \in Seq(STRING) /\ Len(r) > 1

(* A name as users write it: whole, or without its namespace.              *)
IsName(n) ==
    /\ n.full \in BOOLEAN /\ n.path \in Seq(STRING) \ {<<>>}
    /\ n.full => IsRefName(n.path)

ASSUME MirrorAssumption ==
    /\ \A r \in Ref : IsRefName(r) /\ r[1] \in {"heads", "tags", "notes"}
    /\ \A q \in Requests :
          /\ \A n \in q.names : IsName(n)
          /\ \A n \in DOMAIN q.map : IsName(n) /\ IsName(q.map[n])
    /\ Kinds \subseteq {"repo", "bundle"}
    /\ Ops \subseteq {"backup", "restore", "export", "import", "pack"}
    /\ Own \in Packer /\ Object = 1 .. Cardinality(Object)
    /\ MaxOps \in Nat

VARIABLES
    parent,     \* the parent of each commit, 0 for none
    remoteOdb,  \* the commits the remote repository stores
    refs,       \* the references of each repository
    exists,     \* the remote repository has been created
    bundle,     \* the bundle file
    call,       \* the call under way or, at pc "idle", the last one
    nops,
    gaps        \* for the properties: commits that an imported bundle built
                \* on and that were not stored here

storeVars == <<packVars, parent, remoteOdb, gaps>>
repoVars == <<storeVars, refs, exists, bundle>>
vars == <<repoVars, call, nops>>

NoRefs == <<>>      \* the function without arguments

NoDiff == [add |-> {}, update |-> {}, del |-> {}]

NoCall ==
    [pc |-> "idle", op |-> "none", kind |-> "repo", dry_run |-> FALSE, squash |-> FALSE,
     request |-> [names |-> {}, map |-> NoRefs],
     views |-> NoRefs,                      \* the references listed so far
     diff |-> NoDiff,                       \* the MirrorDiff
     tips |-> NoRefs, deletes |-> {},       \* reference updates still to do
     outcome |-> "none",
     \* for the properties: the references at the start; nobody has
     \* interfered; the remote's references could be listed; the updates and
     \* deletions that the remote has refused
     before |-> [s \in Side \cup {"bundle"} |-> NoRefs], quiet |-> TRUE, reached |-> TRUE,
     refused |-> {}]

(* The bundle file: whether it is cut off, the references of its header,   *)
(* the commits of its pack, and those that its prerequisites stand for.    *)
NoBundle == [state |-> "none", refs |-> NoRefs, objects |-> {}, needs |-> {}]

Init ==
    /\ parent = <<>>
    /\ PackInit
    /\ remoteOdb = {}
    /\ refs = [s \in Side |-> NoRefs]
    /\ exists \in BOOLEAN
    /\ bundle = NoBundle
    /\ call = NoCall
    /\ nops = 0
    /\ gaps = {}

(* A commit and its ancestors.                                             *)
Ancestry(c) ==
    LET up[n \in 0 .. Len(parent)] == IF n = 0 THEN {} ELSE {n} \cup up[parent[n]]
    IN up[c]

Objects(tips) == UNION {Ancestry(tips[r]) : r \in DOMAIN tips}

Stored(side) == IF side = "local" THEN Readable ELSE remoteOdb

(* Mistaken: a deleted reference is set to the zero id.                    *)
SetToZero(f, r) == [f EXCEPT ![r] = 0]

Without(f, r) == [q \in DOMAIN f \ {r} |-> f[q]]

With(f, r, x) == [q \in DOMAIN f \cup {r} |-> IF q = r THEN x ELSE f[q]]

RefsAt(place) == IF place = "bundle" THEN bundle.refs ELSE refs[place]

-----------------------------------------------------------------------------
(* Names as users write them, short or full.                               *)

(* resolve_one_ref                                                         *)
ResolveOneRef(name, available) ==
    LET found(ns) == <<ns>> \o name.path \in DOMAIN available
    IN IF name.full THEN name.path
       ELSE CASE found("heads") -> <<"heads">> \o name.path
              [] found("tags") -> <<"tags">> \o name.path
              [] found("notes") -> <<"notes">> \o name.path
              [] OTHER -> <<"heads">> \o name.path

(* resolve_ref_map: a short destination gets everything up to the last     *)
(* slash of the source's full name.                                        *)
Destination(src, name) ==
    IF name.full THEN name.path ELSE Front(src) \o name.path

(* The references a request selects among those available, each with its   *)
(* name at the destination.  The map takes precedence over the names;      *)
(* neither means all.                                                      *)
Selected(request, available) ==
    IF DOMAIN request.map # {}
    THEN LET sources == {ResolveOneRef(n, available) : n \in DOMAIN request.map}
             key(src) == CHOOSE n \in DOMAIN request.map : ResolveOneRef(n, available) = src
         IN [src \in sources \cap DOMAIN available |-> Destination(src, request.map[key(src)])]
    ELSE LET sources == IF request.names = {} THEN DOMAIN available
                        ELSE {ResolveOneRef(n, available) : n \in request.names}
         IN [src \in sources \cap DOMAIN available |-> src]

IsMirror(request) == request.names = {} /\ DOMAIN request.map = {}

(* References under the names they are to have at the destination.         *)
Carried(selected, available) ==
    [dst \in {selected[src] : src \in DOMAIN selected} |->
        available[CHOOSE src \in DOMAIN selected : selected[src] = dst]]

Renamed(request, available) ==
    Carried(Selected(request, available), available)

DiffRefs(src, dest) ==
    [add |-> DOMAIN src \ DOMAIN dest,
     update |-> {r \in DOMAIN src \cap DOMAIN dest : src[r] # dest[r]},
     del |-> DOMAIN dest \ DOMAIN src]

InSync(diff) == diff = NoDiff

-----------------------------------------------------------------------------
Start == nops < MaxOps /\ nops' = nops + 1

Sends(op) == op \in {"backup", "export"}

(* The listings a call makes; "again" is a second one of the local         *)
(* references, for the diff of a backup to a bundle.                       *)
Views(c) ==
    CASE c.op = "export" -> {"local"}
      [] c.op = "import" -> {"remote"}
      [] c.op = "backup" /\ c.kind = "bundle" -> {"local", "again"}
      [] OTHER -> Side

(* The mutex of the handle is held throughout, vost.lock never is.  A      *)
(* backup makes the repository, even in a dry run.                         *)
Free == call.pc = "idle" /\ packing[Own].pc = "idle"

Call(op, kind, request, dry_run, squash) ==
    /\ op \in Ops \ {"pack"} /\ kind \in Kinds
    /\ op \in {"export", "import"} => kind = "bundle" /\ ~dry_run
    /\ squash => Sends(op) /\ kind = "bundle" /\ ~dry_run
    /\ Free /\ Start
    /\ call' = [NoCall EXCEPT !.pc = "list", !.op = op, !.kind = kind, !.request = request,
                              !.dry_run = dry_run, !.squash = squash,
                              !.before = [p \in Side \cup {"bundle"} |-> RefsAt(p)]]
    /\ exists' = (exists \/ (op = "backup" /\ kind = "repo"))
    /\ UNCHANGED <<storeVars, refs, bundle>>

(* What a call that has returned or failed leaves for the properties.      *)
Returned(c) == [c EXCEPT !.pc = "idle", !.outcome = "ok", !.views = NoRefs]
Failed == [NoCall EXCEPT !.outcome = "error"]

Listed(view, available) == call' = [call EXCEPT !.views = With(@, view, available)]

ListLocal ==
    /\ call.pc = "list"
    /\ \E view \in (Views(call) \cap {"local", "again"}) \ DOMAIN call.views :
          Listed(view, refs["local"])
    /\ UNCHANGED <<repoVars, nops>>

(* get_remote_refs, or bundle_list_heads and parse_bundle_header.  A bundle*)
(* that is missing or cut off in its header is refused.                    *)
ListRemote ==
    /\ call.pc = "list" /\ "remote" \in Views(call) \ DOMAIN call.views
    /\ IF call.kind = "repo" THEN exists /\ Listed("remote", refs["remote"])
       ELSE IF bundle.state \in {"none", "header"} THEN call' = Failed
       ELSE Listed("remote", bundle.refs)
    /\ UNCHANGED <<repoVars, nops>>

(* A repository that is not there, or cannot be reached, counts as one     *)
(* without references.                                                     *)
ListRemoteFails ==
    /\ call.pc = "list" /\ "remote" \in Views(call) \ DOMAIN call.views
    /\ call.kind = "repo"
    /\ call' = [call EXCEPT !.views = With(@, "remote", NoRefs), !.reached = FALSE]
    /\ UNCHANGED <<repoVars, nops>>

(* Mistaken: restoring reports the references it does not have as deleted. *)
DiffOfMirror(c) ==
    CASE c.op \in {"export", "import"} -> NoDiff
      [] c.op = "backup" /\ c.kind = "bundle" ->
           [NoDiff EXCEPT !.add = DOMAIN Renamed(c.request, c.views["again"])]
      [] c.op = "backup" /\ c.kind = "repo" ->
           DiffRefs(Renamed(c.request, c.views["local"]), c.views["remote"])
      [] OTHER ->
           DiffRefs(Renamed(c.request, c.views["remote"]), c.views["local"])

(* The diff.  Only a full mirror to a repository deletes.  A map is        *)
(* resolved with the first listing.                                        *)
DiffOf(c) ==
    CASE c.op \in {"export", "import"} -> NoDiff
      [] c.op = "backup" /\ c.kind = "bundle" ->
           LET view == IF DOMAIN c.request.map = {} THEN "again" ELSE "local"
               selected == Selected(c.request, c.views[view])
           IN [NoDiff EXCEPT !.add = {selected[src] :
                                        src \in DOMAIN selected \cap DOMAIN c.views["again"]}]
      [] c.op = "backup" /\ c.kind = "repo" ->
           LET diff == DiffRefs(Renamed(c.request, c.views["local"]), c.views["remote"])
           IN IF IsMirror(c.request) THEN diff ELSE [diff EXCEPT !.del = {}]
      [] OTHER ->
           [DiffRefs(Renamed(c.request, c.views["remote"]), c.views["local"]) EXCEPT !.del = {}]

Compare ==
    LET diff == DiffOf(call)
        c == [call EXCEPT !.diff = diff]
        compares == call.op = "restore" \/ (call.op = "backup" /\ call.kind = "repo")
    IN /\ call.pc = "list" /\ DOMAIN call.views = Views(call)
       /\ call' = IF call.dry_run \/ (compares /\ InSync(diff)) THEN Returned(c)
                  ELSE [c EXCEPT !.pc = "transfer"]
       /\ UNCHANGED <<repoVars, nops>>

-----------------------------------------------------------------------------
(* Mistaken: every push is a mirror's and deletes.                         *)
PushAndDelete ==
    LET selected == Selected(call.request, call.views["local"])
        tips == Carried(selected, refs["local"])
    IN /\ call.pc = "transfer" /\ call.op = "backup" /\ call.kind = "repo"
       /\ DOMAIN selected \subseteq DOMAIN refs["local"]
       /\ Objects(tips) \subseteq Readable \cup remoteOdb
       /\ remoteOdb' = remoteOdb \cup Objects(tips)
       /\ call' = [call EXCEPT !.pc = "update", !.tips = tips,
                               !.deletes = DOMAIN call.views["remote"] \ DOMAIN tips]
       /\ UNCHANGED <<packVars, parent, gaps, refs, exists, bundle, nops>>

(* mirror_push and targeted_push: the listing says which references, their *)
(* values are those of the moment.  The objects go first; a history that   *)
(* lacks a commit which the remote lacks too cannot be walked.             *)
Push ==
    LET selected == Selected(call.request, call.views["local"])
        tips == Carried(selected, refs["local"])
    IN /\ call.pc = "transfer" /\ call.op = "backup" /\ call.kind = "repo"
       /\ DOMAIN selected \subseteq DOMAIN refs["local"]
       /\ Objects(tips) \subseteq Readable \cup remoteOdb
       /\ remoteOdb' = remoteOdb \cup Objects(tips)
       /\ call' = [call EXCEPT !.pc = "update", !.tips = tips,
                               !.deletes = IF IsMirror(call.request)
                                           THEN DOMAIN call.views["remote"] \ DOMAIN tips
                                           ELSE {}]
       /\ UNCHANGED <<packVars, parent, gaps, refs, exists, bundle, nops>>

(* additive_fetch: a reference that has disappeared is skipped.  What local*)
(* references lead to is not sent again.                                   *)
Fetch ==
    LET selected == Selected(call.request, call.views["remote"])
        tips == Carried(Restrict(selected, DOMAIN selected \cap DOMAIN refs["remote"]),
                        refs["remote"])
    IN /\ call.pc = "transfer" /\ call.op = "restore" /\ call.kind = "repo"
       /\ StorePack(Objects(tips) \ Objects(refs["local"]))
       /\ call' = [call EXCEPT !.pc = "update", !.tips = tips]
       /\ UNCHANGED <<parent, remoteOdb, gaps, refs, exists, bundle, nops>>

(* bundle_import_impl: the pack is indexed, which fails if it is cut off.  *)
(* Prerequisites are skipped with the header: whether they are stored here *)
(* is not asked.                                                           *)
ImportBundle ==
    LET tips == Renamed(call.request, bundle.refs)
    IN /\ call.pc = "transfer" /\ call.kind = "bundle" /\ ~Sends(call.op)
       /\ IF DOMAIN tips = {} THEN call' = Returned(call) /\ UNCHANGED <<packVars, gaps>>
          ELSE IF bundle.state # "whole" THEN call' = Failed /\ UNCHANGED <<packVars, gaps>>
          ELSE /\ StorePack(bundle.objects)
               /\ gaps' = gaps \cup (bundle.needs \ Readable)
               /\ call' = [call EXCEPT !.pc = "update", !.tips = tips]
       /\ UNCHANGED <<parent, remoteOdb, refs, exists, bundle, nops>>

(* References are updated one by one, on the remote or local side, by      *)
(* force.  One to a commit that is not stored cannot be made.              *)
Target == IF Sends(call.op) THEN "remote" ELSE "local"

UpdateOneRef ==
    /\ call.pc = "update"
    /\ \E r \in DOMAIN call.tips :
          /\ call.tips[r] \in Stored(Target)
          /\ refs' = [refs EXCEPT ![Target] = With(@, r, call.tips[r])]
          /\ call' = [call EXCEPT !.tips = Without(@, r)]
    /\ UNCHANGED <<storeVars, exists, bundle, nops>>

DeleteOneRef ==
    /\ call.pc = "update"
    /\ \E r \in call.deletes :
          /\ refs' = [refs EXCEPT ![Target] = Without(@, r)]
          /\ call' = [call EXCEPT !.deletes = @ \ {r}]
    /\ UNCHANGED <<storeVars, exists, bundle, nops>>

(* The other repository may refuse an update or a deletion, because of a   *)
(* hook, a setting or a name in its way.  The push sets no callback for    *)
(* that (push_update_reference), goes on with the others and succeeds.     *)
RefuseOneRef ==
    /\ call.pc = "update" /\ Target = "remote"
    /\ \E r \in DOMAIN call.tips \cup call.deletes :
          call' = [call EXCEPT !.tips = Without(@, r), !.deletes = @ \ {r},
                               !.refused = @ \cup {r}]
    /\ UNCHANGED <<repoVars, nops>>

Return ==
    /\ call.pc = "update" /\ DOMAIN call.tips = {} /\ call.deletes = {}
    /\ call' = Returned(call)
    /\ UNCHANGED <<repoVars, nops>>

-----------------------------------------------------------------------------
(* bundle_export_impl.  Squashing makes a commit without parents of every  *)
(* reference's tree.  A history that lacks a commit cannot be walked.  The *)
(* old file is cut to nothing before the header and the pack are written.  *)
ExportBundle ==
    LET tips == Renamed(call.request, call.views["local"])
        names == SetToSeq(DOMAIN tips)
        squashed == [r \in DOMAIN tips |->
                       Len(parent) + (CHOOSE i \in DOMAIN names : names[i] = r)]
        new == IF call.squash THEN {squashed[r] : r \in DOMAIN tips} ELSE {}
    IN /\ call.pc = "transfer" /\ call.kind = "bundle" /\ Sends(call.op)
       /\ IF DOMAIN tips = {} \/ ~(call.squash \/ Objects(tips) \subseteq Readable)
          THEN call' = Failed /\ UNCHANGED <<storeVars, bundle>>
          ELSE /\ new \subseteq Object
               /\ parent' = parent \o [i \in 1 .. Cardinality(new) |-> 0]
               /\ StoreLoose(new)
               /\ bundle' = [NoBundle EXCEPT !.state = "header"]
               /\ call' = [call EXCEPT !.pc = "export",
                                       !.tips = IF call.squash THEN squashed ELSE tips]
               /\ UNCHANGED <<remoteOdb, gaps>>
       /\ UNCHANGED <<refs, exists, nops>>

(* Mistaken: only the commits themselves are packed, not their ancestors.  *)
PackedCommits(tips) == {tips[r] : r \in DOMAIN tips}

(* git_packbuilder_insert_walk: commits with their ancestors.              *)
PackedHistory(tips) == Objects(tips)

WriteHeader ==
    /\ call.pc = "export" /\ bundle.state = "header"
    /\ bundle' = [bundle EXCEPT !.state = "pack", !.refs = call.tips]
    /\ UNCHANGED <<storeVars, refs, exists, call, nops>>

WriteBundlePack ==
    /\ call.pc = "export" /\ bundle.state = "pack"
    /\ bundle' = [bundle EXCEPT !.state = "whole", !.objects = PackedHistory(call.tips)]
    /\ call' = Returned([call EXCEPT !.tips = NoRefs])
    /\ UNCHANGED <<storeVars, refs, exists, nops>>

(* A libgit2 call or a write fails, or the process dies, at any point.     *)
Fail ==
    /\ call.pc # "idle"
    /\ call' = Failed
    /\ UNCHANGED <<repoVars, nops>>

-----------------------------------------------------------------------------
(* pack() on the same handle, which shares its mutex, or elsewhere.        *)
Pack(p) ==
    /\ "pack" \in Ops /\ Start
    /\ p = Own => Free
    /\ CollectOids(p)
    /\ UNCHANGED <<parent, remoteOdb, gaps, refs, exists, bundle, call>>

PackOn(p) ==
    /\ PackStep(p)
    /\ UNCHANGED <<parent, remoteOdb, gaps, refs, exists, bundle, call, nops>>

(* Other processes.                                                        *)
Disturb == call' = IF call.pc = "idle" THEN NoCall ELSE [call EXCEPT !.quiet = FALSE]

OtherCommit(side, r) ==
    LET new == Len(parent) + 1
        old == IF r \in DOMAIN refs[side] THEN refs[side][r] ELSE 0
    IN /\ Start /\ new \in Object
       /\ side = "remote" => exists
       /\ parent' = Append(parent, old)
       /\ IF side = "local" THEN StoreLoose({new}) /\ UNCHANGED remoteOdb
          ELSE remoteOdb' = remoteOdb \cup {new} /\ UNCHANGED packVars
       /\ refs' = [refs EXCEPT ![side] = With(@, r, new)]
       /\ Disturb
       /\ UNCHANGED <<gaps, exists, bundle>>

OtherDelete(side, r) ==
    /\ Start
    /\ r \in DOMAIN refs[side]
    /\ refs' = [refs EXCEPT ![side] = Without(@, r)]
    /\ Disturb
    /\ UNCHANGED <<storeVars, exists, bundle>>

(* A bundle made at the remote repository: by bundle_export, or by git as  *)
(* an incremental one that leaves out a commit, what came before it, and   *)
(* the references there.                                                   *)
OtherExport(base) ==
    LET known == Ancestry(base)
        tips == Restrict(refs["remote"], {r \in DOMAIN refs["remote"] :
                                            refs["remote"][r] \notin known})
    IN /\ Start /\ call.pc = "idle" /\ DOMAIN tips # {}
       /\ bundle' = [state |-> "whole", refs |-> tips,
                     objects |-> PackedHistory(tips) \ known, needs |-> Objects(tips) \cap known]
       /\ call' = NoCall
       /\ UNCHANGED <<storeVars, refs, exists>>

(* An incremental bundle made elsewhere: a commit on one that neither      *)
(* repository has.                                                         *)
ForeignBundle(r) ==
    LET old == Len(parent) + 1
        new == Len(parent) + 2
    IN /\ Start /\ call.pc = "idle" /\ new \in Object
       /\ parent' = parent \o <<0, old>>
       /\ bundle' = [state |-> "whole", refs |-> With(NoRefs, r, new),
                     objects |-> {new}, needs |-> {old}]
       /\ call' = NoCall
       /\ UNCHANGED <<packVars, remoteOdb, gaps, refs, exists>>

-----------------------------------------------------------------------------
Next ==
    \/ \E op \in Ops, k \in Kinds, q \in Requests, d, s \in BOOLEAN : Call(op, k, q, d, s)
    \/ ListLocal
    \/ ListRemote
    \/ ListRemoteFails
    \/ Compare
    \/ Push
    \/ Fetch
    \/ ImportBundle
    \/ UpdateOneRef
    \/ DeleteOneRef
    \/ RefuseOneRef
    \/ Return
    \/ ExportBundle
    \/ WriteHeader
    \/ WriteBundlePack
    \/ Fail
    \/ \E p \in Packer : Pack(p) \/ PackOn(p)
    \/ \E s \in Side, r \in Ref : OtherCommit(s, r) \/ OtherDelete(s, r)
    \/ \E base \in {0} \cup remoteOdb : OtherExport(base)
    \/ \E r \in Ref : ForeignBundle(r)
    \/ nops = MaxOps /\ call.pc = "idle" /\ UNCHANGED vars

Spec == Init /\ [][Next]_vars

-----------------------------------------------------------------------------
(* Type invariant.                                                         *)
TypeOK ==
    /\ PackTypeOK
    /\ \A c \in DOMAIN parent : c \in Object /\ parent[c] \in 0 .. c - 1
    /\ Readable \cup remoteOdb \cup bundle.objects \cup bundle.needs \cup gaps
          \subseteq DOMAIN parent
    /\ \A s \in Side : {refs[s][r] : r \in DOMAIN refs[s]} \subseteq DOMAIN parent
    /\ bundle.state \in {"none", "header", "pack", "whole"}
    /\ call.pc \in {"idle", "list", "transfer", "update", "export"}
    /\ exists \in BOOLEAN /\ nops \in 0 .. MaxOps

(* Wherever a transfer is interrupted, every reference of either           *)
(* repository names a commit that is stored there with its whole history:  *)
(* objects go before references, a bundle that was cut off is refused, and *)
(* pack() may run at any time.  There is one exception, and it does not    *)
(* spread to the other repository: the import of an incremental bundle     *)
(* does not ask for its prerequisites, so what lay behind those that were  *)
(* not here may be missing.                                                *)
RefsComplete ==
    \A s \in Side : \A r \in DOMAIN refs[s] :
        /\ refs[s][r] \in Stored(s)
        /\ Ancestry(refs[s][r]) \subseteq Stored(s) \cup (IF s = "local" THEN gaps ELSE {})

(* Where references come from and go to.                                   *)
From == IF Sends(call.op) THEN "local" ELSE IF call.kind = "bundle" THEN "bundle" ELSE "remote"
To == IF ~Sends(call.op) THEN "local" ELSE IF call.kind = "bundle" THEN "bundle" ELSE "remote"

Quiet == call.op # "none" /\ call.quiet /\ call.reached

(* What the destination's references are to become.                        *)
AskedFor ==
    LET new == Renamed(call.request, call.before[From])
        old == call.before[To]
    IN IF To = "bundle" \/ (call.op = "backup" /\ IsMirror(call.request)) THEN new
       ELSE [r \in DOMAIN new \cup DOMAIN old |-> IF r \in DOMAIN new THEN new[r] ELSE old[r]]

Tip(f, r) == IF r \in DOMAIN f THEN f[r] ELSE 0

(* The request's map names the destination r with its namespace.           *)
NamedInFull(request, r) ==
    \E n \in DOMAIN request.map : request.map[n].full /\ request.map[n].path = r

(* A transfer between repositories that nobody disturbs, finished or not,  *)
(* has so far moved or deleted only references it was asked to; one that   *)
(* has moved is now where a reference of the source was, one of the same   *)
(* kind, branch, tag or notes, unless the request names the destination in *)
(* full.  The source is not touched.                                       *)
OnlyAskedMoves ==
    LET now == refs[To]
        old == call.before[To]
    IN Quiet /\ To # "bundle" =>
         /\ From # "bundle" => refs[From] = call.before[From]
         /\ \A r \in DOMAIN now \cup DOMAIN old : Tip(now, r) # Tip(old, r) =>
               /\ Tip(now, r) = Tip(AskedFor, r)
               /\ Tip(now, r) # 0 => \E src \in DOMAIN call.before[From] :
                     /\ call.before[From][src] = now[r]
                     /\ src[1] = r[1] \/ NamedInFull(call.request, r)

(* The references asked, except that the refused ones are as in old.       *)
Granted(asked, old, refused) ==
    [r \in (DOMAIN asked \ refused) \cup (DOMAIN old \cap refused) |->
        IF r \in refused THEN old[r] ELSE asked[r]]

(* When it returns, all of it is done but for the updates and deletions    *)
(* that the other repository refused, and these are as they were.  The     *)
(* diff it returns is what was asked for, refused or not.  A dry run       *)
(* returns the same diff and moves no reference.  A squashed bundle has the*)
(* same references, without history.                                       *)
DiffIsWhatHappens ==
    LET now == RefsAt(To)
        old == call.before[To]
    IN Quiet /\ call.pc = "idle" /\ call.outcome = "ok" =>
         /\ IF call.dry_run THEN now = old
            ELSE IF call.squash THEN /\ DOMAIN now = DOMAIN AskedFor
                                     /\ \A r \in DOMAIN now : parent[now[r]] = 0
            ELSE now = Granted(AskedFor, old, call.refused)
         /\ call.refused # {} => call.op = "backup" /\ To = "remote"
         /\ To # "bundle" /\ call.op # "import" => call.diff = DiffRefs(AskedFor, old)
=============================================================================
