------------------------------- MODULE VostLog --------------------------------
(***************************************************************************)
(* Fs::log: the first-parent history of a snapshot, filtered and paged.    *)
(* Commit ids are in the order of their times.                             *)
(***************************************************************************)
EXTENDS VostStore

(* LogOptions is a record of those options that are given.                 *)
LogAll == [option \in {} |-> 0]

(* Mistaken: the first commit is taken to change nothing.                  *)
MatchesNotFirst(opts, c) ==
    /\ "before" \in DOMAIN opts => c <= opts.before
    /\ "match" \in DOMAIN opts => commits[c].msg = opts.match
    /\ "path" \in DOMAIN opts => /\ FirstParent(c) # None
                            /\ TreeOf(c)[opts.path] # TreeOf(FirstParent(c))[opts.path]

(* The filters, all of which must let the commit pass.  The path filter    *)
(* compares with the first parent, a commit without one with nothing.      *)
Matches(opts, c) ==
    /\ "before" \in DOMAIN opts => c <= opts.before
    /\ "match" \in DOMAIN opts => commits[c].msg = opts.match
    /\ "path" \in DOMAIN opts => TreeOf(c)[opts.path] # TreeOf(FirstParent(c))[opts.path]

(* Mistaken: commits that the filters reject count as skipped.             *)
LogRoundSkipsAny(opts, s) ==
    LET next == FirstParent(s.cur)
        found == Append(s.found, s.cur)
    IN IF "skip" \in DOMAIN opts /\ s.skipped < opts.skip
       THEN [s EXCEPT !.cur = next, !.skipped = @ + 1]
       ELSE IF ~Matches(opts, s.cur) THEN [s EXCEPT !.cur = next]
       ELSE [s EXCEPT !.found = found,
                      !.cur = IF "limit" \in DOMAIN opts /\ Len(found) >= opts.limit
                              THEN None ELSE next]

(* One round of the loop; break leaves cur at None.                        *)
LogRound(opts, s) ==
    LET next == FirstParent(s.cur)
        found == Append(s.found, s.cur)
    IN IF ~Matches(opts, s.cur) THEN [s EXCEPT !.cur = next]
       ELSE IF "skip" \in DOMAIN opts /\ s.skipped < opts.skip
            THEN [s EXCEPT !.cur = next, !.skipped = @ + 1]
       ELSE [s EXCEPT !.found = found,
                      !.cur = IF "limit" \in DOMAIN opts /\ Len(found) >= opts.limit
                              THEN None ELSE next]

(* A first parent is older than its child, so Len(commits) rounds do.      *)
Log(opts, c) ==
    LET loop[i \in 0 .. Len(commits)] ==
          IF i = 0 THEN [cur |-> c, skipped |-> 0, found |-> <<>>]
          ELSE LET s == loop[i-1] IN IF s.cur = None THEN s ELSE LogRound(opts, s)
    IN loop[Len(commits)].found

-----------------------------------------------------------------------------
(* The commits whose log a thread can ask for now.                         *)
Logged == {fs[t].commit : t \in {t \in Thread : pc[t] = "idle"}} \ {None}

(* The log of a path explains its content: whatever merges, squashes and   *)
(* undos made the history, the newest commit in the log of a path has the  *)
(* content the path has in the snapshot, and a path with no entry in its   *)
(* log is not there.                                                       *)
LogExplainsPath ==
    \A c \in Logged, p \in Path :
        LET log == Log([path |-> p], c)
        IN TreeOf(c)[p] = IF log = <<>> THEN NoData ELSE TreeOf(log[1])[p]

(* The options that ask for one page, n entries after the first k.         *)
PageOf(opts, k, n) ==
    [option \in DOMAIN opts \cup {"skip", "limit"} |->
        CASE option = "skip" -> k [] option = "limit" -> n [] OTHER -> opts[option]]

(* Reading a log page by page gives the log: skip and limit count the      *)
(* commits that the other filters let pass.                                *)
LogPagesAddUp ==
    \A c \in Logged :
        \A opts \in {LogAll, [match |-> "user"], [before |-> c - 1]}
                    \cup {[path |-> p] : p \in Path} :
            LET whole == Log(opts, c)
                page(k, n) == Log(PageOf(opts, k, n), c)
                upto(k) == IF k < Len(whole) THEN k ELSE Len(whole)
            IN \A k \in 0 .. Len(whole), n \in 1 .. 2 :
                  page(k, n) = SubSeq(whole, k + 1, upto(k + n))
=============================================================================
