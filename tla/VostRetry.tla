------------------------------ MODULE VostRetry -------------------------------
(***************************************************************************)
(* retry_write (vost.h) around the reference updates of VostStore.  The    *)
(* function it is given is its caller's: here one that gets the branch     *)
(* anew, reads a counter from it, adds one and writes it back, the use of  *)
(* retry_write that depends most on a stale snapshot being refused.  Other *)
(* threads meanwhile undo, set and delete another branch.                  *)
(***************************************************************************)
EXTENDS VostStore, FiniteSetsExt

CONSTANTS
    Retrier,       \* the threads that call retry_write
    Counter,       \* the path of the counter
    Text,          \* the text of each number, from 1
    max_retries,   \* calls after the first, 5 in the code
    MaxWrites      \* bound: number of retry_writes a thread makes

(* The change that writes a text to the counter.                           *)
CounterTo(text) == [p \in {Counter} |-> text]

ASSUME RetryAssumption ==
    /\ Retrier \subseteq Thread /\ IsFiniteSet(Retrier)
    /\ Path = {Counter} /\ NoData \notin Data
    /\ Text \in Seq(Data) /\ \A m, n \in DOMAIN Text : Text[m] = Text[n] => m = n
    /\ \A t \in Retrier, n \in DOMAIN Text : CounterTo(Text[n]) \in Changes[t]
    /\ "user" \in Message
    /\ max_retries \in Nat /\ MaxWrites \in Nat /\ MaxCalls <= Len(Text) /\ 1 <= MaxBack

VARIABLES
    retry,   \* per thread, its retry_write: [phase, attempt, since]
    done     \* per thread, the number of retry_writes begun and returned

retryVars == <<vars, retry, done>>

NotRetrying == [phase |-> "none", attempt |-> 0, since |-> 0]

RetryInit ==
    /\ Init
    /\ retry = [t \in Retrier |-> NotRetrying]
    /\ done = [t \in Retrier |-> [begun |-> 0, ok |-> 0]]

(* Calls that the loops under way may still make.                          *)
Reserved ==
    MapThenSumSet(LAMBDA t : IF retry[t].phase = "none" THEN 0
                             ELSE max_retries + 1 - retry[t].attempt, Retrier)

BeginRetry(t) ==
    /\ retry[t].phase = "none" /\ pc[t] = "idle"
    /\ done[t].begun < MaxWrites /\ ncalls + Reserved + max_retries < MaxCalls
    /\ retry' = [retry EXCEPT ![t] = [phase |-> "get", attempt |-> 0,
                                      since |-> Len(reflog[InitBranch])]]
    /\ done' = [done EXCEPT ![t].begun = @ + 1]
    /\ UNCHANGED vars

EndRetry(t) == retry' = [retry EXCEPT ![t] = NotRetrying]

(* The caller's function: the branch is read, then the counter from that   *)
(* snapshot, and the next number is written.                               *)
GetBranch(t) ==
    /\ retry[t].phase = "get"
    /\ RefDictGet(t, InitBranch)
    /\ IF refs[InitBranch] = None THEN EndRetry(t)
       ELSE retry' = [retry EXCEPT ![t].phase = "write"]
    /\ UNCHANGED done

Value(commit) ==
    LET text == TreeOf(commit)[Counter]
    IN IF text = NoData THEN 0 ELSE CHOOSE n \in DOMAIN Text : Text[n] = text

WriteFile(t) ==
    LET next == Text[Value(fs[t].commit) + 1]
    IN /\ retry[t].phase = "write"
       /\ CommitChanges(t, CounterTo(next), "user", <<>>)
       /\ retry' = [retry EXCEPT ![t].phase = "call"]
       /\ UNCHANGED done

(* f has returned or thrown: only a stale snapshot is tried again.         *)
Returns(t) ==
    /\ retry[t].phase = "call" /\ pc[t] = "idle"
    /\ \/ /\ res[t] = "stale" /\ retry[t].attempt < max_retries
          /\ retry' = [retry EXCEPT ![t].phase = "sleep"]
          /\ UNCHANGED done
       \/ /\ res[t] = "ok"
          /\ EndRetry(t)
          /\ done' = [done EXCEPT ![t].ok = @ + 1]
       \/ /\ res[t] # "ok" /\ (res[t] = "stale" => retry[t].attempt >= max_retries)
          /\ EndRetry(t)
          /\ UNCHANGED done
    /\ UNCHANGED vars

(* Mistaken: the function is called again with the snapshot it had.        *)
WakesWithSnapshot(t) ==
    /\ retry[t].phase = "sleep"
    /\ retry' = [retry EXCEPT ![t].phase = "write", ![t].attempt = @ + 1]
    /\ UNCHANGED <<vars, done>>

Wakes(t) ==
    /\ retry[t].phase = "sleep"
    /\ retry' = [retry EXCEPT ![t].phase = "get", ![t].attempt = @ + 1]
    /\ UNCHANGED <<vars, done>>

RetryStep(t) == GetBranch(t) \/ WriteFile(t) \/ Returns(t) \/ Wakes(t)

(* Threads that do not retry keep to other references.                     *)
Others(t) ==
    /\ ncalls + Reserved < MaxCalls
    /\ \/ \E c \in CommitId : FsOfHash(t, c)
       \/ \E r \in Ref \ {InitBranch} : RefDictGet(t, r) \/ RefDictSet(t, r) \/ RefDictDel(t, r)
       \/ Undo(t, 1)
    /\ UNCHANGED <<retry, done>>

RetryCrash(h) ==
    /\ ncalls + Reserved < MaxCalls
    /\ Crash(h)
    /\ retry' = [t \in Retrier |-> IF HandleOf[t] = h THEN NotRetrying ELSE retry[t]]
    /\ UNCHANGED done

RetryNext ==
    \/ \E t \in Retrier : BeginRetry(t) \/ RetryStep(t)
    \/ \E t \in Thread \ Retrier : Others(t)
    \/ \E t \in Thread : (Proceed(t) \/ GitFailure(t)) /\ UNCHANGED <<retry, done>>
    \/ \E h \in Handle : RetryCrash(h)
    \/ /\ \A t \in Thread : pc[t] = "idle"
       /\ \A t \in Retrier : retry[t].phase = "none"
       /\ UNCHANGED retryVars

(* The operating system runs every thread that can run, and wakes those    *)
(* that sleep.                                                             *)
RetrySpec ==
    /\ RetryInit /\ [][RetryNext]_retryVars
    /\ \A t \in Thread : WF_retryVars(Proceed(t) /\ UNCHANGED <<retry, done>>)
    /\ \A t \in Retrier : WF_retryVars(RetryStep(t))

-----------------------------------------------------------------------------
Total(f(_)) == MapThenSumSet(f, Retrier)

(* When functions that read the counter from the branch they get, add one  *)
(* and write it back run under retry_write, no increment is lost and none  *)
(* counted twice: the counter is the number of commits made to the branch, *)
(* whether they were reported or their process died after the branch had   *)
(* moved, and at least the number reported.                                *)
NoLostIncrement ==
    LET counter == Value(refs[InitBranch])
        reported == Total(LAMBDA t : done[t].ok)
    IN /\ counter = Len(reflog[InitBranch]) - 1
       /\ counter >= reported

(* A retry_write that gives up was overtaken once for every call it made:  *)
(* at least max_retries + 1 commits of others went to the branch meanwhile.*)
GivesUpOnProgress ==
    [][\A t \in Retrier :
          retry[t].phase = "call" /\ retry'[t].phase = "none" /\ res'[t] = "stale" =>
              Len(reflog[InitBranch]) >= retry[t].since + max_retries + 1]_retryVars

(* Every retry_write returns or throws.                                    *)
RetryEnds == \A t \in Retrier : retry[t].phase # "none" ~> retry[t].phase = "none"
=============================================================================
