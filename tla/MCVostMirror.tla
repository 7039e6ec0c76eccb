---------------------------- MODULE MCVostMirror -----------------------------
(* Instances of VostMirror for TLC.                                        *)
EXTENDS VostMirror, TLC

Short(path) == [full |-> FALSE, path |-> path]
Full(path) == [full |-> TRUE, path |-> path]

(* A branch and a tag of the same short name, and a branch in a directory. *)
TwoKinds == {<<"heads", "a">>, <<"tags", "a">>, <<"heads", "d", "b">>}

Everything == [names |-> {}, map |-> NoRefs]
NameA == [names |-> {Short(<<"a">>)}, map |-> NoRefs]
Rename == [names |-> {}, map |-> Short(<<"a">>) :> Short(<<"n">>)
                              @@ Short(<<"d", "b">>) :> Full(<<"heads", "a">>)]

(* All references, one by its short name, one renamed within its kind and  *)
(* one in full.                                                            *)
AllNamesMaps == {Everything, NameA, Rename}
=============================================================================
