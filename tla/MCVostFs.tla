------------------------------ MODULE MCVostFs -------------------------------
(* Instances of VostFs and VostRead for TLC.                               *)
EXTENDS VostRead

(* A directory with two entries, one of them a directory too, beside       *)
(* another with one entry, and the root.                                   *)
DeepArg == {Root, <<"a">>, <<"a", "a">>, <<"a", "b">>, <<"a", "a", "a">>,
            <<"b">>, <<"b", "a">>}

(* A directory, two entries of it, a file beside it, and the root.         *)
FewArg == {Root, <<"a">>, <<"a", "a">>, <<"a", "b">>, <<"b">>}

NoLists == {}

(* Lists of one or two paths, in either order and with repetitions.        *)
ShortLists ==
    LET paths == Arg \ {Root}
    IN {<<p>> : p \in Arg} \cup {<<p, q>> : p, q \in paths}

(* Another branch, and what is copied from it: a directory, its contents,  *)
(* everything, a file and a directory with that file, something missing.   *)
OtherTree == RebuildTree(EmptyTree, <<"a", "a">> :> "x" @@ <<"a", "b">> :> "y"
                                    @@ <<"b">> :> "x", <<>>)

CopyOf(p, c) == [path |-> p, contents |-> c]

CopyLists == {<<CopyOf(<<"a">>, FALSE)>>, <<CopyOf(<<"a">>, TRUE)>>, <<CopyOf(Root, FALSE)>>,
              <<CopyOf(<<"b">>, FALSE), CopyOf(<<"a">>, FALSE)>>, <<CopyOf(<<"b", "b">>, FALSE)>>}

(* "b" stands for a hidden name of two characters.                         *)
DotB == ("a" :> <<"a">>) @@ ("b" :> <<".", "b">>)

SomePatterns ==
    LET all == <<Star>>
        a == <<Lit("a")>>
    IN {<<all>>, <<all, all>>, <<DoubleStar, all>>, <<DoubleStar, a>>, <<a, DoubleStar>>,
        <<DoubleStar, a, DoubleStar, all>>, <<a, <<Lit("."), Star>>>>,
        <<DoubleStar, <<Lit("."), Question>>>>, <<DoubleStar, <<Star, OneOf({"a", "b"}), Star>>>>,
        <<<<NoneOf({"a"}), Star>>, all>>, <<<<Star, Lit("a"), Star, Lit("a")>>>>, <<>>}

(* One blob is empty; SIZE_MAX is 7.                                       *)
Sizes == ("x" :> 3) @@ ("y" :> 0)
=============================================================================
