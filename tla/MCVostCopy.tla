----------------------------- MODULE MCVostCopy ------------------------------
(* Instances of VostCopy for TLC.                                          *)
EXTENDS VostCopy

(* A plain file, an executable one with the same content, an empty file    *)
(* of either mode, and a link to the sibling "b".                          *)
MCMode == "x" :> "blob" @@ "xx" :> "exec" @@ "e" :> "blob" @@ "ex" :> "exec" @@ "l" :> "link"
MCContent == "x" :> "x" @@ "xx" :> "x" @@ "e" :> "" @@ "ex" :> "" @@ "l" :> "b"

(* The root and a directory of which there may be another inside.          *)
MCAt == {Root, <<"a">>}

NoFilter == [include |-> <<>>, exclude |-> <<>>]

MCFilters == {NoFilter,
              [include |-> <<>>, exclude |-> <<{<<"b">>}>>],
              [include |-> <<{<<"a">>, <<"b">>}>>, exclude |-> <<{<<"a", "b">>}>>]}

OnlyNoFilter == {NoFilter}

(* Files and links; "b" never is a link or a directory.                    *)
MCRepoEdits == {<<<<"a">>, "x">>, <<<<"a">>, "l">>, <<<<"b">>, "xx">>, <<<<"b">>, NoEntry>>,
                <<<<"a", "b">>, "x">>, <<<<"a", "a", "b">>, "x">>}

MCDiskEdits == {<<<<"a">>, "x">>, <<<<"a">>, "l">>, <<<<"a">>, NoEntry>>,
                <<<<"b">>, "x">>, <<<<"b">>, "xx">>, <<<<"b">>, NoEntry>>,
                <<<<"a", "b">>, "xx">>, <<<<"a", "a">>, DirEntry>>}
=============================================================================
