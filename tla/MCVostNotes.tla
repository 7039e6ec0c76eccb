----------------------------- MODULE MCVostNotes -----------------------------
(* Instances of VostNotes for TLC.                                         *)
EXTENDS VostNotes

SeparateHandles == [t \in Thread |-> t]

(* git has put one note into a fanout directory and none elsewhere.        *)
Fanout ==
    [EmptyTree EXCEPT !.fan[CHOOSE h \in Hash : TRUE] = CHOOSE x \in Text : TRUE]
=============================================================================
