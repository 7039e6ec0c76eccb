---------------------------- MODULE MCVostRetry ------------------------------
(* An instance of VostRetry for TLC.                                       *)
EXTENDS VostRetry, TLC

CONSTANTS t1, t2, t3

(* The thread that does not retry shares the process of one that does.     *)
OneApart == (t1 :> "h") @@ (t2 :> "i") @@ (t3 :> "i")

Digits == <<"1", "2", "3", "4", "5">>

Increments == [t \in Thread |-> {CounterTo(x) : x \in Data}]
=============================================================================
