------------------------------ MODULE MCStreams ------------------------------
(* Instances of Streams for TLC.                                           *)
EXTENDS Streams

Implicit == [open |-> <<"<", "a">>, close |-> <<"<", "b">>, implicit |-> TRUE]
Explicit == [open |-> <<"a", "a">>, close |-> <<"b", "b">>, implicit |-> FALSE]

AllPresets == {<<>>, <<Explicit>>, <<Implicit, Explicit>>}

ABtoB == [find |-> <<"a", "b">>, subst |-> <<"b">>]
AtoAA == [find |-> <<"a">>, subst |-> <<"a", "a">>]
LTtoA == [find |-> <<"<">>, subst |-> <<"a">>]

AllScripts == {<<>>, <<ABtoB>>, <<LTtoA, AtoAA>>}
=============================================================================
