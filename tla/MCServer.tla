------------------------------ MODULE MCServer ------------------------------
(* A small instance of the whole program for TLC: two descriptors that are *)
(* reused, two clients, one channel with a topic, lists of two, a MODE line*)
(* of every kind of turn, and send buffers of two replies.                 *)
EXTENDS IRCServer, TLC

CONSTANTS f1, f2, a1, a2, n1, n2, c1

TwoSockets  == {f1, f2}
TwoClients  == {a1, a2}
TwoNames    == {n1, n2}
OneChannel  == {c1}
ServerWords == {"pw", "1"}
AtoiTable   == [p \in Param |-> IF p = "1" THEN 1 ELSE 0]

ServerJoins  == {<<c1>>, <<"pw", c1>>}
ServerKeys   == {<<>>}
ServerKicks  == {<<n1, n2>>}
ServerMsgs   == {<<c1, n2>>}
ServerModes  == {<<"i">>, <<"-", "k", "o", "b">>}
ServerParams == {<<"1", n1>>}
=============================================================================
