------------------------------ MODULE MCViews ------------------------------
(* A small instance of the members' views for TLC: two clients, two        *)
(* channels, JOIN lists with and without matching keys, KICK lists,        *)
(* PRIVMSG lists of channels and nicknames.                                *)
EXTENDS MCCore, MemberViews

ListWords == {"pw", "key", "bad"}
ListJoins == {<<c1, c2>>, <<"bad", c1>>, <<c2, c2>>}
ListKeys  == {<<>>, <<"key">>, <<"", "key">>}
ListKicks == {<<x, y>> : x, y \in Nick}
ListMsgs  == {<<"">>} \cup {<<c2, x>> : x \in Nick}
ListModes == {<<"k">>}
ListArguments == {<<"key">>}
=============================================================================
