------------------------------ MODULE MCModes ------------------------------
(* A small instance of the MODE lines for TLC: two clients, one channel,   *)
(* every mode in both directions, with too few parameters, useless ones,   *)
(* an empty one, and lines that undo what they have done.                  *)
EXTENDS MCCore, ModeAnnouncements

ModeLines ==
  {<<>>, <<"t">>, <<"-", "t", "i">>, <<"l", "k", "b">>, <<"-", "k", "o">>,
   <<"l", "i">>, <<"-", "l", "+", "k">>, <<"-", "o", "+", "o">>}
ModeArguments == {<<>>, <<"1">>, <<"-1", "">>} \cup {<<x, y>> : x, y \in Nick}
=============================================================================
