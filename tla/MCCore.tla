------------------------------- MODULE MCCore -------------------------------
(* Small instances of the command core for TLC.                            *)
EXTENDS IRCRefinement, TLC

CONSTANTS f1, f2, f3, a1, a2, a3, n1, n2, n3, c1, c2

Sockets   == {f1, f2, f3}
Heap      == {a1, a2, a3}
Two       == {n1, n2}
Three     == {n1, n2, n3}

(* Clients, their addresses and their names are interchangeable.           *)
Symmetric == Permutations(Fd) \cup Permutations(Addr) \cup Permutations(Nick)

(* Every word that is not a number reads as 0.                             *)
AtoiTable == [p \in Param |-> IF p = "1" THEN 1 ELSE IF p = "2" THEN 2
                              ELSE IF p = "-1" THEN -1 ELSE 0]

OneChannel == {c1}
TwoChannels == {c1, c2}

-----------------------------------------------------------------------------
(* Membership: three clients, one channel that can be made invite-only or  *)
(* limited to one member; kick lists that name the kicker among others; MODE*)
(* lines with turns that are refused, ignored and carried out.             *)
MembershipWords == {"pw", "1"}
MembershipJoins == {<<c1>>}
NoKeys == {<<>>}
MembershipKicks == {<<x, y>> : x, y \in Nick} \cup {<<"">>}
MembershipModes == {<<"+", "i">>, <<"l", "b">>, <<"-", "k", "o">>}
MembershipParams == {<<"1">>} \cup {<<x>> : x \in Nick}
MembershipMsgs == {<<c1>>}

-----------------------------------------------------------------------------
(* Pairs: two clients and one channel.                                     *)
PasswordWords == {"pw", "bad"}
PairFd   == {f1, f2}
PairHeap == {a1, a2}

ModeWords == {"pw", "1", "-1"}
ModeJoins == {<<c1>>}
ModeKeys == {<<>>, <<"1">>}
ModeKicks == {<<x>> : x \in Nick}
EmptyKeyLines     == {<<"+", "k">>}
EmptyKeyArguments == {<<"">>, <<"1">>}
=============================================================================
