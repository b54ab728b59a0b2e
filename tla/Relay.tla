------------------------------- MODULE Relay -------------------------------
(***************************************************************************)
(* From a client through the server to the others: what a receiver that    *)
(* reads lines as the server does makes of the relayed command.            *)
(***************************************************************************)
EXTENDS LineInput, ReplyBuilder

ASSUME RelayAssumption == MaxParams >= 2   \* room for the answer to PING

Heard(line) == Parse(WithoutCR(Front(line)))
Says(line, command, params) ==
  Heard(line) = [command |-> <<command>>, params |-> params]

(* The answer to PING, which no builder makes.                             *)
Pong(params) ==
  <<"PONG">> \o Word(<<"ircServ">>)
    \o Text(IF params = <<>> THEN <<"ircServ">> ELSE params[1]) \o EndOfLine

(* Characters by what the tests of names ask of them.                      *)
Letters  == {"a", "A"}
Special  == {"_"}
Digits   == {"1"}
NoName   == {" ", "\r", "\n", Control, ",", ":"}

ValidNick(nick) ==
  /\ nick # <<>> /\ nick[1] \in Letters \cup Special
  /\ Range(nick) \subseteq Letters \cup Special \cup Digits \cup {"-"}

BadValidChannelName(name) ==
  Len(name) > 1 /\ name[1] = "#" /\ \A k \in 2..Len(name) : name[k] # ","
ValidChannelName(name) ==
  Len(name) > 1 /\ name[1] = "#" /\ \A k \in 2..Len(name) : name[k] \notin NoName

(* How a parameter other than the trailing one looks.                      *)
IsWord(p) == p # <<>> /\ p[1] # ":" /\ \A k \in DOMAIN p : p[k] # " "

Sender(user) == [nick |-> <<"a">>, user |-> user]

(* The others receive a command as the client sent it, whatever text it    *)
(* ends in: colons, spaces, carriage returns, nothing.  A client gets the  *)
(* token of its PING back.  An empty message is not relayed, and an empty  *)
(* reason is replaced by the sender's name.                                *)
RelayFaithful ==
  \A k \in DOMAIN dispatched :
    LET p       == dispatched[k].params
        from    == Sender(<<"a">>)
        has(n)  == Len(p) >= n
        channel == has(1) /\ ValidChannelName(p[1])
    IN  /\ has(1) => Says(Pong(p), "PONG", <<<<"ircServ">>, p[1]>>)
        /\ channel => Says(Join(from, p[1]), "JOIN", <<p[1]>>)
        /\ channel /\ has(2) =>
             Says(Topic(from, p[1], p[2]), "TOPIC", <<p[1], p[2]>>)
        /\ has(2) /\ p[2] # <<>> /\ (channel \/ ValidNick(p[1])) =>
             Says(PrivMsg(from, p[1], p[2]), "PRIVMSG", <<p[1], p[2]>>)
        /\ has(2) /\ ValidNick(p[1]) /\ ValidChannelName(p[2]) =>
             Says(Invite(from, [from EXCEPT !.nick = p[1]], p[2]), "INVITE",
                  <<p[1], p[2]>>)
        /\ has(3) /\ channel /\ ValidNick(p[2]) /\ p[3] # <<>> =>
             Says(Kick(from, [from EXCEPT !.nick = p[2]], p[1], p[3]), "KICK",
                  <<p[1], p[2], p[3]>>)

(* A key is announced as it was set exactly if it is one word.  One given  *)
(* as the trailing parameter may hold spaces or start with a colon, and is *)
(* announced as several parameters or as a text.                           *)
KeyAnnounced ==
  \A k \in DOMAIN dispatched :
    LET p == dispatched[k].params
    IN  Len(p) = 3 /\ IsWord(p[1]) /\ IsWord(p[2]) /\ p[3] # <<>> =>
          (IsWord(p[3]) <=> Says(Mode(Sender(p[1]), p[1], p[2] \o Word(p[3])),
                                 "MODE", p))

(* A client reads its own name, or the * of a client that has none yet, as *)
(* the first parameter of every kind of numeric (without a text, with one, *)
(* with one of single words), whatever the numeric quotes.                 *)
NumericsAddressed ==
  \A k \in DOMAIN dispatched, num \in {"004", "353", "421"}, nick \in {<<>>, <<"a">>} :
    LET m     == dispatched[k]
        quote == IF m.params = <<>> THEN <<>> ELSE m.params[1]
        heard == Heard(Numeric(nick, num, quote))
    IN  /\ heard.command = <<num>>
        /\ heard.params # <<>> /\ heard.params[1] = Default(nick, "*")
=============================================================================
