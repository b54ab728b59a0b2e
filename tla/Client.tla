------------------------------- MODULE Client -------------------------------
(***************************************************************************)
(* A Client object (includes/Client.hpp, src/Client.cpp): one connection's *)
(* identity and its progress through PASS / NICK / USER.  The real name    *)
(* is left out: no decision of the server reads it.                        *)
(***************************************************************************)
EXTENDS IRCNames

(* The fields of a Client.  The empty string is a field not yet set.       *)
ClientObject ==
  [socketFd: Fd, nickname: Nick \cup {""}, username: UserName \cup {""},
   passAccepted: BOOLEAN, registered: BOOLEAN]

(* The constructor.                                                        *)
NewClient(f) ==
  [socketFd |-> f, nickname |-> "", username |-> "",
   passAccepted |-> FALSE, registered |-> FALSE]

AcceptPassword(c) == [c EXCEPT !.passAccepted = TRUE]
SetUserName(c, u) == [c EXCEPT !.username = u]
SetNick(c, n)     == [c EXCEPT !.nickname = n]

(* PASS was accepted and NICK and USER have been given.                    *)
Complete(c) == c.passAccepted /\ c.username # "" /\ c.nickname # ""

(* tryRegister() returns true.                                             *)
BadCanRegister(c) == ~c.registered /\ c.username # "" /\ c.nickname # ""
BadCanRegisterAgain(c) == Complete(c)
CanRegister(c) == ~c.registered /\ Complete(c)

(* tryRegister()'s effect.                                                 *)
TryRegister(c) == IF CanRegister(c) THEN [c EXCEPT !.registered = TRUE] ELSE c
=============================================================================
