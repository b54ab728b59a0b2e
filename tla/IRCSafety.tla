----------------------------- MODULE IRCSafety -----------------------------
(***************************************************************************)
(* What the command core promises, stated over the states and steps of     *)
(* IRCCore.  Live addresses are those that hold a Client object.           *)
(***************************************************************************)
EXTENDS IRCCore

Live == {a \in Addr : client[a] # NULL}
Open == {c \in Chan : channels[c] # NULL}
Members(c) == IF channels[c] = NULL THEN {} ELSE channels[c].members

(* Every variable has its type; in particular a stored member limit is     *)
(* never negative, whatever number MODE +l was given.                      *)
TypeOK ==
  /\ clientsByFd \in [Fd -> Addr \cup {NULL}]
  /\ clientsByNick \in [Nick -> Addr \cup {NULL}]
  /\ client \in [Addr -> ClientObject \cup {NULL}]
  /\ channels \in [Chan -> ChannelObject \cup {NULL}]
  /\ job \in Job
  /\ result \in [Fd -> Seq(Reply)]

(* The socket table and the heap agree: the entry of a socket is a live    *)
(* Client that knows that socket, and every live Client is the entry of    *)
(* its socket.  No Client is leaked, none is reachable from two sockets.   *)
FdTableExact ==
  /\ \A f \in Fd : clientsByFd[f] # NULL =>
       clientsByFd[f] \in Live /\ Obj(f).socketFd = f
  /\ \A a \in Live : clientsByFd[client[a].socketFd] = a

(* The nickname table maps a name to a client exactly when that client is  *)
(* live and carries the name, across NICK changes and disconnects: no two  *)
(* clients share a name and no name stays taken by a client that is gone.  *)
NickTableExact ==
  \A n \in Nick, a \in Addr :
    clientsByNick[n] = a <=> a \in Live /\ client[a].nickname = n

(* No channel keeps the address of a deleted Client, as member, operator or*)
(* invited: the next client allocated there would inherit its rights.      *)
NoDanglingClient ==
  \A c \in Open :
    channels[c].members \cup channels[c].operators \cup channels[c].invited
      \subseteq Live

(* Operators are members, and members have completed registration.         *)
RanksConsistent ==
  \A c \in Open :
    /\ channels[c].operators \subseteq channels[c].members
    /\ \A a \in channels[c].members : a \in Live => client[a].registered

(* A channel exists only while somebody is in it, whatever the order of    *)
(* kicks and disconnects that emptied it.                                  *)
NoEmptyChannel == \A c \in Open : channels[c].members # {}

(* A client is registered exactly when PASS, NICK and USER have all been   *)
(* accepted, in whichever order they came.                                 *)
RegistrationExact == \A a \in Live : client[a].registered <=> Complete(client[a])

(* The operator check of MODE is made once, before the mode string is      *)
(* walked through.  It does not go stale: all along the line the channel   *)
(* exists, the caller is in it, and it still is an operator unless the line*)
(* itself has changed something (it may take its own rank away).           *)
ModeAuthorityHolds ==
  job.cmd = "MODE" =>
    /\ job.chan \in Open /\ Self \in ModeChannel.members
    /\ Self \in ModeChannel.operators \/ job.finalModes # <<>>

-----------------------------------------------------------------------------
(* Steps.                                                                  *)

(* What a step adds to the replies of a socket, and all that are there then.*)
New(f) == {result'[f][i] : i \in Len(result[f]) + 1 .. Len(result'[f])}
Hears(f, r) == \E i \in DOMAIN result'[f] : result'[f][i] = r

(* The welcome goes out exactly once per registration: a step greets a     *)
(* socket if and only if its client became registered in that step.        *)
WelcomedOnce ==
  [][\A f \in Fd : Hears(f, "001") <=>
       /\ clientsByFd[f] # NULL /\ clientsByFd'[f] = clientsByFd[f]
       /\ ~client[clientsByFd[f]].registered
       /\ client'[clientsByFd[f]].registered]_vars

(* A nickname changes hands only through being free: no step gives a name  *)
(* that one client holds to another.                                       *)
NamesKept ==
  \A n \in Nick : clientsByNick[n] # NULL =>
    clientsByNick'[n] \in {clientsByNick[n], NULL}
NickNotStolen == [][NamesKept]_vars

(* A client that is put out of a channel keeps no invitation to it: it     *)
(* cannot walk back into a +i channel on the invitation it came in with.   *)
LeaversStripped ==
  \A c \in Open : channels'[c] # NULL =>
    \A a \in channels[c].members \ channels'[c].members :
      a \notin channels'[c].invited \cup channels'[c].operators
KickRevokesInvitation == [][LeaversStripped]_vars

(* Nobody becomes operator of a channel that exists and has no operator,   *)
(* except in a MODE line its last operator is still walking through: when  *)
(* the last operator leaves, newcomers and heirs get no rank.              *)
NoHeir ==
  \A c \in Open :
    (channels[c].operators = {} /\ ~(job.cmd = "MODE" /\ job.chan = c))
      => channels'[c] = NULL \/ channels'[c].operators = {}
NoRankFromNowhere == [][NoHeir]_vars

(* Nobody enters a channel beyond the limit in force, though the limit may *)
(* be set below the number of members already in.                          *)
WithinLimit ==
  \A c \in Open : (channels'[c] # NULL /\ channels[c].memberLimited) =>
    \/ channels'[c].members \subseteq channels[c].members
    \/ Cardinality(channels'[c].members) <= channels[c].maxMember
LimitRespected == [][WithinLimit]_vars

(* A turn that changes the members of a channel tells exactly those who    *)
(* were or are in it, in that turn and of that change: the newcomer and the*)
(* kicked are told, also by the later turns of a list that told them before*)
(* of something else, and nobody outside is.                               *)
(* (A lost connection is not announced: the Client itself is gone.)        *)
AllHear ==
  \A c \in Chan :
    LET before == Members(c)
        after  == Members(c)'
        news   == IF after \subseteq before THEN "KICK" ELSE "JOIN"
    IN  (before # after /\ client' = client) =>
          \A f \in Fd : news \in New(f) <=> clientsByFd[f] \in before \cup after
MembershipAnnounced == [][AllHear]_vars

-----------------------------------------------------------------------------
(* Statements of the tests and the design document.                        *)

(* unitTest/test_ServerState: "Same nick is not allowed".                  *)
SameNickRefused ==
  [][\A f \in Fd :
       Receives(f) /\ Obj(f).nickname # "" /\ HandleNick(f, Obj(f).nickname)
         => result' = Only(f, "433")]_vars

(* docs/design.md 7.2: a +k channel asks for a key to join.                *)
ProtectedNeedsKey ==
  [][\A c \in Open : (channels'[c] # NULL /\ channels[c].channelProtected)
       => channels'[c].members \subseteq channels[c].members \/ JoinKey # ""]_vars
=============================================================================
