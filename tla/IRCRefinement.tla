--------------------------- MODULE IRCRefinement ---------------------------
(***************************************************************************)
(* The command core, with its heap, its two tables and its loops, is the   *)
(* Chat its users see.  A session stands for a client, a room for a        *)
(* channel, and each set of pointers for the sockets whose clients they    *)
(* point to.                                                               *)
(***************************************************************************)
EXTENDS IRCSafety

FdsOf(S) == {f \in Fd : clientsByFd[f] \in S}

SessionOf(f) ==
  IF clientsByFd[f] = NULL THEN NULL
  ELSE [nick |-> Obj(f).nickname, registered |-> Obj(f).registered]

RoomOf(ch) ==
  IF ch = NULL THEN NULL
  ELSE [members |-> FdsOf(ch.members), operators |-> FdsOf(ch.operators),
        invited |-> FdsOf(ch.invited), topic |-> ch.topic,
        inviteOnly |-> ch.inviteOnly, topicRestricted |-> ch.topicRestricted,
        key |-> IF ch.channelProtected THEN ch.channelPass ELSE NULL,
        limit |-> IF ch.memberLimited THEN ch.maxMember ELSE NULL]

SessionBar == [f \in Fd |-> SessionOf(f)]
RoomBar    == [c \in Chan |-> RoomOf(channels[c])]

(* What is left of the list of the handler in progress: each channel of    *)
(* JOIN with its key, each name of KICK with its channel.                  *)
KeyAt(keys, i) == IF i <= Len(keys) THEN keys[i] ELSE ""
Doors(todo, keys) ==
  [i \in 1 .. Len(todo) |-> [room |-> todo[i], word |-> KeyAt(keys, i)]]
Names(c, todo) == [i \in 1 .. Len(todo) |-> [room |-> c, word |-> todo[i]]]

ListOf(j) ==
  IF j.cmd = "JOIN" THEN Doors(j.todo, j.params)
  ELSE IF j.cmd = "KICK" THEN Names(j.chan, j.todo)
  ELSE <<[room |-> j.chan, word |-> ""]>>

RequestOf(j) ==
  IF j.cmd \in {"JOIN", "KICK", "MODE"}
    THEN [cmd |-> j.cmd, by |-> j.fd, list |-> ListOf(j)] ELSE NULL

RequestBar == RequestOf(job)

Talk == INSTANCE Chat
          WITH session <- SessionBar, room <- RoomBar, request <- RequestBar,
               Text <- Token

ASSUME NothingAssumption ==
  NULL \notin Talk!Session \cup Talk!Room \cup Talk!Request \cup Token \cup Nat

(* Every step of the server is a step of the chat or invisible in it: names*)
(* are unique, everybody enters exactly the rooms whose policy lets it in  *)
(* (invitation, key, limit), is kicked only by who governs the room at that*)
(* moment, and keeps no rank, membership or invitation past the end of its *)
(* connection, whatever address or descriptor the next client gets.        *)
ImplementsChat == Talk!Spec
=============================================================================
