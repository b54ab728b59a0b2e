-------------------------------- MODULE Chat --------------------------------
(***************************************************************************)
(* What the server is to its users: sessions with a name, rooms they enter,*)
(* and operators who govern them.  There are no addresses, no tables and no*)
(* lists of names here, and a room knows sessions, not pointers.  A        *)
(* session that ends takes with it everything it had in any room.          *)
(***************************************************************************)
EXTENDS Naturals, Sequences, FiniteSets

CONSTANTS
  Fd,           \* a session is known by its socket
  Nick,         \* nicknames
  Chan,         \* names of rooms
  Topic,        \* topics
  Text,         \* what may be written where a room, a name or a key belongs
  OutOfMemory,  \* may a room fail to open
  NULL          \* no session, no room, no request, no key, no limit

VARIABLES
  session,  \* [nick, registered] of each socket
  room,     \* the members, operators, invited, topic and modes of each room
  request   \* what a session has asked for and has not been answered yet

vars == <<session, room, request>>

Session == [nick: Nick \cup {""}, registered: BOOLEAN]
Room    == [members: SUBSET Fd, operators: SUBSET Fd, invited: SUBSET Fd,
            topic: Topic \cup {""}, inviteOnly: BOOLEAN, topicRestricted: BOOLEAN,
            key: Text \cup {NULL}, limit: Nat \cup {NULL}]

(* JOIN names rooms, each with the key it offers; KICK names members of a  *)
(* room; MODE is for one room.                                             *)
Request == [cmd: {"JOIN", "KICK", "MODE"}, by: Fd,
            list: Seq([room: Text, word: Text])]

Unused     == [nick |-> "", registered |-> FALSE]
Opened(f)  == [members |-> {f}, operators |-> {f}, invited |-> {}, topic |-> "",
               inviteOnly |-> FALSE, topicRestricted |-> FALSE,
               key |-> NULL, limit |-> NULL]

Quiet         == request = NULL
Registered(f) == session[f] # NULL /\ session[f].registered
Governs(f, c) == room[c] # NULL /\ f \in room[c].members \cap room[c].operators
NameFree(f, n) ==
  \A g \in Fd \ {f} : session[g] = NULL \/ session[g].nick # n

Named(c, n) == {f \in room[c].members : session[f].nick = n}

(* The policy of a room: an invitation, the key, and a place are needed    *)
(* where they are asked for.                                               *)
LetsIn(r, f, key) ==
  /\ r.inviteOnly => f \in r.invited
  /\ r.key # NULL => key = r.key
  /\ r.limit # NULL => Cardinality(r.members) < r.limit

(* A room without f, in which f has no rank and no invitation; it is gone  *)
(* with its last member.                                                   *)
Without(r, f) ==
  IF r = NULL \/ r.members \subseteq {f} THEN NULL
  ELSE [r EXCEPT !.members = @ \ {f}, !.operators = @ \ {f}, !.invited = @ \ {f}]

-----------------------------------------------------------------------------
Connect(f) ==
  /\ Quiet /\ session[f] = NULL
  /\ session' = [session EXCEPT ![f] = Unused]
  /\ UNCHANGED <<room, request>>

Disconnect(f) ==
  /\ Quiet /\ session[f] # NULL
  /\ session' = [session EXCEPT ![f] = NULL]
  /\ room' = [c \in Chan |-> Without(room[c], f)]
  /\ UNCHANGED request

(* A session takes a name nobody has, or registers under the one it has.   *)
(* It never gives up a name but for another, nor its registration.         *)
Identify(f) ==
  /\ Quiet /\ session[f] # NULL
  /\ \E n \in Nick \cup {""}, r \in BOOLEAN :
       /\ n = session[f].nick \/ (n \in Nick /\ NameFree(f, n))
       /\ session[f].registered => r
       /\ r => n \in Nick
       /\ session' = [session EXCEPT ![f] = [nick |-> n, registered |-> r]]
  /\ UNCHANGED <<room, request>>

Invite(f, t, c) ==
  /\ Quiet /\ Governs(f, c) /\ session[t] # NULL /\ t \notin room[c].members
  /\ room' = [room EXCEPT ![c].invited = @ \cup {t}]
  /\ UNCHANGED <<session, request>>

SetTopic(f, c, t) ==
  /\ Quiet /\ room[c] # NULL /\ f \in room[c].members
  /\ room[c].topicRestricted => f \in room[c].operators
  /\ room' = [room EXCEPT ![c].topic = t]
  /\ UNCHANGED <<session, request>>

-----------------------------------------------------------------------------
(* A registered session asks to enter rooms or to put members out of one,  *)
(* and an operator to change the modes of the room it governs.  A request  *)
(* is served to its end before anybody else is heard.                      *)
Ask(f) ==
  /\ Quiet /\ Registered(f)
  /\ request' \in Request /\ request'.by = f /\ request'.list # <<>>
  /\ request'.cmd = "MODE" => Governs(f, Head(request'.list).room)
  /\ UNCHANGED <<session, room>>

Asks(cmd) == request # NULL /\ request.cmd = cmd
Asked     == Head(request.list)

(* One entry of the list of JOIN or KICK is done with.                     *)
Answer ==
  /\ request' = IF Len(request.list) = 1 THEN NULL
                ELSE [request EXCEPT !.list = Tail(@)]
  /\ UNCHANGED session

(* The first to enter a room opens it and governs it.                      *)
Create(c) ==
  /\ Asks("JOIN") /\ Asked.room = c /\ room[c] = NULL
  /\ room' = [room EXCEPT ![c] = Opened(request.by)]
  /\ Answer

Enter(c) ==
  /\ Asks("JOIN") /\ Asked.room = c
  /\ room[c] # NULL /\ request.by \notin room[c].members
  /\ LetsIn(room[c], request.by, Asked.word)
  /\ room' = [room EXCEPT ![c].members = @ \cup {request.by}]
  /\ Answer

(* Whoever puts a member out governs the room at that moment.              *)
Kick(c, t) ==
  /\ Asks("KICK") /\ Asked.room = c
  /\ Governs(request.by, c) /\ t \in Named(c, Asked.word)
  /\ room' = [room EXCEPT ![c] = Without(@, t)]
  /\ Answer

(* Nobody is turned away without a reason: there is no such room and none  *)
(* can be opened, the session is in it, or its policy keeps the session    *)
(* out; who kicks does not govern the room, or it has no such member.      *)
Unwelcome(c) ==
  IF c \notin Chan THEN TRUE
  ELSE IF room[c] = NULL THEN OutOfMemory
  ELSE request.by \in room[c].members \/ ~LetsIn(room[c], request.by, Asked.word)

Decline ==
  /\ \/ Asks("JOIN") /\ Unwelcome(Asked.room)
     \/ Asks("KICK") /\ (Governs(request.by, Asked.room)
                           => Named(Asked.room, Asked.word) = {})
  /\ UNCHANGED room
  /\ Answer

-----------------------------------------------------------------------------
(* MODE moves nobody in or out, invites nobody, leaves the topic alone and *)
(* gives ranks to members only.                                            *)
Tune(c) ==
  /\ Asks("MODE") /\ Asked.room = c
  /\ room[c] # NULL /\ room'[c] # NULL
  /\ room' = [room EXCEPT ![c] = room'[c]]
  /\ room'[c].members = room[c].members
  /\ room'[c].invited = room[c].invited
  /\ room'[c].topic = room[c].topic
  /\ room'[c].operators \subseteq room[c].operators \cup room[c].members
  /\ room'[c].limit \in {room[c].limit, NULL} \cup (Nat \ {0})
  /\ UNCHANGED <<session, request>>

EndLine ==
  /\ Asks("MODE") /\ request' = NULL
  /\ UNCHANGED <<session, room>>

-----------------------------------------------------------------------------
Init ==
  /\ session = [f \in Fd |-> NULL]
  /\ room = [c \in Chan |-> NULL]
  /\ request = NULL

Next ==
  \/ \E f \in Fd : Connect(f) \/ Disconnect(f) \/ Identify(f) \/ Ask(f)
  \/ \E f, t \in Fd, c \in Chan : Invite(f, t, c)
  \/ \E f \in Fd, c \in Chan, t \in Topic \cup {""} : SetTopic(f, c, t)
  \/ \E c \in Chan : Create(c) \/ Enter(c) \/ Tune(c)
  \/ \E c \in Chan, t \in Fd : Kick(c, t)
  \/ Decline \/ EndLine

Spec == Init /\ [][Next]_vars
=============================================================================
