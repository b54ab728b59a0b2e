------------------------ MODULE IRCRefinementProofs ------------------------
(***************************************************************************)
(* Proof that the command core implements Chat.  Under the invariant of    *)
(* IRCCoreProofs sockets and live clients correspond one to one, so that   *)
(* sets of pointers and sets of sockets can be exchanged; each kind of step*)
(* is then matched with the action of Chat it performs, if any.            *)
(***************************************************************************)
EXTENDS IRCRefinement, IRCCoreProofs

-----------------------------------------------------------------------------
(* Sockets for pointers.                                                   *)

(* A live client is the entry of one socket, its own.                      *)
LEMMA OneSocket ==
  ASSUME Base, NEW a \in Live
  PROVE  /\ client[a].socketFd \in Fd
         /\ \A f \in Fd : clientsByFd[f] = a <=> f = client[a].socketFd
  BY LiveClient DEF Base, FdTableExact, Obj

(* Adding and removing a live client adds and removes its socket.          *)
LEMMA FdsFacts ==
  ASSUME Base, NEW S, NEW a \in Live
  PROVE  /\ FdsOf(S \cup {a}) = FdsOf(S) \cup {client[a].socketFd}
         /\ FdsOf(S \ {a}) = FdsOf(S) \ {client[a].socketFd}
         /\ client[a].socketFd \in FdsOf(S) <=> a \in S
  BY OneSocket DEF FdsOf

(* A client is the only one of a set if and only if its socket is.         *)
LEMMA FdsAlone ==
  ASSUME Base, NEW S \in SUBSET Live, NEW a \in Live
  PROVE  FdsOf(S) \subseteq {client[a].socketFd} <=> S \subseteq {a}
  <1>1. ASSUME NEW b \in S, FdsOf(S) \subseteq {client[a].socketFd}
        PROVE  b = a
    <2>1. client[b].socketFd \in FdsOf(S)
      BY FdsFacts
    <2>2. client[b].socketFd = client[a].socketFd
      BY <1>1, <2>1
    <2> QED
      BY <2>2, LiveClient
  <1>2. S \subseteq {a} => FdsOf(S) \subseteq {client[a].socketFd}
    BY OneSocket DEF FdsOf
  <1> QED
    BY <1>1, <1>2

(* There are as many sockets as clients.                                   *)
LEMMA FdsCount ==
  ASSUME Base, NEW S \in SUBSET Live
  PROVE  Cardinality(FdsOf(S)) = Cardinality(S)
  <1>1. IsFiniteSet(S)
    BY FiniteAddrAssumption, FS_Subset DEF Live
  <1> DEFINE socket == [a \in S |-> client[a].socketFd]
  <1>2. \A a \in S : socket[a] \in FdsOf(S)
    BY FdsFacts
  <1>3. socket \in Injection(S, FdsOf(S))
    <2>1. ASSUME NEW a \in S, NEW b \in S, socket[a] = socket[b]
          PROVE  a = b
      BY <2>1, LiveClient
    <2>2. socket \in [S -> FdsOf(S)]
      BY <1>2
    <2> QED
      BY <2>1, <2>2, Zenon DEF Injection, IsInjective
  <1>4. \A f \in FdsOf(S) : clientsByFd[f] \in S /\ socket[clientsByFd[f]] = f
    BY OneSocket DEF FdsOf
  <1>5. socket \in Surjection(S, FdsOf(S))
    BY <1>2, <1>4 DEF Surjection
  <1>6. ExistsBijection(S, FdsOf(S))
    BY <1>3, <1>5 DEF Bijection, ExistsBijection
  <1> HIDE DEF socket
  <1> QED
    BY <1>1, <1>6, FS_Bijection

-----------------------------------------------------------------------------
(* Rooms for channels and sessions for clients.                            *)

(* A channel is a room, and none is no room.                               *)
LEMMA RoomType ==
  ASSUME NEW ch \in ChannelObject
  PROVE  RoomOf(ch) \in Talk!Room /\ RoomOf(ch) # NULL /\ ch # NULL
  <1>1. ch # NULL
    BY NullAssumption
  <1>2. \A S : FdsOf(S) \in SUBSET Fd
    BY DEF FdsOf
  <1>3. ch.maxMember \in Nat
    <2> DEFINE max == ch.maxMember
    <2>1. max \in MemberLimit
      BY DEF ChannelObject
    <2>2. MaxInt \in Nat
      BY NamesAssumption
    <2> HIDE DEF max
    <2>3. max \in Nat
      BY <2>1, <2>2, SMT DEF MemberLimit
    <2> QED
      BY <2>3 DEF max
  <1>4. /\ ch.channelPass \in Param /\ ch.topic \in Topic \cup {""}
        /\ ch.inviteOnly \in BOOLEAN /\ ch.topicRestricted \in BOOLEAN
        /\ Param \subseteq Token
    BY DEF ChannelObject, Token
  <1>5. RoomOf(ch) \in Talk!Room
    BY <1>1, <1>2, <1>3, <1>4 DEF RoomOf, Talk!Room
  <1> QED
    BY <1>1, <1>5, NothingAssumption

(* The fields of the room a channel is.                                    *)
LEMMA RoomFields ==
  ASSUME NEW ch \in ChannelObject
  PROVE  /\ RoomOf(ch).members = FdsOf(ch.members)
         /\ RoomOf(ch).operators = FdsOf(ch.operators)
         /\ RoomOf(ch).invited = FdsOf(ch.invited)
         /\ RoomOf(ch).topic = ch.topic
         /\ RoomOf(ch).inviteOnly = ch.inviteOnly
         /\ RoomOf(ch).topicRestricted = ch.topicRestricted
         /\ RoomOf(ch).key = IF ch.channelProtected THEN ch.channelPass ELSE NULL
         /\ RoomOf(ch).limit = IF ch.memberLimited THEN ch.maxMember ELSE NULL
  BY RoomType DEF RoomOf

(* A client is a session, with its name and its registration.              *)
LEMMA SessionType ==
  ASSUME Base, NEW f \in Fd, clientsByFd[f] # NULL
  PROVE  /\ SessionOf(f) \in Talk!Session
         /\ SessionOf(f) # NULL
         /\ SessionOf(f).nick = Obj(f).nickname
         /\ SessionOf(f).registered = Obj(f).registered
  <1>1. Obj(f) \in ClientObject
    BY ReceiverLive DEF Base
  <1>2. SessionOf(f) \in Talk!Session
    BY <1>1 DEF SessionOf, ClientObject, Talk!Session
  <1> QED
    BY <1>2, NothingAssumption DEF SessionOf

(* A room less a session, field by field.                                  *)
LEMMA RoomLess ==
  ASSUME NEW r \in Talk!Room, NEW s \in Talk!Room, NEW g,
         s.members = r.members \ {g}, s.operators = r.operators \ {g},
         s.invited = r.invited \ {g}, s.topic = r.topic,
         s.inviteOnly = r.inviteOnly, s.topicRestricted = r.topicRestricted,
         s.key = r.key, s.limit = r.limit
  PROVE  s = [r EXCEPT !.members = @ \ {g}, !.operators = @ \ {g},
                       !.invited = @ \ {g}]
  BY DEF Talk!Room

(* Channel::removeClient followed by removeChannelIfEmpty is what becomes  *)
(* of a room when one of its clients is gone.                              *)
LEMMA WithoutRoom ==
  ASSUME Base, NEW ch \in ChannelObject, ch.members \subseteq Live, NEW a \in Live
  PROVE  RoomOf(RemoveIfEmpty(RemoveFromChannel(ch, a)))
           = Talk!Without(RoomOf(ch), client[a].socketFd)
  <1> DEFINE g == client[a].socketFd
             out == RemoveFromChannel(ch, a)
  <1>1. /\ out \in ChannelObject /\ out.members = ch.members \ {a}
        /\ out.operators = ch.operators \ {a} /\ out.invited = ch.invited \ {a}
        /\ out.topic = ch.topic /\ out.inviteOnly = ch.inviteOnly
        /\ out.topicRestricted = ch.topicRestricted
        /\ out.channelProtected = ch.channelProtected
        /\ out.channelPass = ch.channelPass
        /\ out.memberLimited = ch.memberLimited
        /\ out.maxMember = ch.maxMember
    BY DEF RemoveFromChannel, ChannelObject
  <1> HIDE DEF out
  <1>2. out.members = {} <=> RoomOf(ch).members \subseteq {g}
    BY <1>1, RoomFields, FdsAlone
  <1>3. RoomOf(out) = [RoomOf(ch) EXCEPT !.members = @ \ {g},
                                         !.operators = @ \ {g},
                                         !.invited = @ \ {g}]
    <2>1. RoomOf(ch) \in Talk!Room /\ RoomOf(out) \in Talk!Room
      BY <1>1, RoomType
    <2>2. /\ FdsOf(out.members) = FdsOf(ch.members) \ {g}
          /\ FdsOf(out.operators) = FdsOf(ch.operators) \ {g}
          /\ FdsOf(out.invited) = FdsOf(ch.invited) \ {g}
      <3>1. \A S : FdsOf(S \ {a}) = FdsOf(S) \ {g}
        BY FdsFacts
      <3> QED
        BY <1>1, <3>1, Zenon
    <2>3. RoomOf(out).key = RoomOf(ch).key
      BY <1>1, RoomType DEF RoomOf
    <2> HIDE DEF g
    <2>4. /\ RoomOf(out).members = RoomOf(ch).members \ {g}
          /\ RoomOf(out).operators = RoomOf(ch).operators \ {g}
          /\ RoomOf(out).invited = RoomOf(ch).invited \ {g}
          /\ RoomOf(out).topic = RoomOf(ch).topic
          /\ RoomOf(out).inviteOnly = RoomOf(ch).inviteOnly
          /\ RoomOf(out).topicRestricted = RoomOf(ch).topicRestricted
          /\ RoomOf(out).limit = RoomOf(ch).limit
      BY <1>1, <2>2, RoomFields
    <2> QED
      BY <2>1, <2>3, <2>4, RoomLess, Zenon
  <1>4. RoomOf(ch) # NULL /\ RoomOf(NULL) = NULL
    BY RoomType DEF RoomOf
  <1> HIDE DEF g
  <1>5. RoomOf(RemoveIfEmpty(out)) = Talk!Without(RoomOf(ch), g)
    BY <1>2, <1>3, <1>4 DEF RemoveIfEmpty, Talk!Without
  <1> QED
    BY <1>5 DEF g, out

-----------------------------------------------------------------------------
(* How a step that keeps the client tables shows in the chat.              *)

LEMMA SessionsKept == UNCHANGED tables => SessionBar' = SessionBar
  BY DEF tables, SessionBar, SessionOf, Obj

LEMMA RoomsKept ==
  UNCHANGED <<clientsByFd, channels>> => RoomBar' = RoomBar
  BY DEF RoomBar, RoomOf, FdsOf

LEMMA RoomReplaced ==
  ASSUME TypeOK, UNCHANGED clientsByFd, NEW c \in Chan, NEW new,
         channels' = [channels EXCEPT ![c] = new]
  PROVE  RoomBar' = [RoomBar EXCEPT ![c] = RoomOf(new)]
  <1>1. RoomBar' = [d \in Chan |-> RoomOf(channels'[d])]
    BY DEF RoomBar, RoomOf, FdsOf
  <1>2. \A d \in Chan : channels'[d] = IF d = c THEN new ELSE channels[d]
    BY DEF TypeOK
  <1>3. \A d \in Chan : RoomOf(channels'[d]) =
                        IF d = c THEN RoomOf(new) ELSE RoomOf(channels[d])
    BY <1>2
  <1> QED
    BY <1>1, <1>3, Zenon DEF RoomBar

(* With no handler in progress the chat is quiet, and PRIVMSG asks for     *)
(* nothing the chat knows.                                                 *)
LEMMA NoQuiet ==
  /\ job.cmd \notin {"JOIN", "KICK", "MODE"} => Talk!Quiet
  /\ job = NoJob => Talk!Quiet
  /\ job'.cmd \notin {"JOIN", "KICK", "MODE"} => RequestBar' = NULL
  /\ job' = NoJob => RequestBar' = NULL
  /\ job' = job => RequestBar' = RequestBar
  <1>1. /\ RequestBar = RequestOf(job) /\ RequestBar' = RequestOf(job')
        /\ \A j : j.cmd \notin {"JOIN", "KICK", "MODE"} => RequestOf(j) = NULL
    BY DEF RequestBar, RequestOf
  <1> QED
    BY <1>1, NoJobFacts DEF Talk!Quiet

(* A registered client is a registered session.                            *)
LEMMA RegisteredSession ==
  ASSUME Base, NEW f \in Fd, clientsByFd[f] # NULL, Obj(f).registered
  PROVE  Talk!Registered(f)
  BY SessionType DEF Talk!Registered, SessionBar

(* Those who govern a room are the members of the channel with the rank.   *)
LEMMA OperatorGoverns ==
  ASSUME Base, NEW f \in Fd, NEW c \in Chan
  PROVE  Talk!Governs(f, c) <=>
           /\ channels[c] # NULL
           /\ clientsByFd[f] \in channels[c].members \cap channels[c].operators
  <1>1. CASE channels[c] = NULL
    BY <1>1 DEF Talk!Governs, RoomBar, RoomOf
  <1>2. CASE channels[c] # NULL
    <2> DEFINE ch == channels[c]
    <2>1. ch \in ChannelObject /\ RoomBar[c] = RoomOf(ch)
      BY <1>2 DEF Base, TypeOK, RoomBar
    <2>2. f \in FdsOf(ch.members) \cap FdsOf(ch.operators)
            <=> clientsByFd[f] \in ch.members \cap ch.operators
      BY DEF FdsOf
    <2> HIDE DEF ch
    <2>3. /\ RoomBar[c] # NULL /\ RoomBar[c].members = FdsOf(ch.members)
          /\ RoomBar[c].operators = FdsOf(ch.operators)
      BY <2>1, RoomType, RoomFields
    <2> QED
      BY <1>2, <2>2, <2>3 DEF Talk!Governs, ch
  <1> QED
    BY <1>1, <1>2

-----------------------------------------------------------------------------
(* Connections and registration.                                           *)

(* addNewClient connects.                                                  *)
LEMMA AddConnects ==
  ASSUME Base, ChannelsOK, NEW f \in Fd, NEW a \in Addr, AddNewClient(f, a)
  PROVE  Talk!Connect(f)
  <1>1. /\ clientsByFd \in [Fd -> Addr \cup {NULL}]
        /\ client \in [Addr -> ClientObject \cup {NULL}]
        /\ NULL \notin Addr
    BY NamesAssumption DEF Base, TypeOK
  <1>2. /\ job = NoJob /\ job' = job /\ channels' = channels
        /\ clientsByFd[f] = NULL /\ a \notin Live
        /\ clientsByFd' = [clientsByFd EXCEPT ![f] = a]
        /\ client' = [client EXCEPT ![a] = NewClient(f)]
    BY DEF AddNewClient, Live
  <1>3. SessionBar' = [SessionBar EXCEPT ![f] = Talk!Unused]
    <2>1. SessionOf(f)' = Talk!Unused
      BY <1>1, <1>2 DEF SessionOf, Obj, NewClient, Talk!Unused
    <2>2. ASSUME NEW g \in Fd \ {f} PROVE SessionOf(g)' = SessionOf(g)
      <3>1. CASE clientsByFd[g] = NULL
        BY <1>1, <1>2, <3>1 DEF SessionOf
      <3>2. CASE clientsByFd[g] # NULL
        <4>1. clientsByFd[g] \in Addr /\ clientsByFd[g] \in Live
          BY <3>2, ReceiverLive DEF Base
        <4>2. clientsByFd'[g] = clientsByFd[g] /\ clientsByFd[g] # a
          BY <1>1, <1>2, <4>1
        <4>3. Obj(g)' = Obj(g)
          BY <1>1, <1>2, <4>1, <4>2 DEF Obj
        <4> QED
          BY <4>2, <4>3 DEF SessionOf
      <3> QED
        BY <3>1, <3>2
    <2> QED
      BY <2>1, <2>2 DEF SessionBar
  <1>4. RoomBar' = RoomBar
    <2>1. ASSUME NEW S \in SUBSET Live PROVE FdsOf(S)' = FdsOf(S)
      BY <1>1, <1>2 DEF FdsOf, Live
    <2>2. ASSUME NEW c \in Chan PROVE RoomOf(channels[c])' = RoomOf(channels[c])
      <3>1. CASE channels[c] = NULL
        BY <1>2, <3>1 DEF RoomOf
      <3>2. CASE channels[c] # NULL
        <4> DEFINE ch == channels[c]
        <4>1. /\ ch.members \in SUBSET Live /\ ch.operators \in SUBSET Live
              /\ ch.invited \in SUBSET Live
          BY <3>2 DEF ChannelsOK, Rightful, Open
        <4>2. ch' = ch
          BY <1>2
        <4> HIDE DEF ch
        <4>3. FdsOf(ch.members)' = FdsOf(ch.members)
          BY <2>1, <4>1, <4>2 DEF FdsOf
        <4>4. FdsOf(ch.operators)' = FdsOf(ch.operators)
          BY <2>1, <4>1, <4>2 DEF FdsOf
        <4>5. FdsOf(ch.invited)' = FdsOf(ch.invited)
          BY <2>1, <4>1, <4>2 DEF FdsOf
        <4>6. RoomOf(ch)' = RoomOf(ch)
          BY <4>2, <4>3, <4>4, <4>5, Zenon DEF RoomOf
        <4> QED
          BY <4>6 DEF ch
      <3> QED
        BY <3>1, <3>2
    <2> QED
      BY <1>2, <2>2 DEF RoomBar
  <1>5. Talk!Quiet /\ RequestBar' = RequestBar /\ SessionBar[f] = NULL
    BY <1>2, NoQuiet DEF SessionBar, SessionOf
  <1> QED
    BY <1>3, <1>4, <1>5 DEF Talk!Connect

(* removeClient disconnects: it empties the session and strips it from     *)
(* every room.                                                             *)
LEMMA RemoveDisconnects ==
  ASSUME Base, ChannelsOK, NEW f \in Fd, RemoveClient(f)
  PROVE  Talk!Disconnect(f)
  <1> DEFINE a == clientsByFd[f]
  <1>1. /\ clientsByFd \in [Fd -> Addr \cup {NULL}]
        /\ client \in [Addr -> ClientObject \cup {NULL}]
        /\ channels \in [Chan -> ChannelObject \cup {NULL}]
        /\ NULL \notin Addr
    BY NamesAssumption DEF Base, TypeOK
  <1>2. /\ job = NoJob /\ job' = job
        /\ clientsByFd' = [clientsByFd EXCEPT ![f] = NULL]
        /\ client' = [client EXCEPT ![a] = NULL]
        /\ channels' = [c \in Chan |->
             IF channels[c] = NULL THEN NULL
             ELSE RemoveIfEmpty(RemoveFromChannel(channels[c], a))]
    BY DEF RemoveClient, Receives, ForgetFd
  <1>3. a \in Live /\ a \in Addr /\ client[a].socketFd = f /\ a # NULL
    BY ReceiverLive DEF Base, RemoveClient, Receives, Obj
  <1>4. SessionBar' = [SessionBar EXCEPT ![f] = NULL]
    <2>1. SessionOf(f)' = NULL
      BY <1>1, <1>2 DEF SessionOf
    <2>2. ASSUME NEW g \in Fd \ {f} PROVE SessionOf(g)' = SessionOf(g)
      <3>1. CASE clientsByFd[g] = NULL
        BY <1>1, <1>2, <3>1 DEF SessionOf
      <3>2. CASE clientsByFd[g] # NULL
        <4>1. clientsByFd[g] \in Addr /\ Obj(g).socketFd = g
          BY <3>2, ReceiverLive DEF Base
        <4>2. clientsByFd'[g] = clientsByFd[g] /\ clientsByFd[g] # a
          BY <1>1, <1>2, <1>3, <4>1 DEF Obj
        <4>3. Obj(g)' = Obj(g)
          BY <1>1, <1>2, <4>1, <4>2 DEF Obj
        <4> QED
          BY <4>2, <4>3 DEF SessionOf
      <3> QED
        BY <3>1, <3>2
    <2> QED
      BY <2>1, <2>2 DEF SessionBar
  <1>5. ASSUME NEW c \in Chan
        PROVE  RoomOf(channels[c])' = Talk!Without(RoomOf(channels[c]), f)
    <2>1. CASE channels[c] = NULL
      BY <1>2, <2>1 DEF RoomOf, Talk!Without
    <2>2. CASE channels[c] # NULL
      <3> DEFINE ch  == channels[c]
                 out == RemoveFromChannel(ch, a)
                 new == RemoveIfEmpty(out)
      <3>1. ch \in ChannelObject /\ ch.members \subseteq Live
        BY <1>1, <2>2 DEF ChannelsOK, Rightful, Open
      <3>2. /\ out.members \in SUBSET (Addr \ {a})
            /\ out.operators \in SUBSET (Addr \ {a})
            /\ out.invited \in SUBSET (Addr \ {a})
        BY <3>1 DEF RemoveFromChannel, ChannelObject
      <3>3. channels'[c] = new
        BY <1>2, <2>2
      <3>4. RoomOf(new) = Talk!Without(RoomOf(ch), f)
        BY <1>3, <3>1, WithoutRoom
      <3>5. ASSUME NEW S \in SUBSET (Addr \ {a})
            PROVE  {g \in Fd : clientsByFd'[g] \in S} = FdsOf(S)
        BY <1>1, <1>2 DEF FdsOf
      <3>6. new # NULL => new = out
        BY DEF RemoveIfEmpty
      <3> HIDE DEF new, out, ch
      <3>7. RoomOf(channels[c])' = RoomOf(new)
        <4>1. CASE new = NULL
          BY <3>3, <4>1 DEF RoomOf
        <4>2. CASE new # NULL
          <5>1. /\ {g \in Fd : clientsByFd'[g] \in new.members} = FdsOf(new.members)
                /\ {g \in Fd : clientsByFd'[g] \in new.operators} = FdsOf(new.operators)
                /\ {g \in Fd : clientsByFd'[g] \in new.invited} = FdsOf(new.invited)
            BY <3>2, <3>5, <3>6, <4>2
          <5> QED
            BY <3>3, <5>1, Zenon DEF RoomOf, FdsOf
        <4> QED
          BY <4>1, <4>2
      <3> QED
        BY <3>4, <3>7 DEF ch
    <2> QED
      BY <2>1, <2>2
  <1>6. RoomBar' = [c \in Chan |-> Talk!Without(RoomBar[c], f)]
    BY <1>5, Zenon DEF RoomBar
  <1>7. Talk!Quiet /\ RequestBar' = RequestBar /\ SessionBar[f] # NULL
    BY <1>2, <1>3, NoQuiet, SessionType DEF SessionBar
  <1> QED
    BY <1>4, <1>6, <1>7 DEF Talk!Disconnect

(* PASS, NICK and USER identify: a name that is taken is nobody else's.    *)
LEMMA StoresIdentifies ==
  ASSUME Base, NickTableExact, RegistrationExact, NEW f \in Fd, Stores(f)
  PROVE  Talk!Identify(f)
  <1> DEFINE a == clientsByFd[f]
  <1>1. /\ job = NoJob /\ a # NULL
        /\ clientsByFd' = clientsByFd /\ channels' = channels /\ job' = job
    BY DEF Stores, Receives
  <1>2. /\ a \in Addr /\ a \in Live /\ Obj(f) \in ClientObject
        /\ Obj(f) = client[a]
        /\ client \in [Addr -> ClientObject \cup {NULL}]
    BY <1>1, ReceiverLive DEF Base, TypeOK, Obj
  <1>3. PICK c \in ClientObject :
          /\ c.registered = Obj(f).registered
          /\ client' = [client EXCEPT ![a] = TryRegister(c)]
          /\ \/ c.nickname = Obj(f).nickname
             \/ \E n \in Nick : ~NickTaken(a, n) /\ c.nickname = n
    BY DEF Stores
  <1> DEFINE n == c.nickname
             r == TryRegister(c).registered
  <1>4. /\ TryRegister(c).nickname = n /\ r \in BOOLEAN
        /\ n \in Nick \cup {""} /\ r = (c.registered \/ Complete(c))
    BY TryRegisterType DEF ClientObject
  <1>5. /\ SessionBar[f] # NULL /\ SessionBar[f].nick = Obj(f).nickname
        /\ SessionBar[f].registered = Obj(f).registered
    BY <1>1, SessionType DEF SessionBar
  <1>6. n = SessionBar[f].nick \/ (n \in Nick /\ Talk!NameFree(f, n))
    <2>1. ASSUME n \in Nick, ~NickTaken(a, n), NEW g \in Fd \ {f},
                 clientsByFd[g] # NULL
          PROVE  SessionBar[g].nick # n
      <3> DEFINE b == clientsByFd[g]
      <3>1. b \in Addr /\ b \in Live /\ client[b].socketFd = g
        BY <2>1, ReceiverLive DEF Base, Obj
      <3>2. b # a
        BY <1>1, <2>1, <3>1, ReceiverLive DEF Base, Obj
      <3>3. clientsByNick[n] # b
        BY <2>1, <3>2 DEF NickTaken
      <3>4. client[b].nickname # n
        BY <2>1, <3>1, <3>3 DEF NickTableExact
      <3> QED
        BY <2>1, <3>4, SessionType DEF SessionBar, Obj
    <2>2. \A g \in Fd : SessionBar[g] # NULL => clientsByFd[g] # NULL
      BY DEF SessionBar, SessionOf
    <2> QED
      BY <1>3, <1>5, <2>1, <2>2 DEF Talk!NameFree
  <1>7. SessionBar[f].registered => r
    BY <1>3, <1>4, <1>5
  <1>8. r => n \in Nick
    <2>1. Complete(c) => n # ""
      BY DEF Complete
    <2>2. Obj(f).registered => Obj(f).nickname # ""
      BY <1>2 DEF RegistrationExact, Complete
    <2>3. c.registered => n # ""
      BY <1>3, <2>2, NamesAssumption
    <2> QED
      BY <1>4, <2>1, <2>3
  <1>9. SessionBar' = [SessionBar EXCEPT ![f] = [nick |-> n, registered |-> r]]
    <2>1. SessionOf(f)' = [nick |-> n, registered |-> r]
      BY <1>1, <1>2, <1>3, <1>4 DEF SessionOf, Obj
    <2>2. ASSUME NEW g \in Fd \ {f} PROVE SessionOf(g)' = SessionOf(g)
      <3>1. CASE clientsByFd[g] = NULL
        BY <1>1, <3>1 DEF SessionOf
      <3>2. CASE clientsByFd[g] # NULL
        <4>1. clientsByFd[g] \in Addr /\ clientsByFd[g] # a
          BY <1>1, <3>2, ReceiverLive DEF Base, Obj
        <4>2. Obj(g)' = Obj(g)
          BY <1>1, <1>2, <1>3, <4>1 DEF Obj
        <4> QED
          BY <1>1, <4>2 DEF SessionOf
      <3> QED
        BY <3>1, <3>2
    <2> QED
      BY <2>1, <2>2 DEF SessionBar
  <1>10. Talk!Quiet /\ RequestBar' = RequestBar /\ RoomBar' = RoomBar
    BY <1>1, NoQuiet, RoomsKept
  <1> HIDE DEF n, r
  <1>11. /\ n \in Nick \cup {""} /\ r \in BOOLEAN
    BY <1>4
  <1> QED
    BY <1>5, <1>6, <1>7, <1>8, <1>9, <1>10, <1>11 DEF Talk!Identify

-----------------------------------------------------------------------------
(* Turns of JOIN and KICK.                                                 *)

(* The rooms and keys of JOIN, in step as the loop consumes both lists.    *)
LEMMA DoorsFacts ==
  ASSUME NEW todo \in Seq(Token), NEW keys \in Seq(Param), todo # <<>>
  PROVE  /\ Doors(todo, keys) \in Seq([room: Token, word: Token])
         /\ Len(Doors(todo, keys)) = Len(todo)
         /\ Head(Doors(todo, keys)).room = Head(todo)
         /\ Head(Doors(todo, keys)).word = IF keys # <<>> THEN Head(keys) ELSE ""
         /\ Tail(Doors(todo, keys)) = Doors(Tail(todo), TailOf(keys))
  <1> DEFINE s == Doors(todo, keys)
  <1>1. ASSUME NEW i \in Nat \ {0} PROVE KeyAt(keys, i) \in Token
    <2>1. i <= Len(keys) => keys[i] \in Param
      OBVIOUS
    <2> QED
      BY <2>1 DEF KeyAt, Token, Param
  <1>2. /\ s = [i \in 1 .. Len(todo) |-> [room |-> todo[i], word |-> KeyAt(keys, i)]]
        /\ Len(todo) \in Nat \ {0}
    BY DEF Doors
  <1>3. s \in Seq([room: Token, word: Token]) /\ Len(s) = Len(todo)
    <2>1. \A i \in 1 .. Len(todo) :
            [room |-> todo[i], word |-> KeyAt(keys, i)] \in [room: Token, word: Token]
      BY <1>1
    <2> HIDE DEF s
    <2> QED
      BY <1>2, <2>1
  <1>4. s[1] = [room |-> Head(todo), word |-> KeyAt(keys, 1)]
    BY <1>2
  <1>5. KeyAt(keys, 1) = IF keys # <<>> THEN Head(keys) ELSE ""
    <2>1. 1 <= Len(keys) <=> keys # <<>>
      OBVIOUS
    <2>2. keys # <<>> => Head(keys) = keys[1]
      OBVIOUS
    <2> QED
      BY <2>1, <2>2, Zenon DEF KeyAt
  <1>6. Tail(s) = Doors(Tail(todo), TailOf(keys))
    <2>1. ASSUME NEW i \in Nat \ {0}
          PROVE  KeyAt(TailOf(keys), i) = KeyAt(keys, i + 1)
      <3>1. CASE keys = <<>>
        <4>1. TailOf(keys) = keys
          BY <3>1 DEF TailOf
        <4>2. ~(i <= Len(keys)) /\ ~(i + 1 <= Len(keys))
          BY <3>1
        <4> QED
          BY <4>1, <4>2, Zenon DEF KeyAt
      <3>2. CASE keys # <<>>
        <4>1. TailOf(keys) = Tail(keys)
          BY <3>2 DEF TailOf
        <4>2. /\ i <= Len(Tail(keys)) <=> i + 1 <= Len(keys)
              /\ i <= Len(Tail(keys)) => Tail(keys)[i] = keys[i + 1]
          BY <3>2
        <4> QED
          BY <4>1, <4>2, Zenon DEF KeyAt
      <3> QED
        BY <3>1, <3>2
    <2>2. /\ Tail(todo) \in Seq(Token) /\ Len(Tail(todo)) = Len(todo) - 1
          /\ \A i \in 1 .. Len(todo) - 1 : Tail(todo)[i] = todo[i + 1]
      OBVIOUS
    <2> HIDE DEF s
    <2>3. Tail(s) = [i \in 1 .. Len(todo) - 1 |-> s[i + 1]]
      BY <1>2, <1>3
    <2>4. \A i \in 1 .. Len(todo) - 1 :
            s[i + 1] = [room |-> Tail(todo)[i], word |-> KeyAt(TailOf(keys), i)]
      BY <1>2, <2>1, <2>2
    <2> QED
      BY <2>2, <2>3, <2>4 DEF Doors
  <1> HIDE DEF s
  <1>7. Head(s) = s[1]
    BY <1>2, <1>3
  <1>8. Head(s).room = Head(todo) /\ Head(s).word = KeyAt(keys, 1)
    BY <1>4, <1>7
  <1> QED
    BY <1>3, <1>5, <1>6, <1>8, Zenon DEF s

(* The names of KICK, each with the channel of the command.                *)
LEMMA NamesFacts ==
  ASSUME NEW c \in Token, NEW todo \in Seq(Token), todo # <<>>
  PROVE  /\ Names(c, todo) \in Seq([room: Token, word: Token])
         /\ Len(Names(c, todo)) = Len(todo)
         /\ Head(Names(c, todo)) = [room |-> c, word |-> Head(todo)]
         /\ Tail(Names(c, todo)) = Names(c, Tail(todo))
  <1> DEFINE s == Names(c, todo)
  <1>1. /\ s = [i \in 1 .. Len(todo) |-> [room |-> c, word |-> todo[i]]]
        /\ s \in Seq([room: Token, word: Token]) /\ Len(s) = Len(todo)
        /\ Len(todo) \in Nat \ {0}
    BY DEF Names
  <1>2. s[1] = [room |-> c, word |-> Head(todo)]
    BY <1>1
  <1>3. Tail(s) = Names(c, Tail(todo))
    <2>1. /\ Tail(todo) \in Seq(Token) /\ Len(Tail(todo)) = Len(todo) - 1
          /\ \A i \in 1 .. Len(todo) - 1 : Tail(todo)[i] = todo[i + 1]
      OBVIOUS
    <2> HIDE DEF s
    <2>2. Tail(s) = [i \in 1 .. Len(todo) - 1 |-> s[i + 1]]
      BY <1>1
    <2>3. \A i \in 1 .. Len(todo) - 1 : s[i + 1] = [room |-> c, word |-> Tail(todo)[i]]
      BY <1>1, <2>1
    <2> QED
      BY <2>1, <2>2, <2>3 DEF Names
  <1> HIDE DEF s
  <1>4. Head(s) = s[1]
    BY <1>1
  <1> QED
    BY <1>1, <1>2, <1>3, <1>4 DEF s

(* A handler of JOIN, KICK or MODE is a request, of its caller.            *)
Asking(j) ==
  /\ j \in Job /\ j.fd \in Fd /\ j.cmd \in {"JOIN", "KICK", "MODE"}
  /\ j.cmd \in {"KICK", "MODE"} => j.chan \in Chan
  /\ j.cmd # "MODE" => j.todo # <<>>

LEMMA RequestType ==
  ASSUME NEW j, Asking(j)
  PROVE  /\ RequestOf(j) \in Talk!Request /\ RequestOf(j) # NULL
         /\ RequestOf(j).cmd = j.cmd /\ RequestOf(j).by = j.fd
         /\ RequestOf(j).list = ListOf(j) /\ ListOf(j) # <<>>
  <1>1. /\ j.todo \in Seq(Token) /\ j.params \in Seq(Param)
        /\ Chan \subseteq Token /\ "" \in Token
    BY JobFields DEF Asking, Token, Param
  <1>2. /\ RequestOf(j) = [cmd |-> j.cmd, by |-> j.fd, list |-> ListOf(j)]
        /\ j.fd \in Fd /\ j.cmd \in {"JOIN", "KICK", "MODE"}
    BY DEF RequestOf, Asking
  <1>3. ListOf(j) \in Seq([room: Token, word: Token]) /\ ListOf(j) # <<>>
    <2>1. ASSUME NEW s \in Seq([room: Token, word: Token]),
                 NEW t \in Seq(Token), Len(s) = Len(t), t # <<>>
          PROVE  s # <<>>
      <3>1. Len(t) # 0
        BY <2>1
      <3> QED
        BY <2>1, <3>1
    <2>2. CASE j.cmd = "JOIN"
      <3>1. j.todo # <<>> /\ ListOf(j) = Doors(j.todo, j.params)
        BY <2>2 DEF Asking, ListOf
      <3>2. /\ ListOf(j) \in Seq([room: Token, word: Token])
            /\ Len(ListOf(j)) = Len(j.todo)
        <4> DEFINE t == j.todo
                   k == j.params
        <4>1. /\ t \in Seq(Token) /\ k \in Seq(Param) /\ t # <<>>
              /\ ListOf(j) = Doors(t, k)
          BY <1>1, <3>1
        <4> HIDE DEF t, k
        <4>2. /\ Doors(t, k) \in Seq([room: Token, word: Token])
              /\ Len(Doors(t, k)) = Len(t)
          BY <4>1, DoorsFacts
        <4> QED
          BY <4>1, <4>2 DEF t
      <3> QED
        BY <1>1, <2>1, <3>1, <3>2
    <2>3. CASE j.cmd = "KICK"
      <3>1. /\ j.todo # <<>> /\ ListOf(j) = Names(j.chan, j.todo)
            /\ j.chan \in Token
        BY <1>1, <2>3 DEF Asking, ListOf
      <3>2. /\ ListOf(j) \in Seq([room: Token, word: Token])
            /\ Len(ListOf(j)) = Len(j.todo)
        <4> DEFINE t == j.todo
                   c == j.chan
        <4>1. /\ t \in Seq(Token) /\ c \in Token /\ t # <<>>
              /\ ListOf(j) = Names(c, t)
          BY <1>1, <3>1
        <4> HIDE DEF t, c
        <4>2. /\ Names(c, t) \in Seq([room: Token, word: Token])
              /\ Len(Names(c, t)) = Len(t)
          BY <4>1, NamesFacts
        <4> QED
          BY <4>1, <4>2 DEF t
      <3> QED
        BY <1>1, <2>1, <3>1, <3>2
    <2>4. CASE j.cmd = "MODE"
      <3>1. j.chan \in Token /\ ListOf(j) = <<[room |-> j.chan, word |-> ""]>>
        BY <1>1, <2>4 DEF Asking, ListOf
      <3> DEFINE e == [room |-> j.chan, word |-> ""]
      <3>2. e \in [room: Token, word: Token] /\ ListOf(j) = <<e>>
        BY <1>1, <3>1
      <3> HIDE DEF e
      <3> QED
        BY <3>2
    <2> QED
      BY <1>2, <2>2, <2>3, <2>4
  <1>4. RequestOf(j) \in Talk!Request
    <2> DEFINE list == ListOf(j)
               cmd  == j.cmd
               by   == j.fd
    <2>1. RequestOf(j) = [cmd |-> cmd, by |-> by, list |-> list]
      BY <1>2
    <2>2. /\ by \in Fd /\ cmd \in {"JOIN", "KICK", "MODE"}
          /\ list \in Seq([room: Token, word: Token])
      BY <1>2, <1>3
    <2> HIDE DEF list, cmd, by
    <2> QED
      BY <2>1, <2>2 DEF Talk!Request
  <1> QED
    BY <1>2, <1>3, <1>4, NothingAssumption

(* The turn of JOIN at hand is for the current channel with its key, that  *)
(* of KICK for the current name, that of MODE for the channel of the line. *)
LEMMA AskedNow ==
  ASSUME Base, job.cmd \in {"JOIN", "KICK", "MODE"}
  PROVE  /\ Talk!Asks(job.cmd) /\ RequestBar.by = job.fd
         /\ job.cmd = "JOIN" => /\ Talk!Asked.room = Current
                                /\ Talk!Asked.word = JoinKey
         /\ job.cmd = "KICK" => /\ Talk!Asked.room = job.chan
                                /\ Talk!Asked.word = Current
         /\ job.cmd = "MODE" => Talk!Asked.room = job.chan
  <1>1. Asking(job)
    BY NoJobFacts DEF Base, TypeOK, JobOK, Asking
  <1>2. /\ RequestBar # NULL /\ RequestBar.cmd = job.cmd
        /\ RequestBar.by = job.fd /\ RequestBar.list = ListOf(job)
    BY <1>1, RequestType DEF RequestBar
  <1>3. /\ job.todo \in Seq(Token) /\ job.params \in Seq(Param)
        /\ Chan \subseteq Token
    BY <1>1, JobFields DEF Asking, Token
  <1>4. Talk!Asked = Head(ListOf(job))
    BY <1>2 DEF Talk!Asked
  <1>5. CASE job.cmd = "JOIN"
    <2>1. job.todo # <<>> /\ ListOf(job) = Doors(job.todo, job.params)
      BY <1>1, <1>5 DEF Asking, ListOf
    <2> QED
      BY <1>2, <1>3, <1>4, <1>5, <2>1, DoorsFacts
         DEF Talk!Asks, Current, JoinKey, HasParam
  <1>6. CASE job.cmd = "KICK"
    <2>1. /\ job.todo # <<>> /\ ListOf(job) = Names(job.chan, job.todo)
          /\ job.chan \in Token
      BY <1>1, <1>3, <1>6 DEF Asking, ListOf
    <2> QED
      BY <1>2, <1>3, <1>4, <1>6, <2>1, NamesFacts DEF Talk!Asks, Current
  <1>7. CASE job.cmd = "MODE"
    <2>1. ListOf(job) = <<[room |-> job.chan, word |-> ""]>>
      BY <1>7 DEF ListOf
    <2> DEFINE e == [room |-> job.chan, word |-> ""]
    <2>2. Talk!Asked = e
      <3>1. Talk!Asked = Head(<<e>>)
        BY <1>4, <2>1
      <3> HIDE DEF e
      <3> QED
        BY <3>1
    <2>3. Talk!Asked.room = job.chan
      BY <2>2
    <2> QED
      BY <1>2, <1>7, <2>3 DEF Talk!Asks
  <1> QED
    BY <1>5, <1>6, <1>7

(* The end of a turn of JOIN or KICK is the answer to one entry.           *)
LEMMA AnswersOne ==
  ASSUME Base, NextTurn, job.cmd \in {"JOIN", "KICK"}, SessionBar' = SessionBar
  PROVE  Talk!Answer
  <1>1. Asking(job)
    BY NoJobFacts DEF Base, TypeOK, JobOK, Asking
  <1>2. /\ RequestBar = [cmd |-> job.cmd, by |-> job.fd, list |-> ListOf(job)]
        /\ RequestBar' = RequestOf(job')
    BY <1>1 DEF RequestBar, RequestOf
  <1>3. /\ job.todo \in Seq(Token) /\ job.params \in Seq(Param)
        /\ job.todo # <<>> /\ Chan \subseteq Token /\ job \in Job
    BY <1>1, JobFields DEF Asking, Token
  <1> DEFINE rest == [job EXCEPT !.todo = Tail(@), !.params = TailOf(@)]
  <1>4. /\ rest.cmd = job.cmd /\ rest.fd = job.fd /\ rest.chan = job.chan
        /\ rest.todo = Tail(job.todo) /\ rest.params = TailOf(job.params)
    BY <1>3 DEF Job
  <1>5. job' = IF Len(job.todo) = 1 THEN NoJob ELSE rest
    BY DEF NextTurn
  <1> HIDE DEF rest
  <1>6. Len(ListOf(job)) = Len(job.todo) /\ ListOf(rest) = Tail(ListOf(job))
    <2>1. CASE job.cmd = "JOIN"
      <3>1. /\ ListOf(job) = Doors(job.todo, job.params)
            /\ ListOf(rest) = Doors(Tail(job.todo), TailOf(job.params))
        BY <1>4, <2>1 DEF ListOf
      <3> QED
        BY <1>3, <3>1, DoorsFacts
    <2>2. CASE job.cmd = "KICK"
      <3>1. /\ ListOf(job) = Names(job.chan, job.todo)
            /\ ListOf(rest) = Names(job.chan, Tail(job.todo))
            /\ job.chan \in Token
        BY <1>1, <1>3, <1>4, <2>2 DEF ListOf, Asking
      <3> QED
        BY <1>3, <3>1, NamesFacts
    <2> QED
      BY <2>1, <2>2
  <1>7. RequestOf(rest) = [cmd |-> job.cmd, by |-> job.fd, list |-> Tail(ListOf(job))]
    BY <1>4, <1>6 DEF RequestOf
  <1>8. RequestOf(NoJob) = NULL
    BY NoJobFacts DEF RequestOf
  <1>9. RequestBar' = IF Len(RequestBar.list) = 1 THEN NULL
                     ELSE [RequestBar EXCEPT !.list = Tail(@)]
    BY <1>2, <1>5, <1>6, <1>7, <1>8
  <1> QED
    BY <1>9 DEF Talk!Answer

(* The room of a channel one more client is in.                            *)
LEMMA RoomMore ==
  ASSUME Base, NEW ch \in ChannelObject, NEW a \in Live
  PROVE  /\ RoomOf(AddMember(ch, a)) =
              [RoomOf(ch) EXCEPT !.members = @ \cup {client[a].socketFd}]
         /\ RoomOf(AddInvitedMember(ch, a)) =
              [RoomOf(ch) EXCEPT !.invited = @ \cup {client[a].socketFd}]
  <1>1. a \in Addr
    BY DEF Live
  <1>2. /\ AddMember(ch, a) \in ChannelObject
        /\ AddInvitedMember(ch, a) \in ChannelObject
    BY <1>1 DEF AddMember, AddInvitedMember, ChannelObject
  <1>3. /\ RoomOf(ch) \in Talk!Room /\ RoomOf(AddMember(ch, a)) \in Talk!Room
        /\ RoomOf(AddInvitedMember(ch, a)) \in Talk!Room
    BY <1>2, RoomType
  <1>4. \A S : FdsOf(S \cup {a}) = FdsOf(S) \cup {client[a].socketFd}
    BY FdsFacts
  <1>5. ASSUME NEW r \in Talk!Room, NEW s \in Talk!Room, NEW g,
               s.operators = r.operators, s.topic = r.topic,
               s.inviteOnly = r.inviteOnly,
               s.topicRestricted = r.topicRestricted,
               s.key = r.key, s.limit = r.limit
        PROVE  /\ s.members = r.members \cup {g} /\ s.invited = r.invited
                    => s = [r EXCEPT !.members = @ \cup {g}]
               /\ s.invited = r.invited \cup {g} /\ s.members = r.members
                    => s = [r EXCEPT !.invited = @ \cup {g}]
    BY <1>5 DEF Talk!Room
  <1>6. LET s == AddMember(ch, a)
        IN  /\ RoomOf(s).members = FdsOf(ch.members) \cup {client[a].socketFd}
            /\ RoomOf(s).operators = RoomOf(ch).operators
            /\ RoomOf(s).invited = RoomOf(ch).invited
            /\ RoomOf(s).topic = RoomOf(ch).topic
            /\ RoomOf(s).inviteOnly = RoomOf(ch).inviteOnly
            /\ RoomOf(s).topicRestricted = RoomOf(ch).topicRestricted
            /\ RoomOf(s).limit = RoomOf(ch).limit
            /\ RoomOf(s).key = RoomOf(ch).key
    <2> DEFINE s == AddMember(ch, a)
    <2>1. /\ s.members = ch.members \cup {a} /\ s.operators = ch.operators
          /\ s.invited = ch.invited /\ s.topic = ch.topic
          /\ s.inviteOnly = ch.inviteOnly
          /\ s.topicRestricted = ch.topicRestricted
          /\ s.channelProtected = ch.channelProtected
          /\ s.channelPass = ch.channelPass
          /\ s.memberLimited = ch.memberLimited /\ s.maxMember = ch.maxMember
          /\ s \in ChannelObject
      BY <1>2 DEF AddMember, ChannelObject
    <2> HIDE DEF s
    <2>2. RoomOf(s).key = RoomOf(ch).key
      BY <2>1, RoomType DEF RoomOf
    <2>3. FdsOf(s.members) = FdsOf(ch.members) \cup {client[a].socketFd}
      BY <1>4, <2>1, Zenon
    <2>4. /\ RoomOf(s).members = FdsOf(s.members)
          /\ RoomOf(s).operators = RoomOf(ch).operators
          /\ RoomOf(s).invited = RoomOf(ch).invited
          /\ RoomOf(s).topic = RoomOf(ch).topic
          /\ RoomOf(s).inviteOnly = RoomOf(ch).inviteOnly
          /\ RoomOf(s).topicRestricted = RoomOf(ch).topicRestricted
          /\ RoomOf(s).limit = RoomOf(ch).limit
      BY <2>1, RoomFields
    <2> QED
      BY <2>2, <2>3, <2>4 DEF s
  <1>7. LET s == AddInvitedMember(ch, a)
        IN  /\ RoomOf(s).invited = FdsOf(ch.invited) \cup {client[a].socketFd}
            /\ RoomOf(s).operators = RoomOf(ch).operators
            /\ RoomOf(s).members = RoomOf(ch).members
            /\ RoomOf(s).topic = RoomOf(ch).topic
            /\ RoomOf(s).inviteOnly = RoomOf(ch).inviteOnly
            /\ RoomOf(s).topicRestricted = RoomOf(ch).topicRestricted
            /\ RoomOf(s).limit = RoomOf(ch).limit
            /\ RoomOf(s).key = RoomOf(ch).key
    <2> DEFINE s == AddInvitedMember(ch, a)
    <2>1. /\ s.invited = ch.invited \cup {a} /\ s.operators = ch.operators
          /\ s.members = ch.members /\ s.topic = ch.topic
          /\ s.inviteOnly = ch.inviteOnly
          /\ s.topicRestricted = ch.topicRestricted
          /\ s.channelProtected = ch.channelProtected
          /\ s.channelPass = ch.channelPass
          /\ s.memberLimited = ch.memberLimited /\ s.maxMember = ch.maxMember
          /\ s \in ChannelObject
      BY <1>2 DEF AddInvitedMember, ChannelObject
    <2> HIDE DEF s
    <2>2. RoomOf(s).key = RoomOf(ch).key
      BY <2>1, RoomType DEF RoomOf
    <2>3. FdsOf(s.invited) = FdsOf(ch.invited) \cup {client[a].socketFd}
      BY <1>4, <2>1, Zenon
    <2>4. /\ RoomOf(s).invited = FdsOf(s.invited)
          /\ RoomOf(s).operators = RoomOf(ch).operators
          /\ RoomOf(s).members = RoomOf(ch).members
          /\ RoomOf(s).topic = RoomOf(ch).topic
          /\ RoomOf(s).inviteOnly = RoomOf(ch).inviteOnly
          /\ RoomOf(s).topicRestricted = RoomOf(ch).topicRestricted
          /\ RoomOf(s).limit = RoomOf(ch).limit
      BY <2>1, RoomFields
    <2> QED
      BY <2>2, <2>3, <2>4 DEF s
  <1>8. /\ RoomOf(ch).members = FdsOf(ch.members)
        /\ RoomOf(ch).invited = FdsOf(ch.invited)
    BY RoomFields
  <1> QED
    BY <1>3, <1>5, <1>6, <1>7, <1>8

(* Chat counts as the command core does.                                   *)
LEMMA SameCount == \A S : Talk!Cardinality(S) = Cardinality(S)
  BY DEF Cardinality, Talk!Cardinality

(* A live client is in a set of a channel when its socket is in the room's.*)
LEMMA InRoom ==
  ASSUME Base, NEW ch \in ChannelObject, NEW a \in Live
  PROVE  /\ client[a].socketFd \in RoomOf(ch).members <=> a \in ch.members
         /\ client[a].socketFd \in RoomOf(ch).invited <=> a \in ch.invited
  <1>1. \A S : client[a].socketFd \in FdsOf(S) <=> a \in S
    BY FdsFacts
  <1>2. /\ RoomOf(ch).members = FdsOf(ch.members)
        /\ RoomOf(ch).invited = FdsOf(ch.invited)
    BY RoomFields
  <1> QED
    BY <1>1, <1>2, Zenon

(* The policies of JOIN let a client in exactly when the room does.        *)
LEMMA PolicyExact ==
  ASSUME Base, NEW ch \in ChannelObject, ch.members \subseteq Live,
         NEW a \in Live, NEW key \in Param
  PROVE  Talk!LetsIn(RoomOf(ch), client[a].socketFd, key)
           <=> Barred(ch, a, key) = Accepted
  <1> DEFINE r == RoomOf(ch)
             f == client[a].socketFd
  <1>1. Cardinality(FdsOf(ch.members)) = Cardinality(ch.members)
    BY FdsCount
  <1>2. Cardinality(ch.members) \in Nat
    BY FiniteAddrAssumption, FS_Subset, FS_CardinalityType DEF ChannelObject
  <1>3. ch.maxMember \in Nat
    <2> DEFINE max == ch.maxMember
    <2>1. max \in MemberLimit
      BY DEF ChannelObject
    <2>2. MaxInt \in Nat
      BY NamesAssumption
    <2> HIDE DEF max
    <2>3. max \in Nat
      BY <2>1, <2>2, SMT DEF MemberLimit
    <2> QED
      BY <2>3 DEF max
  <1>4. ~Full(ch) <=>
          (ch.memberLimited => Cardinality(ch.members) < ch.maxMember)
    BY <1>2, <1>3 DEF Full
  <1>5. (r.inviteOnly => f \in r.invited) <=> (ch.inviteOnly => a \in ch.invited)
    BY RoomFields, InRoom
  <1>6. (r.key # NULL => key = r.key)
          <=> (ch.channelProtected => key = ch.channelPass)
    <2>1. ch.channelPass \in Token
      BY DEF ChannelObject, Token
    <2>2. ch.channelPass # NULL
      BY <2>1, NothingAssumption
    <2> QED
      BY <2>2, RoomFields
  <1>7. (r.limit # NULL => Talk!Cardinality(r.members) < r.limit)
          <=> (ch.memberLimited => Cardinality(ch.members) < ch.maxMember)
    <2>1. ch.maxMember # NULL
      BY <1>3, NothingAssumption
    <2>2. /\ r.members = FdsOf(ch.members)
          /\ r.limit = IF ch.memberLimited THEN ch.maxMember ELSE NULL
      BY RoomFields
    <2>3. Talk!Cardinality(r.members) = Cardinality(ch.members)
      BY <1>1, <2>2, SameCount
    <2> HIDE DEF r
    <2> QED
      BY <2>1, <2>2, <2>3
  <1>8. Barred(ch, a, key) = Accepted <=>
          /\ ch.inviteOnly => a \in ch.invited
          /\ ch.channelProtected => key = ch.channelPass
          /\ ~Full(ch)
    BY DEF Barred, Accepted
  <1>9. Talk!LetsIn(r, f, key) <=>
          /\ r.inviteOnly => f \in r.invited
          /\ r.key # NULL => key = r.key
          /\ r.limit # NULL => Talk!Cardinality(r.members) < r.limit
    BY DEF Talk!LetsIn
  <1> HIDE DEF r, f
  <1>10. Talk!LetsIn(r, f, key) <=> Barred(ch, a, key) = Accepted
    BY <1>4, <1>5, <1>6, <1>7, <1>8, <1>9, Zenon
  <1> QED
    BY <1>10 DEF r, f

(* A new channel with its creator is a room just opened.                   *)
LEMMA RoomOpened ==
  ASSUME Base, NEW a \in Live
  PROVE  RoomOf(Admit(NewChannel, a, TRUE)) = Talk!Opened(client[a].socketFd)
  <1> DEFINE ch == Admit(NewChannel, a, TRUE)
  <1>1. /\ ch.members = {a} /\ ch.operators = {a} /\ ch.invited = {}
        /\ ch.topic = "" /\ ch.inviteOnly = FALSE /\ ch.topicRestricted = FALSE
        /\ ch.channelProtected = FALSE /\ ch.memberLimited = FALSE
    BY DEF Admit, AddMember, AddOperator, NewChannel
  <1>2. ch # NULL
    <2>1. a \in Addr /\ "" \in Param
      BY DEF Live, Param
    <2>2. ch \in ChannelObject
      BY <2>1, NewChannelType, ChannelOpsType DEF Admit, AddMember, AddOperator, ChannelObject
    <2> QED
      BY <2>2, NullAssumption
  <1> HIDE DEF ch
  <1>3. FdsOf({a}) = {client[a].socketFd} /\ FdsOf({}) = {}
    BY OneSocket DEF FdsOf
  <1>4. RoomOf(ch) = Talk!Opened(client[a].socketFd)
    BY <1>1, <1>2, <1>3, Zenon DEF RoomOf, Talk!Opened
  <1> QED
    BY <1>4 DEF ch

(* A turn of JOIN opens a room, enters one, or is declined for a reason.   *)
LEMMA JoinTalks ==
  ASSUME Base, ChannelsOK, JoinStep
  PROVE  (\E c \in Chan : Talk!Create(c) \/ Talk!Enter(c)) \/ Talk!Decline
  <1>1. /\ TypeOK /\ UNCHANGED tables /\ NextTurn /\ job.cmd = "JOIN"
        /\ UNCHANGED clientsByFd /\ job # NoJob
    BY NoJobFacts DEF Base, JoinStep, tables, InLoop
  <1>2. SessionBar' = SessionBar
    BY <1>1, SessionsKept
  <1>3. Talk!Answer
    BY <1>1, <1>2, AnswersOne
  <1> DEFINE c == Current
             a == Self
             f == job.fd
             ch == channels[c]
  <1>4. /\ Talk!Asks("JOIN") /\ RequestBar.by = f
        /\ Talk!Asked.room = c /\ Talk!Asked.word = JoinKey
    BY <1>1, AskedNow
  <1>5. a \in Live /\ client[a].socketFd = f
    BY <1>1, SelfLive, ReceiverLive DEF Base, JobOK, Self, Obj
  <1>6. JoinKey \in Param
    <2>1. job.params \in Seq(Param) /\ "" \in Param
      BY <1>1, JobFields DEF TypeOK, Param
    <2> QED
      BY <2>1, ListTails DEF JoinKey, HasParam
  <1>7. ASSUME c \in Chan
        PROVE  /\ RoomBar[c] = RoomOf(ch)
               /\ ch = NULL => RoomBar[c] = NULL
               /\ ch # NULL =>
                    /\ ch \in ChannelObject /\ ch.members \subseteq Live
                    /\ RoomBar[c] # NULL
                    /\ f \in RoomBar[c].members <=> a \in ch.members
                    /\ Talk!LetsIn(RoomBar[c], f, JoinKey)
                         <=> Barred(ch, a, JoinKey) = Accepted
    <2>1. RoomBar[c] = RoomOf(ch) /\ (ch = NULL => RoomOf(ch) = NULL)
      BY <1>7 DEF RoomBar, RoomOf
    <2>2. ch # NULL => ch \in ChannelObject /\ ch.members \subseteq Live
      BY <1>1, <1>7 DEF TypeOK, ChannelsOK, Rightful, Open
    <2> HIDE DEF c, a, f, ch
    <2> QED
      BY <1>5, <1>6, <2>1, <2>2, RoomType, InRoom, PolicyExact
  <1>8. ASSUME UNCHANGED channels, Talk!Unwelcome(c)
        PROVE  Talk!Decline
    <2>1. RoomBar' = RoomBar
      BY <1>1, <1>8, RoomsKept
    <2> QED
      BY <1>3, <1>4, <1>8, <2>1 DEF Talk!Decline
  <1>9. ASSUME c \in Chan, channels[c] = NULL,
               channels' = [channels EXCEPT ![c] = Admit(NewChannel, a, TRUE)]
        PROVE  Talk!Create(c)
    <2>1. RoomBar' = [RoomBar EXCEPT ![c] = Talk!Opened(f)]
      BY <1>1, <1>5, <1>9, RoomReplaced, RoomOpened
    <2>2. RoomBar[c] = NULL
      BY <1>7, <1>9
    <2> HIDE DEF c, f, a, ch
    <2> QED
      BY <1>3, <1>4, <2>1, <2>2 DEF Talk!Create
  <1>10. ASSUME c \in Chan, ch # NULL, a \notin ch.members,
                Barred(ch, a, JoinKey) = Accepted,
                channels' = [channels EXCEPT ![c] = Admit(ch, a, FALSE)]
         PROVE  Talk!Enter(c)
    <2>1. channels' = [channels EXCEPT ![c] = AddMember(ch, a)]
      BY <1>10 DEF Admit
    <2> HIDE DEF c, f, a, ch
    <2>2. /\ ch \in ChannelObject /\ ch.members \subseteq Live
          /\ RoomBar[c] = RoomOf(ch) /\ RoomBar[c] # NULL
          /\ f \notin RoomBar[c].members
          /\ Talk!LetsIn(RoomBar[c], f, JoinKey)
      BY <1>7, <1>10
    <2>3. RoomBar' = [RoomBar EXCEPT ![c] = RoomOf(AddMember(ch, a))]
      BY <1>1, <1>10, <2>1, RoomReplaced
    <2>4. RoomOf(AddMember(ch, a)) = [RoomBar[c] EXCEPT !.members = @ \cup {f}]
      BY <1>5, <2>2, RoomMore
    <2>5. RoomBar' = [RoomBar EXCEPT ![c].members = @ \cup {f}]
      BY <2>3, <2>4
    <2> QED
      BY <1>3, <1>4, <2>2, <2>5 DEF Talk!Enter
  <1>11. \/ UNCHANGED channels /\ c \notin Chan
         \/ /\ UNCHANGED channels /\ c \in Chan
            /\ \/ ch # NULL /\ a \in ch.members
               \/ ch = NULL /\ OutOfMemory
               \/ ch # NULL /\ Barred(ch, a, JoinKey) # Accepted
         \/ /\ c \in Chan /\ ch = NULL
            /\ channels' = [channels EXCEPT ![c] = Admit(NewChannel, a, TRUE)]
         \/ /\ c \in Chan /\ ch # NULL /\ a \notin ch.members
            /\ Barred(ch, a, JoinKey) = Accepted
            /\ channels' = [channels EXCEPT ![c] = Admit(ch, a, FALSE)]
    <2>1. NewChannel.members = {}
      BY DEF NewChannel
    <2> QED
      BY <2>1 DEF JoinStep
  <1> HIDE DEF c, a, f, ch
  <1>12. c \notin Chan => Talk!Unwelcome(c)
    BY DEF Talk!Unwelcome
  <1>13. ASSUME c \in Chan,
                \/ ch # NULL /\ a \in ch.members
                \/ ch = NULL /\ OutOfMemory
                \/ ch # NULL /\ Barred(ch, a, JoinKey) # Accepted
         PROVE  Talk!Unwelcome(c)
    BY <1>4, <1>7, <1>13 DEF Talk!Unwelcome
  <1> QED
    BY <1>8, <1>9, <1>10, <1>11, <1>12, <1>13 DEF ch

(* A member of a room that carries a name is the client the nickname table *)
(* has under it.                                                           *)
LEMMA MemberNamed ==
  ASSUME Base, NickTableExact, RegistrationExact, ChannelsOK,
         NEW c \in Chan, channels[c] # NULL, NEW n
  PROVE  /\ Talk!Named(c, n) # {} =>
              n # "" /\ FindNick(n) # NULL /\ FindNick(n) \in channels[c].members
         /\ FindNick(n) \in channels[c].members =>
              client[FindNick(n)].socketFd \in Talk!Named(c, n)
  <1> DEFINE ch == channels[c]
             t  == FindNick(n)
  <1>1. /\ ch \in ChannelObject /\ ch.members \subseteq Live
        /\ \A b \in ch.members : client[b].registered
        /\ RoomBar[c] = RoomOf(ch)
    BY DEF Base, TypeOK, ChannelsOK, Rightful, Open, RoomBar
  <1>2. RoomBar[c].members = FdsOf(ch.members)
    BY <1>1, RoomFields
  <1>3. ASSUME NEW g \in Talk!Named(c, n)
        PROVE  n # "" /\ t # NULL /\ t \in ch.members
    <2> DEFINE b == clientsByFd[g]
    <2>1. g \in Fd /\ b \in ch.members /\ SessionBar[g].nick = n
      BY <1>2, <1>3 DEF Talk!Named, FdsOf
    <2>2. b \in Live /\ b \in Addr /\ b # NULL /\ client[b] \in ClientObject
      BY <1>1, <2>1, LiveClient
    <2>3. client[b].nickname = n
      BY <2>1, <2>2, SessionType DEF SessionBar, Obj
    <2>4. client[b].nickname # ""
      BY <1>1, <2>1, <2>2 DEF RegistrationExact, Complete
    <2>5. n \in Nick
      BY <2>2, <2>3, <2>4 DEF ClientObject
    <2>6. clientsByNick[n] = b
      BY <2>2, <2>3, <2>5 DEF NickTableExact
    <2> QED
      BY <2>1, <2>2, <2>3, <2>4, <2>5, <2>6 DEF FindNick
  <1>4. ASSUME t \in ch.members
        PROVE  client[t].socketFd \in Talk!Named(c, n)
    <2> DEFINE g == client[t].socketFd
    <2>1. t \in Live /\ t \in Addr /\ t # NULL /\ g \in Fd /\ clientsByFd[g] = t
      BY <1>1, <1>4, LiveClient
    <2>2. n \in Nick /\ clientsByNick[n] = t
      BY <2>1 DEF FindNick
    <2>3. client[t].nickname = n
      BY <2>1, <2>2 DEF NickTableExact
    <2> HIDE DEF t
    <2>4. SessionBar[g].nick = n
      BY <2>1, <2>3, SessionType DEF SessionBar, Obj
    <2>5. g \in FdsOf(ch.members)
      BY <1>4, <2>1 DEF FdsOf
    <2> QED
      BY <1>2, <2>4, <2>5 DEF Talk!Named
  <1> QED
    BY <1>3, <1>4

(* A turn of KICK kicks, or is declined for a reason.                      *)
LEMMA KickTalks ==
  ASSUME Base, NickTableExact, RegistrationExact, ChannelsOK, KickStep
  PROVE  (\E c \in Chan, t \in Fd : Talk!Kick(c, t)) \/ Talk!Decline
  <1>1. /\ TypeOK /\ UNCHANGED tables /\ NextTurn /\ job.cmd = "KICK"
        /\ UNCHANGED clientsByFd /\ job # NoJob
    BY NoJobFacts DEF Base, KickStep, tables, InLoop
  <1>2. SessionBar' = SessionBar
    BY <1>1, SessionsKept
  <1>3. Talk!Answer
    BY <1>1, <1>2, AnswersOne
  <1> DEFINE c  == job.chan
             n  == Current
             a  == FindNick(n)
             ch == channels[c]
             f  == job.fd
             t  == client[a].socketFd
  <1>4. /\ Talk!Asks("KICK") /\ RequestBar.by = f
        /\ Talk!Asked.room = c /\ Talk!Asked.word = n
    BY <1>1, AskedNow
  <1>5. c \in Chan /\ f \in Fd /\ clientsByFd[f] = Self /\ Self # NULL
    BY <1>1 DEF Base, JobOK, Self
  <1>6. client[Self].nickname # ""
    <2>1. Self \in Live /\ client[Self].registered
      BY <1>1, SelfLive
    <2> QED
      BY <2>1 DEF RegistrationExact, Complete
  <1>7. Talk!Governs(f, c) <=> ch # NULL /\ Self \in ch.members \cap ch.operators
    BY <1>5, OperatorGoverns
  <1>8. CASE UNCHANGED channels /\ KickReply(Self, c, n) # Accepted
    <2>1. RoomBar' = RoomBar
      BY <1>1, <1>8, RoomsKept
    <2>2. ASSUME Talk!Governs(f, c) PROVE Talk!Named(c, n) = {}
      <3>1. n = "" \/ a = NULL \/ a \notin ch.members
        BY <1>6, <1>7, <1>8, <2>2 DEF KickReply, Accepted
      <3>2. ch # NULL
        BY <1>7, <2>2
      <3> QED
        BY <1>5, <3>1, <3>2, MemberNamed
    <2> QED
      BY <1>3, <1>4, <2>1, <2>2 DEF Talk!Decline
  <1>9. CASE /\ KickReply(Self, c, n) = Accepted
             /\ channels' = [channels EXCEPT ![c] = RemoveIfEmpty(RemoveFromChannel(@, a))]
    <2>1. ch # NULL /\ Self \in ch.members \cap ch.operators /\ a \in ch.members
      BY <1>9 DEF KickReply, Accepted
    <2>2. ch \in ChannelObject /\ ch.members \subseteq Live
      BY <1>1, <1>5, <2>1 DEF TypeOK, ChannelsOK, Rightful, Open
    <2>3. a \in Live /\ t \in Fd
      BY <2>1, <2>2, LiveClient
    <2>4. Talk!Governs(f, c)
      BY <1>7, <2>1
    <2>5. t \in Talk!Named(c, n)
      BY <1>5, <2>1, MemberNamed
    <2>6. RoomBar[c] = RoomOf(ch)
      BY <1>5 DEF RoomBar
    <2>7. channels' = [channels EXCEPT ![c] = RemoveIfEmpty(RemoveFromChannel(ch, a))]
      BY <1>9
    <2> HIDE DEF c, n, a, ch, f, t
    <2>8. RoomBar' = [RoomBar EXCEPT ![c] = RoomOf(RemoveIfEmpty(RemoveFromChannel(ch, a)))]
      BY <1>1, <1>5, <2>7, RoomReplaced
    <2>9. RoomOf(RemoveIfEmpty(RemoveFromChannel(ch, a))) = Talk!Without(RoomBar[c], t)
      BY <2>2, <2>3, <2>6, WithoutRoom DEF t
    <2>10. RoomBar' = [RoomBar EXCEPT ![c] = Talk!Without(@, t)]
      BY <2>8, <2>9
    <2>11. Talk!Kick(c, t)
      BY <1>3, <1>4, <2>4, <2>5, <2>10 DEF Talk!Kick
    <2> QED
      BY <1>5, <2>3, <2>11
  <1> QED
    BY <1>8, <1>9 DEF KickStep

-----------------------------------------------------------------------------
(* MODE lines.                                                             *)

(* A turn of MODE tunes the room of the line, ends the line, or shows      *)
(* nothing.                                                                *)
LEMMA ModeTalks ==
  ASSUME Base, Turn, job.cmd = "MODE"
  PROVE  \/ Talk!EndLine
         \/ \E c \in Chan : Talk!Tune(c)
         \/ UNCHANGED Talk!vars
  <1>1. /\ TypeOK /\ UNCHANGED tables /\ UNCHANGED clientsByFd
        /\ SessionBar' = SessionBar
    BY TurnKeepsTables, SessionsKept DEF Base, tables
  <1> DEFINE c == job.chan
             ch == channels[c]
  <1>2. /\ Talk!Asks("MODE") /\ Talk!Asked.room = c
        /\ c \in Chan /\ ch \in ChannelObject
    <2>1. job # NoJob /\ c \in Chan /\ ch # NULL
      BY NoJobFacts DEF Base, JobOK
    <2>2. ch \in ChannelObject
      BY <1>1, <2>1 DEF TypeOK
    <2> QED
      BY <2>1, <2>2, AskedNow
  <1>3. CASE ModeEnd
    <2>1. job' = NoJob /\ UNCHANGED channels
      BY <1>3 DEF ModeEnd, state
    <2>2. RoomBar' = RoomBar /\ RequestBar' = NULL
      BY <1>1, <2>1, RoomsKept, NoQuiet
    <2> QED
      BY <1>1, <1>2, <2>2 DEF Talk!EndLine
  <1>4. CASE Goes
    <2>1. RequestBar' = RequestBar
      BY <1>4 DEF Goes, RequestBar, RequestOf, ListOf
    <2>2. CASE UNCHANGED channels
      BY <1>1, <2>1, <2>2, RoomsKept DEF Talk!vars
    <2>3. ASSUME NEW d \in Chan, Changes(d) PROVE Talk!Tune(c)
      <3>1. PICK new : channels' = [channels EXCEPT ![d] = new] /\ Tunes(d, new)
        BY <2>3, NoJobFacts DEF Changes, Joins, Kicks, Invites
      <3>2. d = c
        BY <3>1 DEF Tunes
      <3>3. /\ new \in ChannelObject /\ new.members = ch.members
            /\ new.invited = ch.invited /\ new.topic = ch.topic
            /\ new.operators \subseteq ch.operators \cup ch.members
            /\ LimitFollows(ch, new)
        BY <3>1, <3>2 DEF Tunes
      <3> HIDE DEF c, ch
      <3>4. RoomBar' = [RoomBar EXCEPT ![c] = RoomOf(new)]
        BY <1>1, <1>2, <3>1, <3>2, RoomReplaced
      <3>5. RoomBar[c] = RoomOf(ch) /\ RoomBar'[c] = RoomOf(new)
        BY <1>2, <3>4 DEF RoomBar, ch
      <3>6. RoomBar[c] # NULL /\ RoomBar'[c] # NULL
        BY <1>2, <3>3, <3>5, RoomType
      <3>7. /\ RoomBar'[c].members = RoomBar[c].members
            /\ RoomBar'[c].invited = RoomBar[c].invited
            /\ RoomBar'[c].topic = RoomBar[c].topic
        BY <1>2, <3>3, <3>5, RoomFields
      <3>8. RoomBar'[c].operators \subseteq RoomBar[c].operators \cup RoomBar[c].members
        <4>1. FdsOf(new.operators) \subseteq FdsOf(ch.operators) \cup FdsOf(ch.members)
          BY <3>3 DEF FdsOf
        <4> QED
          BY <1>2, <3>3, <3>5, <4>1, RoomFields
      <3>9. RoomBar'[c].limit \in {RoomBar[c].limit, NULL} \cup (Nat \ {0})
        <4>1. new.memberLimited => new.maxMember \in Nat
          <5> DEFINE max == new.maxMember
          <5>1. max \in MemberLimit
            BY <3>3 DEF ChannelObject
          <5>2. MaxInt \in Nat
            BY NamesAssumption
          <5> HIDE DEF max
          <5>3. max \in Nat
            BY <5>1, <5>2, SMT DEF MemberLimit
          <5> QED
            BY <5>3 DEF max
        <4>2. /\ RoomBar'[c].limit = IF new.memberLimited THEN new.maxMember ELSE NULL
              /\ RoomBar[c].limit = IF ch.memberLimited THEN ch.maxMember ELSE NULL
          BY <1>2, <3>3, <3>5, RoomFields
        <4> QED
          BY <3>3, <4>1, <4>2 DEF LimitFollows
      <3>10. RoomBar' = [RoomBar EXCEPT ![c] = RoomBar'[c]]
        BY <3>4, <3>5
      <3>11. UNCHANGED <<SessionBar, RequestBar>>
        BY <1>1, <2>1
      <3> QED
        BY <1>2, <3>6, <3>7, <3>8, <3>9, <3>10, <3>11 DEF Talk!Tune
    <2> QED
      BY <1>2, <2>2, <2>3, TurnChanges
  <1> QED
    BY <1>3, <1>4, ModeTurns

-----------------------------------------------------------------------------
(* Requests.                                                               *)

(* A command that leaves the state alone and asks for nothing the chat     *)
(* knows shows nothing.                                                    *)
LEMMA SilentTalks ==
  ASSUME UNCHANGED state, job.cmd \notin {"JOIN", "KICK", "MODE"},
         job'.cmd \notin {"JOIN", "KICK", "MODE"}
  PROVE  UNCHANGED Talk!vars
  <1>1. UNCHANGED tables /\ UNCHANGED <<clientsByFd, channels>>
    BY DEF state, tables
  <1>2. RequestBar = NULL /\ RequestBar' = NULL
    BY NoQuiet DEF Talk!Quiet
  <1> QED
    BY <1>1, <1>2, SessionsKept, RoomsKept DEF Talk!vars

LEMMA RefuseTalks ==
  ASSUME NEW f, NEW r, Refuse(f, r), job = NoJob
  PROVE  UNCHANGED Talk!vars
  BY NoJobFacts, SilentTalks DEF Refuse

(* Entering the loop of JOIN, KICK or MODE is a request.                   *)
LEMMA AskTalks ==
  ASSUME Base, NEW f \in Fd, MayUse(f), NEW cmd \in {"JOIN", "KICK", "MODE"},
         NEW c, NEW todo, NEW params, Start(cmd, f, c, todo, params),
         job' \in Job, JobOK', cmd = "MODE" => Talk!Governs(f, c)
  PROVE  Talk!Ask(f)
  <1>1. job'.cmd = cmd /\ job'.fd = f /\ job'.chan = c
    BY StartsCmd
  <1>2. Asking(job')
    <2>1. job' # NoJob
      BY <1>1, NoJobFacts
    <2> QED
      BY <1>1, <2>1 DEF JobOK, Asking
  <1>3. /\ RequestBar' \in Talk!Request /\ RequestBar'.by = f
        /\ RequestBar'.cmd = cmd /\ RequestBar'.list = ListOf(job')
        /\ RequestBar'.list # <<>>
    <2>1. RequestBar' = RequestOf(job')
      BY DEF RequestBar
    <2> QED
      BY <1>1, <1>2, <2>1, RequestType
  <1>4. cmd = "MODE" => Head(RequestBar'.list).room = c
    <2> DEFINE e == [room |-> c, word |-> ""]
    <2>1. cmd = "MODE" => RequestBar'.list = <<e>>
      BY <1>1, <1>3 DEF ListOf
    <2>2. e.room = c
      OBVIOUS
    <2> HIDE DEF e
    <2>3. Head(<<e>>) = e
      OBVIOUS
    <2> QED
      BY <2>1, <2>2, <2>3
  <1>5. UNCHANGED tables /\ UNCHANGED <<clientsByFd, channels>>
    BY DEF Start, state, tables
  <1>6. SessionBar' = SessionBar /\ RoomBar' = RoomBar
    BY <1>5, SessionsKept, RoomsKept
  <1>7. Talk!Quiet /\ Talk!Registered(f)
    BY NoQuiet, RegisteredSession DEF MayUse, Receives
  <1> QED
    BY <1>3, <1>4, <1>6, <1>7 DEF Talk!Ask

(* INVITE invites the session of the name, or shows nothing.               *)
LEMMA InviteTalks ==
  ASSUME Base, NickTableExact, ChannelsOK, NEW f \in Fd,
         NEW n \in Nick \cup {Missing}, NEW c \in Chan, HandleInvite(f, n, c)
  PROVE  \/ \E t \in Fd : Talk!Invite(f, t, c)
         \/ UNCHANGED Talk!vars
  <1>1. job = NoJob /\ clientsByFd[f] # NULL
    BY DEF HandleInvite, MayUse, Receives
  <1> DEFINE a  == FindNick(n)
             ch == channels[c]
             t  == client[a].socketFd
  <1>2. CASE UNCHANGED <<state, job>>
    BY <1>1, <1>2, NoJobFacts, SilentTalks
  <1>3. CASE ~UNCHANGED <<state, job>>
    <2>1. /\ InviteReply(clientsByFd[f], n, c) = Accepted
          /\ channels' = [channels EXCEPT ![c] = AddInvitedMember(@, a)]
          /\ UNCHANGED <<clientsByFd, clientsByNick, client, job>>
      BY <1>3 DEF HandleInvite, Refuse
    <2>2. /\ ch # NULL /\ clientsByFd[f] \in ch.members \cap ch.operators
          /\ a # NULL /\ a \notin ch.members
      BY <2>1 DEF InviteReply, Accepted
    <2>3. ch \in ChannelObject /\ TypeOK
      BY <2>2 DEF Base, TypeOK
    <2>4. a \in Live
      BY <2>2, <2>3 DEF FindNick, NickTableExact, TypeOK
    <2>5. t \in Fd /\ clientsByFd[t] # NULL
      BY <2>4, LiveClient
    <2>6. Talk!Governs(f, c)
      BY <1>1, <2>2, OperatorGoverns
    <2>7. RoomBar[c] = RoomOf(ch)
      BY DEF RoomBar
    <2>8. channels' = [channels EXCEPT ![c] = AddInvitedMember(ch, a)]
      BY <2>1
    <2> HIDE DEF a, ch, t
    <2>9. t \notin RoomBar[c].members
      BY <2>2, <2>3, <2>4, <2>7, InRoom DEF t
    <2>10. RoomBar' = [RoomBar EXCEPT ![c] = RoomOf(AddInvitedMember(ch, a))]
      BY <2>1, <2>3, <2>8, RoomReplaced
    <2>11. RoomOf(AddInvitedMember(ch, a)) = [RoomBar[c] EXCEPT !.invited = @ \cup {t}]
      BY <2>3, <2>4, <2>7, RoomMore DEF t
    <2>12. RoomBar' = [RoomBar EXCEPT ![c].invited = @ \cup {t}]
      BY <2>10, <2>11
    <2>13. SessionBar[t] # NULL
      BY <2>5, SessionType DEF SessionBar
    <2>14. Talk!Quiet /\ SessionBar' = SessionBar /\ RequestBar' = RequestBar
      BY <1>1, <2>1, NoQuiet, SessionsKept DEF tables
    <2>15. Talk!Invite(f, t, c)
      BY <2>6, <2>9, <2>12, <2>13, <2>14 DEF Talk!Invite
    <2> QED
      BY <2>5, <2>15
  <1> QED
    BY <1>2, <1>3

(* TOPIC sets the topic of the room, or shows nothing.                     *)
LEMMA TopicTalks ==
  ASSUME Base, NEW f \in Fd, NEW c \in Chan,
         NEW t \in Topic \cup {"", Query, Missing}, HandleTopic(f, c, t)
  PROVE  \/ t \in Topic \cup {""} /\ Talk!SetTopic(f, c, t)
         \/ UNCHANGED Talk!vars
  <1>1. job = NoJob /\ clientsByFd[f] # NULL
    BY DEF HandleTopic, MayUse, Receives
  <1> DEFINE ch == channels[c]
             a  == clientsByFd[f]
  <1>2. CASE UNCHANGED <<state, job>>
    BY <1>1, <1>2, NoJobFacts, SilentTalks
  <1>3. CASE ~UNCHANGED <<state, job>>
    <2>1. /\ t # Missing /\ TopicReply(a, c, t) = Accepted
          /\ channels' = [channels EXCEPT ![c] = SetTopic(@, t)]
          /\ UNCHANGED <<clientsByFd, clientsByNick, client, job>>
      BY <1>3 DEF HandleTopic, Refuse, Accepted
    <2>2. /\ ch # NULL /\ a \in ch.members /\ t # Query
          /\ ch.topicRestricted => a \in ch.operators
      BY <2>1 DEF TopicReply, Accepted
    <2>3. ch \in ChannelObject /\ TypeOK /\ t \in Topic \cup {""}
      BY <2>1, <2>2 DEF Base, TypeOK
    <2>4. RoomBar[c] = RoomOf(ch) /\ RoomBar[c] # NULL
      BY <2>3, RoomType DEF RoomBar
    <2> DEFINE new == SetTopic(ch, t)
    <2>5. /\ new \in ChannelObject /\ new.topic = t
          /\ new.members = ch.members /\ new.operators = ch.operators
          /\ new.invited = ch.invited /\ new.inviteOnly = ch.inviteOnly
          /\ new.topicRestricted = ch.topicRestricted
          /\ new.channelProtected = ch.channelProtected
          /\ new.channelPass = ch.channelPass
          /\ new.memberLimited = ch.memberLimited
          /\ new.maxMember = ch.maxMember
      BY <2>3 DEF SetTopic, ChannelObject
    <2>6. channels' = [channels EXCEPT ![c] = new]
      BY <2>1
    <2> HIDE DEF ch, new
    <2>7. RoomBar' = [RoomBar EXCEPT ![c] = RoomOf(new)]
      BY <2>1, <2>3, <2>6, RoomReplaced
    <2>8. RoomOf(new) = [RoomBar[c] EXCEPT !.topic = t]
      <3>1. RoomOf(ch) \in Talk!Room /\ RoomOf(new) \in Talk!Room
        BY <2>3, <2>5, RoomType
      <3>2. RoomOf(new).key = RoomOf(ch).key
        BY <2>3, <2>5, RoomType DEF RoomOf
      <3>3. /\ RoomOf(new).members = RoomOf(ch).members
            /\ RoomOf(new).operators = RoomOf(ch).operators
            /\ RoomOf(new).invited = RoomOf(ch).invited
            /\ RoomOf(new).topic = t
            /\ RoomOf(new).inviteOnly = RoomOf(ch).inviteOnly
            /\ RoomOf(new).topicRestricted = RoomOf(ch).topicRestricted
            /\ RoomOf(new).limit = RoomOf(ch).limit
        BY <2>3, <2>5, RoomFields
      <3>4. ASSUME NEW r \in Talk!Room, NEW s \in Talk!Room,
                   s.members = r.members, s.operators = r.operators,
                   s.invited = r.invited, s.topic = t,
                   s.inviteOnly = r.inviteOnly,
                   s.topicRestricted = r.topicRestricted,
                   s.key = r.key, s.limit = r.limit
            PROVE  s = [r EXCEPT !.topic = t]
        BY <3>4 DEF Talk!Room
      <3> QED
        BY <2>4, <3>1, <3>2, <3>3, <3>4, Zenon
    <2>9. RoomBar' = [RoomBar EXCEPT ![c].topic = t]
      BY <2>7, <2>8
    <2>10. /\ f \in RoomBar[c].members
           /\ RoomBar[c].topicRestricted => f \in RoomBar[c].operators
      <3>1. /\ a \in ch.members => f \in FdsOf(ch.members)
            /\ a \in ch.operators => f \in FdsOf(ch.operators)
        BY DEF FdsOf
      <3> QED
        BY <2>2, <2>3, <2>4, <3>1, RoomFields
    <2>11. Talk!Quiet /\ SessionBar' = SessionBar /\ RequestBar' = RequestBar
      BY <1>1, <2>1, NoQuiet, SessionsKept DEF tables
    <2>12. Talk!SetTopic(f, c, t)
      BY <2>4, <2>9, <2>10, <2>11 DEF Talk!SetTopic
    <2> QED
      BY <2>3, <2>12
  <1> QED
    BY <1>2, <1>3

(* MODE asks for a line of its caller in the channel, or shows nothing.    *)
LEMMA LineTalks ==
  ASSUME Base, NEW f \in Fd, NEW c \in Chan, NEW m, NEW p,
         HandleMode(f, c, m, p), job' \in Job, JobOK'
  PROVE  Talk!Ask(f) \/ UNCHANGED Talk!vars
  <1>1. job = NoJob /\ MayUse(f)
    BY DEF HandleMode, MayUse, Receives
  <1>2. CASE ModeReply(clientsByFd[f], c, m) # Accepted
    BY <1>1, <1>2, RefuseTalks DEF HandleMode
  <1>3. CASE ModeReply(clientsByFd[f], c, m) = Accepted
    <2>1. Start("MODE", f, c, m, p)
      BY <1>3 DEF HandleMode
    <2>2. /\ channels[c] # NULL
          /\ clientsByFd[f] \in channels[c].members \cap channels[c].operators
      BY <1>3 DEF ModeReply, Accepted
    <2>3. Talk!Governs(f, c)
      BY <2>2, OperatorGoverns
    <2> QED
      BY <1>1, <2>1, <2>3, AskTalks
  <1> QED
    BY <1>2, <1>3

-----------------------------------------------------------------------------
(* All steps.                                                              *)

(* A request is an Invite, a SetTopic, an Ask or nothing.                  *)
LEMMA RequestTalks ==
  ASSUME Base, NickTableExact, ChannelsOK, NEW f \in Fd, Request(f)
  PROVE  Talk!Next \/ UNCHANGED Talk!vars
  <1> USE DEF MayUse, Receives
  <1>1. job' \in Job /\ JobOK'
    BY RequestJob
  <1>2. CASE NotRegistered(f) \/ HandlePing(f) \/ HandleInvalid(f)
    BY <1>2, RefuseTalks DEF NotRegistered, HandlePing, HandleInvalid
  <1>3. CASE HandleCap(f)
    <2>1. job = NoJob /\ job' = job /\ UNCHANGED state
      BY <1>3 DEF HandleCap
    <2> QED
      BY <2>1, NoJobFacts, SilentTalks
  <1>4. ASSUME NEW l, NEW k, HandleJoin(f, l, k)
        PROVE  Talk!Ask(f) \/ UNCHANGED Talk!vars
    <2>1. CASE l = Missing
      BY <1>4, <2>1, RefuseTalks DEF HandleJoin
    <2>2. CASE l # Missing
      <3>1. MayUse(f) /\ Start("JOIN", f, NULL, l, k)
        BY <1>4, <2>2 DEF HandleJoin
      <3> HIDE DEF MayUse, Receives
      <3> QED
        BY <1>1, <3>1, AskTalks
    <2> QED
      BY <2>1, <2>2
  <1>5. ASSUME NEW c, NEW l, HandleKick(f, c, l)
        PROVE  Talk!Ask(f) \/ UNCHANGED Talk!vars
    <2>1. CASE l = Missing \/ channels[c] = NULL
      BY <1>5, <2>1, RefuseTalks DEF HandleKick
    <2>2. CASE l # Missing /\ channels[c] # NULL
      <3>1. MayUse(f) /\ Start("KICK", f, c, l, <<>>)
        BY <1>5, <2>2 DEF HandleKick
      <3> HIDE DEF MayUse, Receives
      <3> QED
        BY <1>1, <3>1, AskTalks
    <2> QED
      BY <2>1, <2>2
  <1>6. ASSUME NEW l, NEW h, HandlePrivMsg(f, l, h)
        PROVE  UNCHANGED Talk!vars
    <2>1. CASE l = Missing \/ ~h
      BY <1>6, <2>1, RefuseTalks DEF HandlePrivMsg
    <2>2. CASE l # Missing /\ h
      <3>1. job = NoJob /\ Start("PRIVMSG", f, NULL, l, <<>>)
        BY <1>6, <2>2 DEF HandlePrivMsg
      <3>2. job'.cmd = "PRIVMSG" /\ UNCHANGED state
        BY <3>1, StartsCmd DEF Start
      <3> QED
        BY <3>1, <3>2, NoJobFacts, SilentTalks
    <2> QED
      BY <1>6, <2>1, <2>2 DEF HandlePrivMsg
  <1> HIDE DEF MayUse, Receives
  <1>7. ASSUME NEW n \in Nick \cup {Missing}, NEW c \in Chan, HandleInvite(f, n, c)
        PROVE  Talk!Next \/ UNCHANGED Talk!vars
    BY <1>7, InviteTalks DEF Talk!Next
  <1>8. ASSUME NEW c \in Chan, NEW t \in Topic \cup {"", Query, Missing},
               HandleTopic(f, c, t)
        PROVE  Talk!Next \/ UNCHANGED Talk!vars
    BY <1>8, TopicTalks DEF Talk!Next
  <1>9. ASSUME NEW c \in Chan, NEW m, NEW p, HandleMode(f, c, m, p)
        PROVE  Talk!Ask(f) \/ UNCHANGED Talk!vars
    BY <1>1, <1>9, LineTalks
  <1>10. Talk!Ask(f) => Talk!Next
    BY DEF Talk!Next
  <1> QED
    BY <1>2, <1>3, <1>4, <1>5, <1>6, <1>7, <1>8, <1>9, <1>10 DEF Request

(* A turn is a step of JOIN, KICK or MODE, or nothing.                     *)
LEMMA TurnTalks ==
  ASSUME Base, NickTableExact, RegistrationExact, ChannelsOK, Turn
  PROVE  Talk!Next \/ UNCHANGED Talk!vars
  <1>1. CASE JoinStep
    BY <1>1, JoinTalks DEF Talk!Next
  <1>2. CASE KickStep
    BY <1>2, KickTalks DEF Talk!Next
  <1>3. CASE PrivMsgStep
    <2>1. UNCHANGED state /\ NextTurn /\ job.cmd = "PRIVMSG" /\ job \in Job
      BY <1>3 DEF PrivMsgStep, InLoop, Base, TypeOK
    <2>2. job'.cmd \in {"PRIVMSG", "none"}
      <3> DEFINE rest == [job EXCEPT !.todo = Tail(@), !.params = TailOf(@)]
      <3>1. rest.cmd = "PRIVMSG"
        BY <2>1 DEF Job
      <3>2. job' = NoJob \/ job' = rest
        BY <2>1 DEF NextTurn
      <3> HIDE DEF rest
      <3> QED
        BY <3>1, <3>2, NoJobFacts
    <2> QED
      BY <2>1, <2>2, SilentTalks
  <1>4. CASE ~JoinStep /\ ~KickStep /\ ~PrivMsgStep
    <2>1. job.cmd = "MODE"
      BY <1>4 DEF Turn, ModeSign, ModeFlag, ModeKey, ModeLimit, ModeOperator,
                  ModeUnknown, ModeEnd, InMode, InLoop
    <2> QED
      BY <2>1, ModeTalks DEF Talk!Next
  <1> QED
    BY <1>1, <1>2, <1>3, <1>4

LEMMA TalkInit == Init => Talk!Init
  <1> SUFFICES ASSUME Init PROVE Talk!Init
    OBVIOUS
  <1>1. SessionBar = [f \in Fd |-> NULL]
    BY DEF Init, SessionBar, SessionOf
  <1>2. RoomBar = [c \in Chan |-> NULL]
    BY DEF Init, RoomBar, RoomOf
  <1>3. RequestBar = NULL
    BY NoQuiet DEF Init, Talk!Quiet
  <1> QED
    BY <1>1, <1>2, <1>3 DEF Talk!Init

LEMMA TalkNext == CoreInv /\ [Next]_vars => [Talk!Next]_(Talk!vars)
  <1> SUFFICES ASSUME CoreInv, [Next]_vars
               PROVE  Talk!Next \/ UNCHANGED Talk!vars
    BY DEF Talk!vars
  <1>1. /\ Base /\ TypeOK /\ FdTableExact /\ NickTableExact /\ RegistrationExact
        /\ ChannelsOK
    BY DEF CoreInv, Base
  <1>2. ASSUME NEW f \in Fd, NEW a \in Addr, AddNewClient(f, a) PROVE Talk!Next
    BY <1>1, <1>2, AddConnects DEF Talk!Next
  <1>3. ASSUME NEW f \in Fd, RemoveClient(f) PROVE Talk!Next
    BY <1>1, <1>3, RemoveDisconnects DEF Talk!Next
  <1>4. ASSUME NEW f \in Fd, Stores(f) PROVE Talk!Next
    BY <1>1, <1>4, StoresIdentifies DEF Talk!Next
  <1>5. CASE UNCHANGED <<state, job>> \/ UNCHANGED vars
    <2>1. UNCHANGED tables /\ UNCHANGED <<clientsByFd, channels>> /\ job' = job
      BY <1>5 DEF state, vars, tables
    <2> QED
      BY <2>1, SessionsKept, RoomsKept, NoQuiet DEF Talk!vars
  <1> QED
    BY <1>1, <1>2, <1>3, <1>4, <1>5, RequestTalks, TurnTalks, StepKinds

(* The command core implements the chat: whatever the addresses, the tables*)
(* and the loops do, users see sessions with unique names, rooms that let  *)
(* in exactly whom their policies (invitation, key, limit) let in, and     *)
(* members put out only by who governs the room at that turn (ServerState  *)
(* and every handler of CommandDispatcher).                                *)
THEOREM CoreImplementsChat == Spec => ImplementsChat
  BY CoreInvariant, TalkInit, TalkNext, PTL DEF Spec, ImplementsChat, Talk!Spec
=============================================================================
