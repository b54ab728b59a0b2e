--------------------------- MODULE IRCViewsProofs ---------------------------
(***************************************************************************)
(* Proofs that every change of a channel's members is announced, and that  *)
(* the pictures clients make of these announcements stay complete.  Only   *)
(* JOIN and KICK have to be looked at closely: what each of their turns    *)
(* does to the members is compared with whom it tells, socket by socket.   *)
(***************************************************************************)
EXTENDS MemberViews, IRCCoreProofs

(* The sockets a broadcast reaches are those of the clients it is meant    *)
(* for: the two tables are inverse to each other.                          *)
LEMMA Audience ==
  ASSUME Base, NEW ms, ms \subseteq Live, NEW f \in Fd
  PROVE  f \in {client[a].socketFd : a \in ms} <=> clientsByFd[f] \in ms
  <1>1. ASSUME NEW a \in ms, client[a].socketFd = f PROVE clientsByFd[f] = a
    BY <1>1, LiveClient
  <1>2. ASSUME clientsByFd[f] \in ms PROVE client[clientsByFd[f]].socketFd = f
    <2>1. clientsByFd[f] # NULL
      BY <1>2, LiveClient
    <2> QED
      BY <2>1, ReceiverLive DEF Base, Obj
  <1> QED
    BY <1>1, <1>2

(* Members are live clients.                                               *)
LEMMA MembersLive ==
  ASSUME CoreInv, NEW c \in Chan
  PROVE  /\ Members(c) \subseteq Live /\ Members(c) \subseteq Addr
         /\ NULL \notin Members(c)
  <1>1. Members(c) \subseteq Live
    BY DEF CoreInv, ChannelsOK, Rightful, Open, Members
  <1> QED
    BY <1>1, NamesAssumption DEF Live

LEMMA MembersLiveNext ==
  ASSUME CoreInv', NEW c \in Chan
  PROVE  Members(c)' \subseteq Live'
  BY DEF CoreInv, ChannelsOK, Rightful, Open, Members

(* What a turn adds to the replies of one socket.                          *)
LEMMA Unheard ==
  ASSUME NEW f \in Fd, result[f] \in Seq(Reply), result'[f] = result[f]
  PROVE  New(f) = {}
  BY DEF New

LEMMA HeardOne ==
  ASSUME NEW f \in Fd, NEW r, result[f] \in Seq(Reply), r \in Reply,
         result'[f] = Append(result[f], r)
  PROVE  New(f) = {r}
  <1>1. Len(result'[f]) = Len(result[f]) + 1 /\ result'[f][Len(result[f]) + 1] = r
    OBVIOUS
  <1>2. Len(result[f]) + 1 .. Len(result'[f]) = {Len(result[f]) + 1}
    BY <1>1
  <1> QED
    BY <1>1, <1>2 DEF New

(* A reply to the caller alone, and a reply to the members of a channel.   *)
LEMMA AddHeard ==
  ASSUME result \in [Fd -> Seq(Reply)], NEW r \in Reply, NEW g,
         result' = Add(result, g, r), NEW f \in Fd
  PROVE  New(f) = IF f = g THEN {r} ELSE {}
  <1>1. result'[f] = IF f = g THEN Append(result[f], r) ELSE result[f]
    BY DEF Add
  <1> QED
    BY <1>1, Unheard, HeardOne

LEMMA BroadcastHeard ==
  ASSUME Base, NEW ms, ms \subseteq Live, NEW r \in Reply,
         result' = Broadcast(result, ms, r, NULL), NEW f \in Fd
  PROVE  New(f) = IF clientsByFd[f] \in ms THEN {r} ELSE {}
  <1>1. result[f] \in Seq(Reply)
    BY DEF Base, TypeOK
  <1>2. ms \ {NULL} = ms
    BY LiveClient
  <1>3. result'[f] = IF clientsByFd[f] \in ms THEN Append(result[f], r) ELSE result[f]
    BY <1>2, Audience DEF Broadcast
  <1> QED
    BY <1>1, <1>3, Unheard, HeardOne

(* A join: everybody who is in now hears of it, the newcomer gets the list.*)
LEMMA JoinHeard ==
  ASSUME Base, NEW ch \in ChannelObject, ch.members \subseteq Live,
         Self \in ch.members, job # NoJob,
         result' = JoinReplies(ch), NEW f \in Fd
  PROVE  /\ "JOIN" \in New(f) <=> clientsByFd[f] \in ch.members
         /\ "353" \in New(f) <=> f = job.fd
  <1> DEFINE told  == Broadcast(result, ch.members, "JOIN", NULL)
             topic == IF ch.topic = "" THEN "331" ELSE "332"
             s     == result[f]
  <1>1. result \in [Fd -> Seq(Reply)] /\ s \in Seq(Reply)
    BY DEF Base, TypeOK
  <1>2. {"JOIN", "331", "332", "353"} \subseteq Reply
    BY DEF Reply
  <1>3. ch.members \ {NULL} = ch.members
    BY LiveClient
  <1>4. told \in [Fd -> Seq(Reply)]
    BY <1>1, <1>2, RepliesType
  <1>5. told[f] = IF clientsByFd[f] \in ch.members THEN Append(s, "JOIN") ELSE s
    BY <1>3, Audience DEF Broadcast
  <1>6. Self = clientsByFd[job.fd] /\ job.fd \in Fd
    BY SelfLive DEF Self
  <1>7. CASE f = job.fd
    <2>1. told[f] = Append(s, "JOIN")
      BY <1>5, <1>6, <1>7
    <2>2. result'[f] = Append(Append(told[f], topic), "353")
      BY <1>4, <1>7 DEF JoinReplies, Add
    <2>3. result'[f] = Append(Append(Append(s, "JOIN"), topic), "353")
      BY <2>1, <2>2
    <2>4. /\ Len(result'[f]) = Len(s) + 3
          /\ result'[f][Len(s) + 1] = "JOIN" /\ result'[f][Len(s) + 3] = "353"
      <3> DEFINE s1 == Append(s, "JOIN")
                 s2 == Append(s1, topic)
      <3>1. s1 \in Seq(Reply) /\ Len(s1) = Len(s) + 1 /\ s1[Len(s) + 1] = "JOIN"
        BY <1>1, <1>2
      <3>2. topic \in Reply
        BY <1>2
      <3> HIDE DEF topic, s1
      <3>3. /\ s2 \in Seq(Reply) /\ Len(s2) = Len(s) + 2
            /\ s2[Len(s) + 1] = "JOIN"
        BY <1>1, <3>1, <3>2
      <3> HIDE DEF s2
      <3>4. /\ Len(Append(s2, "353")) = Len(s) + 3
            /\ Append(s2, "353")[Len(s) + 1] = "JOIN"
            /\ Append(s2, "353")[Len(s) + 3] = "353"
        BY <1>1, <1>2, <3>3
      <3> QED
        BY <2>3, <3>4 DEF s1, s2
    <2>5. "JOIN" \in New(f) /\ "353" \in New(f)
      BY <1>1, <2>4 DEF New
    <2> QED
      BY <1>6, <1>7, <2>5
  <1>8. CASE f # job.fd
    <2>1. result'[f] = told[f]
      BY <1>4, <1>8 DEF JoinReplies, Add
    <2>2. New(f) = IF clientsByFd[f] \in ch.members THEN {"JOIN"} ELSE {}
      BY <1>1, <1>2, <1>5, <2>1, Unheard, HeardOne
    <2> QED
      BY <1>8, <2>2
  <1> QED
    BY <1>7, <1>8

-----------------------------------------------------------------------------
(* What a turn does to members and what it announces.                      *)

(* A turn that touches nobody's membership.                                *)
Calm(r) ==
  /\ \A c \in Chan : Members(c)' = Members(c)
  /\ \A f \in Fd : r \notin New(f)

(* A turn of JOIN lets the caller into a channel, and tells everybody in it*)
(* and gives the caller the list; or it is a calm one.                     *)
Enters(c) ==
  /\ c = Current /\ Self \notin Members(c)
  /\ Members(c)' = Members(c) \cup {Self}
  /\ \A d \in Chan \ {c} : Members(d)' = Members(d)
  /\ \A f \in Fd : /\ "JOIN" \in New(f) <=> clientsByFd[f] \in Members(c)'
                   /\ "353" \in New(f) <=> f = job.fd

LEMMA JoinOutcome ==
  ASSUME CoreInv, CoreInv', JoinStep
  PROVE  (\E c \in Chan : Enters(c)) \/ (Calm("JOIN") /\ Calm("353"))
  <1> DEFINE isNew(c) == channels[c] = NULL
             old(c)   == IF isNew(c) THEN NewChannel ELSE channels[c]
             reply(c) == IF isNew(c) THEN Accepted ELSE Barred(old(c), Self, JoinKey)
             new(c)   == Admit(old(c), Self, isNew(c))
  <1>1. /\ Base /\ result \in [Fd -> Seq(Reply)]
        /\ channels \in [Chan -> ChannelObject \cup {NULL}]
    BY DEF CoreInv, Base, TypeOK
  <1>2. job # NoJob
    BY NoJobFacts DEF JoinStep, InLoop
  <1>3. /\ Self \in Addr /\ clientsByFd' = clientsByFd /\ client' = client
    BY <1>1, <1>2, SelfLive DEF JoinStep
  <1>4. ASSUME channels' = channels, NEW r \in Reply \ {"JOIN", "353"},
               result' = Add(result, job.fd, r) \/ result' = result
        PROVE  Calm("JOIN") /\ Calm("353")
    <2>1. \A f \in Fd : New(f) \subseteq {r}
      BY <1>1, <1>4, AddHeard, Unheard
    <2>2. \A d \in Chan : Members(d)' = Members(d)
      BY <1>4 DEF Members
    <2> QED
      BY <2>1, <2>2, <1>4 DEF Calm
  <1>5. {"403", "473", "475", "471"} \subseteq Reply \ {"JOIN", "353"}
    BY DEF Reply
  <1>6. \A c : reply(c) \in {"473", "475", "471", Accepted}
    BY DEF Barred
  <1>7. ASSUME NEW c \in Chan, c = Current, Self \notin old(c).members,
               channels' = [channels EXCEPT ![c] = new(c)],
               result' = JoinReplies(new(c))
        PROVE  Enters(c)
    <2>1. old(c) \in ChannelObject
      BY <1>1, <1>7, NewChannelType
    <2>2. old(c).members = Members(c)
      BY DEF Members, NewChannel
    <2>3. new(c) \in ChannelObject /\ new(c).members = old(c).members \cup {Self}
      BY <1>3, <2>1 DEF Admit, AddMember, AddOperator, ChannelObject
    <2>4. channels'[c] = new(c) /\ \A d \in Chan \ {c} : channels'[d] = channels[d]
      BY <1>1, <1>7
    <2>5. new(c) # NULL
      BY <2>3, NullAssumption
    <2> HIDE DEF new, old
    <2>6. Members(c)' = new(c).members
      BY <2>4, <2>5 DEF Members
    <2>7. \A d \in Chan \ {c} : Members(d)' = Members(d)
      BY <2>4 DEF Members
    <2>8. new(c).members \subseteq Live
      <3>1. Live' = Live
        BY <1>3 DEF Live
      <3> QED
        BY <2>6, <3>1, MembersLiveNext
    <2> QED
      BY <1>1, <1>2, <1>7, <2>2, <2>3, <2>6, <2>7, <2>8, JoinHeard DEF Enters
  <1> HIDE DEF reply, new
  <1> QED
    BY <1>4, <1>5, <1>6, <1>7 DEF JoinStep, reply, new

(* A turn of KICK puts a member out and tells everybody who was in; or it  *)
(* is a calm one.                                                          *)
Expels(c) ==
  /\ c = job.chan /\ FindNick(Current) \in Members(c)
  /\ Members(c)' = Members(c) \ {FindNick(Current)}
  /\ \A d \in Chan \ {c} : Members(d)' = Members(d)
  /\ \A f \in Fd : "KICK" \in New(f) <=> clientsByFd[f] \in Members(c)

LEMMA KickOutcome ==
  ASSUME CoreInv, KickStep
  PROVE  (\E c \in Chan : Expels(c)) \/ Calm("KICK")
  <1> DEFINE t        == FindNick(Current)
             reply(c) == KickReply(Self, c, Current)
             new(c)   == RemoveIfEmpty(RemoveFromChannel(channels[c], t))
  <1>1. /\ Base /\ result \in [Fd -> Seq(Reply)]
        /\ channels \in [Chan -> ChannelObject \cup {NULL}]
        /\ job.chan \in Chan
    BY NoJobFacts DEF CoreInv, Base, TypeOK, JobOK, KickStep, InLoop
  <1>2. reply(job.chan) \in (Reply \ {"KICK"}) \cup {Accepted}
    BY DEF KickReply, Reply
  <1>3. CASE reply(job.chan) # Accepted
    <2>1. channels' = channels /\ result' = Add(result, job.fd, reply(job.chan))
      BY <1>3 DEF KickStep
    <2>2. \A f \in Fd : New(f) \subseteq {reply(job.chan)}
      BY <1>1, <1>2, <1>3, <2>1, AddHeard
    <2>3. \A d \in Chan : Members(d)' = Members(d)
      BY <2>1 DEF Members
    <2> QED
      BY <1>2, <1>3, <2>2, <2>3 DEF Calm
  <1>4. ASSUME NEW c \in Chan, c = job.chan, reply(c) = Accepted
        PROVE  Expels(c)
    <2>1. channels[c] # NULL /\ t \in channels[c].members
      BY <1>4 DEF KickReply, Accepted
    <2>2. channels[c] \in ChannelObject /\ channels[c].members = Members(c)
      BY <1>1, <2>1 DEF Members
    <2>3. /\ result' = Broadcast(result, Members(c), "KICK", NULL)
          /\ channels' = [channels EXCEPT ![c] = new(c)]
      BY <1>1, <1>4, <2>2 DEF KickStep
    <2>4. Members(c)' = Members(c) \ {t}
      <3>1. RemoveFromChannel(channels[c], t).members = Members(c) \ {t}
        BY <2>2, ChannelSets
      <3>2. RemoveFromChannel(channels[c], t) # NULL
        <4>1. RemoveFromChannel(channels[c], t) \in ChannelObject
          BY <2>2 DEF RemoveFromChannel, ChannelObject
        <4> QED
          BY <4>1, NullAssumption
      <3>3. channels'[c] = new(c)
        BY <1>1, <2>3
      <3> QED
        BY <3>1, <3>2, <3>3 DEF Members, RemoveIfEmpty
    <2>5. \A d \in Chan \ {c} : Members(d)' = Members(d)
      BY <1>1, <2>3 DEF Members
    <2>6. "KICK" \in Reply
      BY DEF Reply
    <2>7. \A f \in Fd : "KICK" \in New(f) <=> clientsByFd[f] \in Members(c)
      BY <1>1, <2>3, <2>6, MembersLive, BroadcastHeard
    <2> QED
      BY <1>4, <2>1, <2>2, <2>4, <2>5, <2>7 DEF Expels
  <1> HIDE DEF reply
  <1> QED
    BY <1>1, <1>3, <1>4

(* The other turns are calm, and so is every request.                      *)
LEMMA OthersKeepMembers ==
  ASSUME Base,
         (\E f \in Fd : Request(f)) \/ (Turn /\ ~JoinStep /\ ~KickStep)
  PROVE  \A c \in Chan : Members(c)' = Members(c)
  <1> SUFFICES ASSUME NEW c \in Chan PROVE Members(c)' = Members(c)
    OBVIOUS
  <1>1. channels \in [Chan -> ChannelObject \cup {NULL}]
    BY DEF Base, TypeOK
  <1>2. job = NoJob \/ job.cmd \in {"MODE", "PRIVMSG"}
    <2>1. \A f \in Fd : Request(f) => job = NoJob
      BY DEF Request, NotRegistered, HandlePing, HandleInvalid, HandleCap, HandleJoin,
             HandleKick, HandleInvite, HandleTopic, HandleMode, HandlePrivMsg, MayUse,
             Receives
    <2>2. Turn /\ ~JoinStep /\ ~KickStep => job.cmd \in {"MODE", "PRIVMSG"}
      BY DEF Turn, PrivMsgStep, ModeSign, ModeFlag, ModeKey, ModeLimit, ModeOperator,
             ModeUnknown, ModeEnd, InMode, InLoop
    <2> QED
      BY <2>1, <2>2
  <1>3. UNCHANGED channels \/ \E d \in Chan : Changes(d)
    BY RequestChanges, TurnChanges
  <1>4. CASE UNCHANGED channels
    BY <1>4 DEF Members
  <1>5. ASSUME NEW d \in Chan, Changes(d) PROVE Members(c)' = Members(c)
    <2>1. PICK new : /\ channels' = [channels EXCEPT ![d] = new]
                     /\ Joins(d, new) \/ Kicks(d, new) \/ Invites(d, new) \/ Tunes(d, new)
      BY <1>5 DEF Changes
    <2>2. Invites(d, new) \/ Tunes(d, new)
      BY <1>2, <2>1, NoJobFacts DEF Joins, Kicks
    <2>3. channels[d] \in ChannelObject /\ new.members = channels[d].members
      BY <1>1, <2>2, ChannelSets DEF Invites, Tunes
    <2>4. new # NULL
      BY <2>1, <2>2, <1>2, NewType, NoJobFacts, NullAssumption
    <2> QED
      BY <1>1, <2>1, <2>3, <2>4, NullAssumption DEF Members
  <1> QED
    BY <1>3, <1>4, <1>5

(* A message from a client leaves the socket table alone, and calls only   *)
(* for turns that may change members.                                      *)
LEMMA DispatchKeepsSockets ==
  ASSUME NEW f, Dispatch(f)
  PROVE  clientsByFd[f] # NULL /\ clientsByFd' = clientsByFd
  <1>1. CASE Request(f)
    <2>1. clientsByFd[f] # NULL
      BY <1>1 DEF Request, NotRegistered, HandlePing, HandleInvalid, HandleCap,
                  HandleJoin, HandleKick, HandleInvite, HandleTopic, HandleMode,
                  HandlePrivMsg, MayUse, Receives
    <2> QED
      BY <1>1, <2>1, RequestKeepsTables DEF tables
  <1>2. ASSUME NEW p, HandlePass(f, p) \/ HandleNick(f, p) \/ HandleUser(f, p)
        PROVE  clientsByFd[f] # NULL /\ clientsByFd' = clientsByFd
    BY <1>2 DEF HandlePass, HandleNick, HandleUser, Receives, Refuse, state,
                StoreAndTryRegister
  <1> QED
    BY <1>1, <1>2 DEF Dispatch, Request

LEMMA DispatchKeepsMembers ==
  ASSUME Base, NEW f \in Fd, Dispatch(f)
  PROVE  \A c \in Chan : Members(c)' = Members(c)
  <1>1. CASE Request(f)
    BY <1>1, OthersKeepMembers
  <1>2. ASSUME NEW p, HandlePass(f, p) \/ HandleNick(f, p) \/ HandleUser(f, p)
        PROVE  channels' = channels
    BY <1>2 DEF HandlePass, HandleNick, HandleUser, Refuse, state, StoreAndTryRegister
  <1> QED
    BY <1>1, <1>2 DEF Dispatch, Request, Members

-----------------------------------------------------------------------------
(* Who was in and who is in hears of the change.                           *)
LEMMA AllHearStep ==
  ASSUME CoreInv, CoreInv', Next
  PROVE  AllHear
  <1> SUFFICES ASSUME NEW c \in Chan, Members(c)' # Members(c), client' = client,
                      NEW f \in Fd
               PROVE  (IF Members(c)' \subseteq Members(c) THEN "KICK" ELSE "JOIN")
                           \in New(f)
                        <=> clientsByFd[f] \in Members(c) \cup Members(c)'
    BY DEF AllHear
  <1>1. Base /\ TypeOK /\ FdTableExact
    BY DEF CoreInv, Base, TypeOK
  <1>2. ASSUME channels' = channels PROVE FALSE
    BY <1>2 DEF Members
  <1>3. ASSUME NEW g \in Fd, RemoveClient(g) PROVE FALSE
    BY <1>1, <1>3, ReceiverLive DEF RemoveClient, Receives, Live, TypeOK
  <1>4. Turn /\ (JoinStep \/ KickStep)
    <2>1. \A g \in Fd : Stores(g) \/ (\E b \in Addr : AddNewClient(g, b))
                         => channels' = channels
      BY DEF Stores, AddNewClient
    <2>2. UNCHANGED <<state, job>> => channels' = channels
      BY DEF state
    <2> QED
      BY <1>1, <1>2, <1>3, <2>1, <2>2, StepKinds, OthersKeepMembers
  <1>5. CASE JoinStep
    <2>1. Enters(c)
      BY <1>5, JoinOutcome DEF Calm, Enters
    <2> QED
      BY <2>1 DEF Enters
  <1>6. CASE KickStep
    <2>1. Expels(c)
      BY <1>6, KickOutcome DEF Calm, Expels
    <2> QED
      BY <2>1 DEF Expels
  <1> QED
    BY <1>4, <1>5, <1>6

(* The turn of JOIN or KICK that changes the members of a channel tells    *)
(* exactly those who were or are in it (the broadcasts of                  *)
(* _joinSingleChannel and _handleKick reach the right sockets, the caller's*)
(* and the target's too).                                                  *)
THEOREM AllChangesAnnounced == Spec => MembershipAnnounced
  <1>1. CoreInv /\ CoreInv' /\ [Next]_vars => [AllHear]_vars
    BY AllHearStep
  <1> QED
    BY <1>1, CoreInvariant, PTL DEF Spec, MembershipAnnounced

-----------------------------------------------------------------------------
(* The pictures.                                                           *)
Picture == [Fd -> [Chan -> SUBSET Addr]]
ViewInv == CoreInv /\ view \in Picture /\ ViewsComplete

StaleShrinks == \A f \in Fd, c \in Chan : Stale(f, c)' \subseteq Stale(f, c)
KeepsViews   == view' \in Picture /\ ViewsComplete' /\ StaleShrinks

(* Pictures and members that stay as they are.                             *)
LEMMA ViewsKept ==
  ASSUME ViewInv, view' = view, clientsByFd' = clientsByFd,
         \A c \in Chan : Members(c)' = Members(c)
  PROVE  KeepsViews
  BY DEF ViewInv, ViewsComplete, Stale, StaleShrinks, KeepsViews

LEMMA JoinViews ==
  ASSUME ViewInv, CoreInv', ViewTurn, JoinStep
  PROVE  KeepsViews
  <1>1. /\ CoreInv /\ Base /\ TypeOK /\ FdTableExact
        /\ view \in Picture /\ ViewsComplete /\ InLoop("JOIN") /\ ~InLoop("KICK")
        /\ clientsByFd' = clientsByFd
    BY DEF ViewInv, CoreInv, Base, JoinStep, InLoop
  <1>2. view' = [f \in Fd |->
                   IF Current \in Chan THEN [view[f] EXCEPT ![Current] = AfterJoin(f)]
                                       ELSE view[f]]
    BY <1>1 DEF ViewTurn
  <1>3. CASE Calm("JOIN") /\ Calm("353")
    <2>1. ASSUME NEW f \in Fd, Current \in Chan
          PROVE  [view[f] EXCEPT ![Current] = AfterJoin(f)] = view[f]
      <3>1. AfterJoin(f) = view[f][Current]
        BY <1>3 DEF Calm, AfterJoin
      <3> QED
        BY <1>1, <2>1, <3>1 DEF Picture
    <2>2. view' = view
      BY <1>1, <1>2, <2>1 DEF Picture
    <2> QED
      BY <1>1, <1>3, <2>2, ViewsKept DEF Calm
  <1>4. ASSUME NEW c \in Chan, Enters(c) PROVE KeepsViews
    <2>1. /\ c = Current /\ job # NoJob /\ Self = clientsByFd[job.fd] /\ job.fd \in Fd
          /\ Self \in Addr
      BY <1>1, <1>4, NoJobFacts, SelfLive DEF Enters, InLoop, Self
    <2>2. /\ Members(c)' = channels'[c].members
          /\ Members(c)' = Members(c) \cup {Self}
      BY <1>4 DEF Enters, Members
    <2>3. ASSUME NEW f \in Fd, f # job.fd, clientsByFd[f] \in Addr
          PROVE  clientsByFd[f] # Self
      BY <1>1, <2>1, <2>3, ReceiverLive, NamesAssumption DEF Obj
    <2>4. Members(c) \subseteq Addr
      BY <1>1, MembersLive
    <2> DEFINE now(f) == IF f = job.fd THEN Members(c)'
                         ELSE IF clientsByFd[f] \in Members(c)' THEN view[f][c] \cup {Self}
                         ELSE view[f][c]
    <2>5. ASSUME NEW f \in Fd PROVE AfterJoin(f) = now(f) /\ now(f) \subseteq Addr
      <3>1. view[f][c] \subseteq Addr
        BY <1>1 DEF Picture
      <3> QED
        BY <1>4, <2>1, <2>2, <2>4, <3>1 DEF AfterJoin, Enters
    <2>6. ASSUME NEW f \in Fd
          PROVE  /\ IF clientsByFd[f] \in Members(c)' THEN Members(c)' \subseteq now(f)
                                                      ELSE now(f) = {}
                 /\ now(f) \ Members(c)' \subseteq view[f][c] \ Members(c)
      <3>1. IF clientsByFd[f] \in Members(c) THEN Members(c) \subseteq view[f][c]
                                             ELSE view[f][c] = {}
        BY <1>1 DEF ViewsComplete
      <3>2. CASE f = job.fd
        BY <2>1, <2>2, <3>2
      <3>3. CASE f # job.fd /\ clientsByFd[f] \in Members(c)'
        <4>1. clientsByFd[f] \in Members(c)
          BY <2>1, <2>2, <2>3, <2>4, <3>3
        <4> QED
          BY <2>2, <3>1, <3>3, <4>1
      <3>4. CASE f # job.fd /\ clientsByFd[f] \notin Members(c)'
        BY <2>2, <3>1, <3>4
      <3> QED
        BY <3>2, <3>3, <3>4
    <2> HIDE DEF now
    <2>7. /\ view' \in Picture
          /\ \A f \in Fd : /\ view'[f][c] = now(f)
                           /\ \A d \in Chan \ {c} : view'[f][d] = view[f][d]
      BY <1>1, <1>2, <2>1, <2>5 DEF Picture
    <2>8. \A d \in Chan \ {c} : Members(d)' = Members(d)
      BY <1>4 DEF Enters
    <2>9. ViewsComplete'
      BY <1>1, <2>6, <2>7, <2>8 DEF ViewsComplete
    <2>10. StaleShrinks
      BY <2>6, <2>7, <2>8 DEF StaleShrinks, Stale
    <2> QED
      BY <2>7, <2>9, <2>10 DEF KeepsViews
  <1> QED
    BY <1>1, <1>3, <1>4, JoinOutcome

LEMMA KickViews ==
  ASSUME ViewInv, ViewTurn, KickStep
  PROVE  KeepsViews
  <1>1. /\ CoreInv /\ view \in Picture /\ ViewsComplete
        /\ InLoop("KICK") /\ ~InLoop("JOIN") /\ clientsByFd' = clientsByFd
    BY DEF ViewInv, KickStep, InLoop
  <1>2. view' = [f \in Fd |-> [view[f] EXCEPT ![job.chan] = AfterKick(f)]]
    BY <1>1 DEF ViewTurn
  <1>3. CASE Calm("KICK")
    <2>1. ASSUME NEW f \in Fd
          PROVE  [view[f] EXCEPT ![job.chan] = AfterKick(f)] = view[f]
      <3>1. AfterKick(f) = view[f][job.chan]
        BY <1>3 DEF Calm, AfterKick
      <3> QED
        BY <1>1, <3>1 DEF Picture
    <2>2. view' = view
      BY <1>1, <1>2, <2>1 DEF Picture
    <2> QED
      BY <1>1, <1>3, <2>2, ViewsKept DEF Calm
  <1>4. ASSUME NEW c \in Chan, Expels(c) PROVE KeepsViews
    <2> DEFINE t      == FindNick(Current)
               now(f) == IF clientsByFd[f] \notin Members(c) THEN view[f][c]
                         ELSE IF clientsByFd[f] = t THEN {} ELSE view[f][c] \ {t}
    <2>1. c = job.chan /\ t \in Members(c) /\ Members(c)' = Members(c) \ {t}
      BY <1>4 DEF Expels
    <2>2. \A d \in Chan \ {c} : Members(d)' = Members(d)
      BY <1>4 DEF Expels
    <2>3. \A f \in Fd : AfterKick(f) = now(f)
      BY <1>4, <2>1 DEF AfterKick, Expels
    <2> HIDE DEF t
    <2>4. ASSUME NEW f \in Fd
          PROVE  /\ now(f) \subseteq Addr
                 /\ IF clientsByFd[f] \in Members(c)' THEN Members(c)' \subseteq now(f)
                                                      ELSE now(f) = {}
                 /\ now(f) \ Members(c)' \subseteq view[f][c] \ Members(c)
      <3>1. view[f][c] \subseteq Addr
        BY <1>1 DEF Picture
      <3>2. IF clientsByFd[f] \in Members(c) THEN Members(c) \subseteq view[f][c]
                                             ELSE view[f][c] = {}
        BY <1>1 DEF ViewsComplete
      <3> QED
        BY <2>1, <3>1, <3>2
    <2> HIDE DEF now
    <2>5. /\ view' \in Picture
          /\ \A f \in Fd : /\ view'[f][c] = now(f)
                           /\ \A d \in Chan \ {c} : view'[f][d] = view[f][d]
      BY <1>1, <1>2, <2>1, <2>3, <2>4 DEF Picture
    <2>6. ViewsComplete'
      BY <1>1, <2>2, <2>4, <2>5 DEF ViewsComplete
    <2>7. StaleShrinks
      BY <2>2, <2>4, <2>5 DEF StaleShrinks, Stale
    <2> QED
      BY <2>5, <2>6, <2>7 DEF KeepsViews
  <1> QED
    BY <1>1, <1>3, <1>4, KickOutcome

LEMMA TurnViews ==
  ASSUME ViewInv, CoreInv', ViewTurn
  PROVE  KeepsViews
  <1>1. CASE JoinStep BY <1>1, JoinViews
  <1>2. CASE KickStep BY <1>2, KickViews
  <1>3. CASE ~JoinStep /\ ~KickStep
    <2>1. Turn /\ Base /\ view \in Picture
      BY DEF ViewTurn, ViewInv, CoreInv
    <2>2. ~InLoop("JOIN") /\ ~InLoop("KICK")
      BY <1>3, <2>1 DEF Turn, PrivMsgStep, ModeSign, ModeFlag, ModeKey, ModeLimit,
                        ModeOperator, ModeUnknown, ModeEnd, InMode, InLoop
    <2>3. view' = view
      BY <2>1, <2>2 DEF ViewTurn, Picture
    <2>4. clientsByFd' = clientsByFd
      BY <2>1, TurnKeepsTables DEF tables
    <2> QED
      BY <1>3, <2>1, <2>3, <2>4, OthersKeepMembers, ViewsKept
  <1> QED
    BY <1>1, <1>2, <1>3

(* A connection made or lost, and a command before its loop.  Losses make  *)
(* pictures stale, and nothing else does.                                  *)
LEMMA CommandViews ==
  ASSUME ViewInv, NEW f \in Fd, ViewCommand(f)
  PROVE  /\ view' \in Picture /\ ViewsComplete'
         /\ clientsByFd' = clientsByFd => StaleShrinks
  <1>1. /\ CoreInv /\ Base /\ TypeOK /\ FdTableExact
        /\ view \in Picture /\ ViewsComplete
        /\ clientsByFd \in [Fd -> Addr \cup {NULL}]
    BY DEF ViewInv, CoreInv, Base, TypeOK
  <1>2. ASSUME clientsByFd' = clientsByFd, clientsByFd[f] # NULL,
               \A c \in Chan : Members(c)' = Members(c)
        PROVE  KeepsViews
    BY <1>2, ViewsKept DEF ViewCommand
  <1>3. ASSUME NEW a \in Addr, AddNewClient(f, a)
        PROVE  view' \in Picture /\ ViewsComplete' /\ clientsByFd' # clientsByFd
    <2>1. /\ clientsByFd[f] = NULL /\ client[a] = NULL /\ channels' = channels
          /\ clientsByFd' = [clientsByFd EXCEPT ![f] = a]
      BY <1>3 DEF AddNewClient
    <2>2. clientsByFd'[f] # NULL /\ clientsByFd' # clientsByFd
      BY <1>1, <2>1, NamesAssumption
    <2>3. view' = view
      BY <2>2 DEF ViewCommand
    <2>4. \A c \in Chan : /\ Members(c)' = Members(c) /\ a \notin Members(c)
                          /\ NULL \notin Members(c)
      BY <1>1, <2>1, MembersLive DEF Members, Live
    <2>5. ASSUME NEW g \in Fd, NEW c \in Chan
          PROVE  clientsByFd'[g] \in Members(c) <=> clientsByFd[g] \in Members(c)
      BY <1>1, <2>1, <2>4
    <2>6. ViewsComplete'
      BY <1>1, <2>3, <2>4, <2>5 DEF ViewsComplete
    <2> QED
      BY <1>1, <2>2, <2>3, <2>6
  <1>4. CASE RemoveClient(f)
    <2> DEFINE a == clientsByFd[f]
    <2>1. /\ a \in Addr /\ a # NULL /\ clientsByFd' = [clientsByFd EXCEPT ![f] = NULL]
      BY <1>1, <1>4, ReceiverLive DEF RemoveClient, Receives, ForgetFd
    <2>2. clientsByFd'[f] = NULL /\ clientsByFd' # clientsByFd
      BY <1>1, <2>1
    <2>3. view' = [view EXCEPT ![f] = [c \in Chan |-> {}]]
      BY <2>2 DEF ViewCommand
    <2>4. ASSUME NEW c \in Chan PROVE Members(c)' = Members(c) \ {a}
      <3>1. CASE channels[c] = NULL
        BY <1>4, <3>1 DEF RemoveClient, Members
      <3>2. CASE channels[c] # NULL
        <4>1. channels[c] \in ChannelObject
          BY <1>1, <3>2 DEF TypeOK
        <4>2. /\ RemoveFromChannel(channels[c], a).members = channels[c].members \ {a}
              /\ RemoveFromChannel(channels[c], a) \in ChannelObject
          BY <4>1, ChannelSets DEF RemoveFromChannel, ChannelObject
        <4>3. channels'[c] = RemoveIfEmpty(RemoveFromChannel(channels[c], a))
          BY <1>4, <3>2 DEF RemoveClient
        <4> QED
          BY <3>2, <4>2, <4>3, NullAssumption DEF RemoveIfEmpty, Members
      <3> QED
        BY <3>1, <3>2
    <2>5. \A c \in Chan : NULL \notin Members(c)
      BY <1>1, MembersLive
    <2>6. \A g \in Fd \ {f} : clientsByFd'[g] = clientsByFd[g] /\ clientsByFd[g] # a
      BY <1>1, <2>1, ReceiverLive DEF Obj
    <2>7. view' \in Picture /\ \A g \in Fd \ {f} : view'[g] = view[g]
      BY <1>1, <2>3 DEF Picture
    <2>8. \A c \in Chan : view'[f][c] = {}
      BY <1>1, <2>3 DEF Picture
    <2> HIDE DEF a
    <2>9. ASSUME NEW g \in Fd, NEW c \in Chan
          PROVE  IF clientsByFd'[g] \in Members(c)' THEN Members(c)' \subseteq view'[g][c]
                                                    ELSE view'[g][c] = {}
      <3>1. CASE g = f
        BY <2>2, <2>4, <2>5, <2>8, <3>1
      <3>2. CASE g # f
        BY <1>1, <2>4, <2>6, <2>7, <3>2 DEF ViewsComplete
      <3> QED
        BY <3>1, <3>2
    <2>10. ViewsComplete'
      BY <2>9 DEF ViewsComplete
    <2> QED
      BY <2>2, <2>7, <2>10
  <1>5. CASE Dispatch(f)
    <2>1. clientsByFd[f] # NULL /\ clientsByFd' = clientsByFd
      BY <1>5, DispatchKeepsSockets
    <2>2. \A c \in Chan : Members(c)' = Members(c)
      BY <1>1, <1>5, DispatchKeepsMembers
    <2> QED
      BY <1>2, <2>1, <2>2 DEF KeepsViews
  <1> QED
    BY <1>3, <1>4, <1>5 DEF ViewCommand, Command, KeepsViews

-----------------------------------------------------------------------------
LEMMA ViewInvInit == ViewInit => ViewInv
  <1> SUFFICES ASSUME ViewInit PROVE ViewInv
    OBVIOUS
  <1>1. CoreInv
    BY CoreInvInit DEF ViewInit
  <1>2. \A c \in Chan : Members(c) = {}
    BY DEF ViewInit, Init, Members
  <1>3. view \in Picture
    BY DEF ViewInit, Picture
  <1>4. ViewsComplete
    BY <1>2 DEF ViewInit, ViewsComplete
  <1> QED
    BY <1>1, <1>3, <1>4 DEF ViewInv

LEMMA ViewInvNext ==
  ASSUME ViewInv, [ViewNext]_<<vars, view>>
  PROVE  /\ ViewInv'
         /\ clientsByFd' = clientsByFd => StaleShrinks
  <1>1. CoreInv /\ CoreInv'
    <2>1. ViewNext => Next
      BY DEF ViewNext, ViewCommand, ViewTurn, Next
    <2> QED
      BY <2>1, CoreInvNext DEF ViewInv
  <1>2. CASE ViewTurn
    BY <1>1, <1>2, TurnViews DEF KeepsViews, ViewInv
  <1>3. ASSUME NEW f \in Fd, ViewCommand(f)
        PROVE  ViewInv' /\ (clientsByFd' = clientsByFd => StaleShrinks)
    BY <1>1, <1>3, CommandViews DEF ViewInv
  <1>4. CASE UNCHANGED <<vars, view>>
    <2>1. /\ view' = view /\ clientsByFd' = clientsByFd
          /\ \A c \in Chan : Members(c)' = Members(c)
      BY <1>4 DEF vars, Members
    <2> QED
      BY <1>1, <2>1, ViewsKept DEF KeepsViews, ViewInv
  <1> QED
    BY <1>2, <1>3, <1>4 DEF ViewNext

(* A client in a channel has heard of every member, itself included, and   *)
(* one outside knows that it is outside, after any history of joins, kicks,*)
(* lists of both, and lost connections (the names list and the broadcasts  *)
(* of JOIN and KICK).                                                      *)
THEOREM PicturesComplete == ViewSpec => []ViewsComplete
  <1>1. ViewInv /\ [ViewNext]_<<vars, view>> => ViewInv'
    BY ViewInvNext
  <1>2. ViewInv => ViewsComplete
    BY DEF ViewInv
  <1> QED
    BY <1>1, <1>2, ViewInvInit, PTL DEF ViewSpec

(* No command makes a picture stale.  Only a lost connection does, which   *)
(* removeClient tells nobody.                                              *)
THEOREM PicturesDecay == ViewSpec => OnlyLossesUnheard
  <1>1. ViewInv /\ [ViewNext]_<<vars, view>> => ViewInv'
    BY ViewInvNext
  <1>2. ViewInv /\ [ViewNext]_<<vars, view>> =>
          [clientsByFd' = clientsByFd =>
             \A f \in Fd, c \in Chan : Stale(f, c)' \subseteq Stale(f, c)]_<<vars, view>>
    BY ViewInvNext DEF StaleShrinks
  <1> QED
    BY <1>1, <1>2, ViewInvInit, PTL DEF ViewSpec, OnlyLossesUnheard
=============================================================================
