--------------------------- MODULE IRCCoreProofs ---------------------------
(***************************************************************************)
(* Proofs about the command core.  The inductive invariant is built in     *)
(* layers: Base (types, the socket table, the handler in progress) is      *)
(* inductive alone; the nickname table, the registration rule and the      *)
(* channels are then each inductive relative to the layers below.          *)
(***************************************************************************)
EXTENDS IRCSafety, FiniteSetTheorems, TLAPS

(* The handler in progress works for a connected, registered client, and   *)
(* holds a Channel pointer only while that channel exists.                 *)
JobOK ==
  job # NoJob =>
    /\ job.fd \in Fd
    /\ clientsByFd[job.fd] # NULL
    /\ client[clientsByFd[job.fd]].registered
    /\ job.cmd \in {"JOIN", "KICK", "PRIVMSG", "MODE"}
    /\ job.cmd \in {"KICK", "MODE"} => job.chan \in Chan
    /\ job.cmd = "MODE" => channels[job.chan] # NULL
    /\ job.cmd # "MODE" => job.todo # <<>>

Base == TypeOK /\ FdTableExact /\ JobOK

-----------------------------------------------------------------------------
(* No handler in progress: no command, and a NoJob is a Job.               *)
LEMMA NoJobFacts == NoJob.cmd = "none" /\ NoJob \in Job
  <1>1. <<>> \in Seq(Token) /\ <<>> \in Seq(Param) /\ <<>> \in Seq(ModeChar)
    OBVIOUS
  <1>2. NoJob.cmd = "none"
    BY Zenon DEF NoJob
  <1>3. NoJob \in Job
    BY <1>1 DEF NoJob, Job
  <1> QED
    BY <1>2, <1>3

(* The fields of a handler in progress, and what is left of its lists.     *)
LEMMA JobFields ==
  ASSUME NEW j \in Job
  PROVE  /\ j.todo \in Seq(Token) /\ j.params \in Seq(Param)
         /\ j.adding \in BOOLEAN /\ j.finalModes \in Seq(ModeChar)
         /\ j.finalParams \in Seq(Param) /\ j.lastSign \in {"", "+", "-"}
  BY Zenon DEF Job

LEMMA ListTails ==
  ASSUME NEW S, NEW s \in Seq(S)
  PROVE  /\ TailOf(s) \in Seq(S)
         /\ s # <<>> => Head(s) \in S /\ Tail(s) \in Seq(S)
  BY DEF TailOf

-----------------------------------------------------------------------------
(* Types of the operators.                                                 *)

LEMMA NewClientType == \A f \in Fd : NewClient(f) \in ClientObject
  BY DEF NewClient, ClientObject

(* Registration changes nothing but the flag.                              *)
LEMMA TryRegisterType ==
  ASSUME NEW c \in ClientObject
  PROVE  /\ TryRegister(c) \in ClientObject
         /\ TryRegister(c).socketFd = c.socketFd
         /\ TryRegister(c).nickname = c.nickname
         /\ TryRegister(c).username = c.username
         /\ TryRegister(c).passAccepted = c.passAccepted
         /\ TryRegister(c).registered = (c.registered \/ Complete(c))
  BY DEF TryRegister, CanRegister, Complete, ClientObject

(* The setters of a Client keep its type and its socket.                   *)
LEMMA SettersType ==
  ASSUME NEW c \in ClientObject, NEW n \in Nick, NEW u \in UserName
  PROVE  /\ AcceptPassword(c) \in ClientObject
         /\ SetNick(c, n) \in ClientObject
         /\ SetUserName(c, u) \in ClientObject
         /\ AcceptPassword(c).socketFd = c.socketFd
         /\ SetNick(c, n).socketFd = c.socketFd
         /\ SetUserName(c, u).socketFd = c.socketFd
  BY DEF AcceptPassword, SetNick, SetUserName, ClientObject

(* A new Channel is well-typed.                                            *)
LEMMA NewChannelType == NewChannel \in ChannelObject
  <1>1. 0 \in MemberLimit
    <2>1. MaxInt \in Nat
      BY NamesAssumption
    <2> QED
      BY <2>1, SMT DEF MemberLimit
  <1>2. "" \in Param
    BY DEF Param
  <1> QED
    BY <1>1, <1>2 DEF NewChannel, ChannelObject

(* Every operation of a Channel keeps its type.                            *)
LEMMA ChannelOpsType ==
  ASSUME NEW ch \in ChannelObject, NEW a \in Addr, NEW b \in BOOLEAN,
         NEW k \in Param, NEW t \in Topic \cup {""}, NEW m,
         NEW n \in MemberLimit
  PROVE  /\ AddMember(ch, a) \in ChannelObject
         /\ AddOperator(ch, a) \in ChannelObject
         /\ RemoveOperator(ch, a) \in ChannelObject
         /\ AddInvitedMember(ch, a) \in ChannelObject
         /\ RemoveFromChannel(ch, a) \in ChannelObject
         /\ Admit(ch, a, b) \in ChannelObject
         /\ SetRank(ch, a, b) \in ChannelObject
         /\ SetTopic(ch, t) \in ChannelObject
         /\ SetFlag(ch, m, b) \in ChannelObject
         /\ SetProtected(ch, k) \in ChannelObject
         /\ UnsetProtected(ch) \in ChannelObject
         /\ SetLimit(ch, n) \in ChannelObject
         /\ UnsetLimit(ch) \in ChannelObject
  <1>1. AddMember(ch, a) \in ChannelObject
    BY DEF AddMember, ChannelObject
  <1>2. AddOperator(ch, a) \in ChannelObject
    BY DEF AddOperator, ChannelObject
  <1>3. RemoveOperator(ch, a) \in ChannelObject
    BY DEF RemoveOperator, ChannelObject
  <1>4. AddInvitedMember(ch, a) \in ChannelObject
    BY DEF AddInvitedMember, ChannelObject
  <1>5. RemoveFromChannel(ch, a) \in ChannelObject
    BY DEF RemoveFromChannel, ChannelObject
  <1>6. Admit(ch, a, b) \in ChannelObject
    BY DEF Admit, AddMember, AddOperator, ChannelObject
  <1>7. SetRank(ch, a, b) \in ChannelObject
    BY <1>2, <1>3 DEF SetRank
  <1>8. SetTopic(ch, t) \in ChannelObject
    BY DEF SetTopic, ChannelObject
  <1>9. SetFlag(ch, m, b) \in ChannelObject
    BY DEF SetFlag, ChannelObject
  <1>10. SetProtected(ch, k) \in ChannelObject
    BY DEF SetProtected, ChannelObject
  <1>11. UnsetProtected(ch) \in ChannelObject
    BY DEF UnsetProtected, ChannelObject, Param
  <1>12. SetLimit(ch, n) \in ChannelObject
    BY DEF SetLimit, ChannelObject
  <1>13. UnsetLimit(ch) \in ChannelObject
    BY DEF UnsetLimit, ChannelObject
  <1> QED
    BY <1>1, <1>2, <1>3, <1>4, <1>5, <1>6, <1>7, <1>8, <1>9, <1>10, <1>11,
       <1>12, <1>13

(* Replies stay sequences of replies of some kind R, whatever socket they  *)
(* are meant for.                                                          *)
LEMMA RepliesType ==
  ASSUME NEW R, NEW rs \in [Fd -> Seq(R)], NEW f, NEW r \in R, NEW ms, NEW x
  PROVE  /\ NoReplies \in [Fd -> Seq(R)]
         /\ Add(rs, f, r) \in [Fd -> Seq(R)]
         /\ Only(f, r) \in [Fd -> Seq(R)]
         /\ Broadcast(rs, ms, r, x) \in [Fd -> Seq(R)]
  <1>1. NoReplies \in [Fd -> Seq(R)]
    BY DEF NoReplies
  <1>2. ASSUME NEW s \in Seq(R) PROVE Append(s, r) \in Seq(R)
    OBVIOUS
  <1>3. ASSUME NEW qs \in [Fd -> Seq(R)]
        PROVE  Add(qs, f, r) \in [Fd -> Seq(R)]
    BY <1>2 DEF Add
  <1>4. Broadcast(rs, ms, r, x) \in [Fd -> Seq(R)]
    BY <1>2 DEF Broadcast
  <1> QED
    BY <1>1, <1>3, <1>4 DEF Only

-----------------------------------------------------------------------------
(* The clients a command works for.                                        *)

LEMMA ReceiverLive ==
  ASSUME TypeOK, FdTableExact, NEW f \in Fd, clientsByFd[f] # NULL
  PROVE  /\ clientsByFd[f] \in Addr
         /\ clientsByFd[f] \in Live
         /\ Obj(f) \in ClientObject
         /\ Obj(f).socketFd = f
  BY DEF TypeOK, FdTableExact, Live, Obj

(* A live client is a Client object under its own socket.                  *)
LEMMA LiveClient ==
  ASSUME Base, NEW b \in Live
  PROVE  /\ b \in Addr /\ b # NULL
         /\ client[b] \in ClientObject
         /\ client[b].socketFd \in Fd
         /\ clientsByFd[client[b].socketFd] = b
  <1>1. b \in Addr /\ client[b] \in ClientObject /\ b # NULL
    BY NamesAssumption DEF Base, TypeOK, Live
  <1> QED
    BY <1>1 DEF Base, FdTableExact, ClientObject

(* The client a handler in progress works for is live and registered.      *)
LEMMA SelfLive ==
  ASSUME Base, job # NoJob
  PROVE  /\ job.fd \in Fd
         /\ Self \in Addr
         /\ Self \in Live
         /\ client[Self] \in ClientObject
         /\ client[Self].registered
  BY ReceiverLive DEF Base, JobOK, Self, Obj

(* What a step may do to the client tables: add a client, remove one, or   *)
(* store one back, possibly under a new nickname, after the handler of     *)
(* PASS, NICK or USER has filled in a field.                               *)
Stores(f) ==
  /\ Receives(f)
  /\ UNCHANGED <<clientsByFd, channels, job>>
  /\ \E c \in ClientObject :
       /\ c.socketFd = f /\ c.registered = Obj(f).registered
       /\ client' = [client EXCEPT ![clientsByFd[f]] = TryRegister(c)]
       /\ c.registered => c.username = Obj(f).username
                            /\ c.passAccepted = Obj(f).passAccepted
       /\ \/ clientsByNick' = clientsByNick /\ c.nickname = Obj(f).nickname
          \/ \E n \in Nick : /\ ~NickTaken(clientsByFd[f], n)
                             /\ clientsByNick' = Renamed(clientsByFd[f], n)
                             /\ c.nickname = n

(* PASS refuses, or stores the client with its password accepted.          *)
LEMMA PassStores ==
  ASSUME TypeOK, FdTableExact, NEW f \in Fd, NEW p, HandlePass(f, p)
  PROVE  Stores(f) \/ UNCHANGED <<state, job>>
  <1>1. CASE PassReply(Obj(f), p) # Accepted
    BY <1>1 DEF HandlePass, Refuse
  <1>2. CASE PassReply(Obj(f), p) = Accepted
    <2> DEFINE c == AcceptPassword(Obj(f))
    <2>1. Receives(f) /\ StoreAndTryRegister(f, c) /\ UNCHANGED clientsByNick
      BY <1>2 DEF HandlePass
    <2>2. Obj(f) \in ClientObject /\ Obj(f).socketFd = f
      BY <2>1, ReceiverLive DEF Receives
    <2>3. ~Obj(f).registered
      BY <1>2 DEF PassReply, Accepted
    <2>4. /\ c \in ClientObject /\ c.socketFd = f
          /\ c.registered = Obj(f).registered
          /\ c.nickname = Obj(f).nickname
      BY <2>2 DEF AcceptPassword, ClientObject
    <2> HIDE DEF c
    <2> QED
      BY <2>1, <2>3, <2>4 DEF Stores, StoreAndTryRegister
  <1> QED
    BY <1>1, <1>2

(* USER refuses, or stores the client with a user name.                    *)
LEMMA UserStores ==
  ASSUME TypeOK, FdTableExact, NEW f \in Fd, NEW u \in UserName \cup {Missing},
         HandleUser(f, u)
  PROVE  Stores(f) \/ UNCHANGED <<state, job>>
  <1>1. CASE UserReply(Obj(f), u) # Accepted
    BY <1>1 DEF HandleUser, Refuse
  <1>2. CASE UserReply(Obj(f), u) = Accepted
    <2> DEFINE c == SetUserName(Obj(f), u)
    <2>1. Receives(f) /\ StoreAndTryRegister(f, c) /\ UNCHANGED clientsByNick
      BY <1>2 DEF HandleUser
    <2>2. Obj(f) \in ClientObject /\ Obj(f).socketFd = f
      BY <2>1, ReceiverLive DEF Receives
    <2>3. ~Obj(f).registered /\ u \in UserName
      BY <1>2 DEF UserReply, Accepted
    <2>4. /\ c \in ClientObject /\ c.socketFd = f
          /\ c.registered = Obj(f).registered
          /\ c.nickname = Obj(f).nickname
      BY <2>2, <2>3 DEF SetUserName, ClientObject
    <2> HIDE DEF c
    <2> QED
      BY <2>1, <2>3, <2>4 DEF Stores, StoreAndTryRegister
  <1> QED
    BY <1>1, <1>2

(* NICK refuses, or stores the client under a name that is free.           *)
LEMMA NickStores ==
  ASSUME TypeOK, FdTableExact, NEW f \in Fd, NEW p, HandleNick(f, p)
  PROVE  Stores(f) \/ UNCHANGED <<state, job>>
  <1>1. CASE NickReply(clientsByFd[f], p) # Accepted
    BY <1>1 DEF HandleNick, Refuse
  <1>2. CASE NickReply(clientsByFd[f], p) = Accepted
    <2> DEFINE c == SetNick(Obj(f), p)
    <2>1. /\ Receives(f) /\ StoreAndTryRegister(f, c)
          /\ clientsByNick' = Renamed(clientsByFd[f], p)
      BY <1>2 DEF HandleNick
    <2>2. Obj(f) \in ClientObject /\ Obj(f).socketFd = f
      BY <2>1, ReceiverLive DEF Receives
    <2>3. p \in Nick /\ ~NickTaken(clientsByFd[f], p)
      BY <1>2 DEF NickReply, Accepted
    <2>4. /\ c \in ClientObject /\ c.socketFd = f
          /\ c.registered = Obj(f).registered
          /\ c.nickname = p
          /\ c.username = Obj(f).username
          /\ c.passAccepted = Obj(f).passAccepted
      BY <2>2, <2>3 DEF SetNick, ClientObject
    <2> HIDE DEF c
    <2> QED
      BY <2>1, <2>3, <2>4 DEF Stores, StoreAndTryRegister
  <1> QED
    BY <1>1, <1>2

tables == <<clientsByFd, clientsByNick, client>>

(* No turn of a loop touches the client tables.                            *)
LEMMA TurnKeepsTables == Turn => UNCHANGED tables
  <1> SUFFICES ASSUME Turn PROVE UNCHANGED tables
    OBVIOUS
  <1> USE DEF tables, state
  <1>1. CASE JoinStep BY <1>1 DEF JoinStep
  <1>2. CASE KickStep BY <1>2 DEF KickStep
  <1>3. CASE PrivMsgStep BY <1>3 DEF PrivMsgStep
  <1>4. CASE ModeSign BY <1>4 DEF ModeSign
  <1>5. CASE ModeFlag BY <1>5 DEF ModeFlag, Change, Ignore
  <1>6. CASE ModeKey BY <1>6 DEF ModeKey, Change, Ignore
  <1>7. CASE ModeLimit BY <1>7 DEF ModeLimit, Change, Ignore
  <1>8. CASE ModeOperator BY <1>8 DEF ModeOperator, Change, Ignore, Complain
  <1>9. CASE ModeUnknown BY <1>9 DEF ModeUnknown, Complain
  <1>10. CASE ModeEnd BY <1>10 DEF ModeEnd
  <1> QED
    BY <1>1, <1>2, <1>3, <1>4, <1>5, <1>6, <1>7, <1>8, <1>9, <1>10 DEF Turn

(* The commands that are neither a connection event nor part of            *)
(* registration.                                                           *)
Request(f) ==
  \/ NotRegistered(f) \/ HandlePing(f) \/ HandleInvalid(f) \/ HandleCap(f)
  \/ \E list \in JoinLists \cup {Missing}, keys \in KeyLists :
       HandleJoin(f, list, keys)
  \/ \E c \in Chan, nicks \in KickLists \cup {Missing} : HandleKick(f, c, nicks)
  \/ \E n \in Nick \cup {Missing}, c \in Chan : HandleInvite(f, n, c)
  \/ \E c \in Chan, t \in Topic \cup {"", Query, Missing} : HandleTopic(f, c, t)
  \/ \E c \in Chan, modes \in ModeStrings \cup {Query, Missing},
        params \in ModeParams : HandleMode(f, c, modes, params)
  \/ \E targets \in MsgLists \cup {Missing}, hasText \in BOOLEAN :
       HandlePrivMsg(f, targets, hasText)

(* No request on channels or messages touches the two client tables.       *)
LEMMA RequestKeepsTables ==
  ASSUME NEW f, Request(f)
  PROVE  UNCHANGED tables
  <1> USE DEF tables, state
  <1>1. CASE NotRegistered(f) BY <1>1 DEF NotRegistered, Refuse
  <1>2. CASE HandlePing(f) BY <1>2 DEF HandlePing, Refuse
  <1>3. CASE HandleInvalid(f) BY <1>3 DEF HandleInvalid, Refuse
  <1>4. CASE HandleCap(f) BY <1>4 DEF HandleCap
  <1>5. ASSUME NEW l, NEW k, HandleJoin(f, l, k) PROVE UNCHANGED tables
    BY <1>5 DEF HandleJoin, Refuse, Start
  <1>6. ASSUME NEW c, NEW l, HandleKick(f, c, l) PROVE UNCHANGED tables
    BY <1>6 DEF HandleKick, Refuse, Start
  <1>7. ASSUME NEW n, NEW c, HandleInvite(f, n, c) PROVE UNCHANGED tables
    BY <1>7 DEF HandleInvite, Refuse
  <1>8. ASSUME NEW c, NEW t, HandleTopic(f, c, t) PROVE UNCHANGED tables
    BY <1>8 DEF HandleTopic, Refuse
  <1>9. ASSUME NEW c, NEW m, NEW p, HandleMode(f, c, m, p)
        PROVE  UNCHANGED tables
    BY <1>9 DEF HandleMode, Refuse, Start
  <1>10. ASSUME NEW l, NEW h, HandlePrivMsg(f, l, h) PROVE UNCHANGED tables
    BY <1>10 DEF HandlePrivMsg, Refuse, Start
  <1> HIDE DEF tables, state
  <1> QED
    BY <1>1, <1>2, <1>3, <1>4, <1>5, <1>6, <1>7, <1>8, <1>9, <1>10 DEF Request

(* Every step is one of five kinds.                                        *)
LEMMA StepKinds ==
  ASSUME TypeOK, FdTableExact, Next
  PROVE  \/ \E f \in Fd, a \in Addr : AddNewClient(f, a)
         \/ \E f \in Fd : RemoveClient(f)
         \/ \E f \in Fd : Stores(f)
         \/ UNCHANGED <<state, job>>
         \/ \E f \in Fd : Request(f)
         \/ Turn
  <1>1. ASSUME NEW f \in Fd, NEW p \in Param \cup {Missing}, HandlePass(f, p)
        PROVE  Stores(f) \/ UNCHANGED <<state, job>>
    BY <1>1, PassStores
  <1>2. ASSUME NEW f \in Fd, NEW p \in Param \cup {Missing}, HandleNick(f, p)
        PROVE  Stores(f) \/ UNCHANGED <<state, job>>
    BY <1>2, NickStores
  <1>3. ASSUME NEW f \in Fd, NEW u \in UserName \cup {Missing}, HandleUser(f, u)
        PROVE  Stores(f) \/ UNCHANGED <<state, job>>
    BY <1>3, UserStores
  <1>4. ASSUME NEW f \in Fd, Command(f)
        PROVE  \/ \E a \in Addr : AddNewClient(f, a)
               \/ RemoveClient(f) \/ Stores(f) \/ UNCHANGED <<state, job>>
               \/ Request(f)
    BY <1>1, <1>2, <1>3, <1>4 DEF Command, Dispatch, Request
  <1> QED
    BY <1>4 DEF Next

-----------------------------------------------------------------------------
(* What a step may do to one channel c, replacing it with `new'.           *)

Joins(c, new) ==
  LET isNew == channels[c] = NULL
      old   == IF isNew THEN NewChannel ELSE channels[c]
  IN  /\ job # NoJob /\ job.cmd = "JOIN" /\ Self \notin old.members
      /\ isNew \/ ~Full(old)
      /\ new = Admit(old, Self, isNew)

Kicks(c, new) ==
  /\ job.cmd = "KICK" /\ channels[c] # NULL
  /\ \E t \in channels[c].members :
       new = RemoveIfEmpty(RemoveFromChannel(channels[c], t))

Invites(c, new) ==
  /\ job = NoJob /\ channels[c] # NULL
  /\ \E n \in Nick : /\ clientsByNick[n] # NULL
                     /\ new = AddInvitedMember(channels[c], clientsByNick[n])

LimitFollows(old, new) ==
  new.memberLimited =>
    new.maxMember # 0 \/ (old.memberLimited /\ new.maxMember = old.maxMember)

Tunes(c, new) ==
  /\ channels[c] # NULL
  /\ new \in ChannelObject
  /\ new.members = channels[c].members /\ new.invited = channels[c].invited
  /\ \/ new.operators = channels[c].operators
     \/ /\ job.cmd = "MODE" /\ job.chan = c
        /\ new.operators \subseteq channels[c].operators \cup channels[c].members
  /\ job.cmd = "MODE" => /\ c = job.chan /\ new.topic = channels[c].topic
                         /\ LimitFollows(channels[c], new)

Changes(c) ==
  \E new : /\ channels' = [channels EXCEPT ![c] = new]
           /\ Joins(c, new) \/ Kicks(c, new) \/ Invites(c, new) \/ Tunes(c, new)

(* A turn of JOIN changes at most one channel, in one of the known ways.   *)
LEMMA JoinChanges ==
  ASSUME Base, JoinStep
  PROVE  UNCHANGED channels \/ \E c \in Chan : Changes(c)
  <1> DEFINE c     == Current
             isNew == channels[c] = NULL
             old   == IF isNew THEN NewChannel ELSE channels[c]
             reply == IF isNew THEN Accepted ELSE Barred(old, Self, JoinKey)
             new   == Admit(old, Self, isNew)
  <1>1. job # NoJob /\ job.cmd = "JOIN"
    BY NoJobFacts DEF JoinStep, InLoop
  <1>2. CASE UNCHANGED channels
    BY <1>2
  <1>3. CASE /\ c \in Chan /\ Self \notin old.members /\ reply = Accepted
             /\ channels' = [channels EXCEPT ![c] = new]
    <2>1. isNew \/ ~Full(old)
      BY <1>3 DEF Barred, Accepted
    <2>2. Joins(c, new)
      BY <1>1, <1>3, <2>1 DEF Joins
    <2> QED
      BY <1>3, <2>2 DEF Changes
  <1> QED
    BY <1>2, <1>3 DEF JoinStep

(* A turn of KICK changes at most one channel, in one of the known ways.   *)
LEMMA KickChanges ==
  ASSUME Base, KickStep
  PROVE  UNCHANGED channels \/ \E c \in Chan : Changes(c)
  <1> DEFINE c   == job.chan
             t   == FindNick(Current)
             new == RemoveIfEmpty(RemoveFromChannel(channels[c], t))
  <1>1. c \in Chan
    BY NoJobFacts DEF Base, JobOK, KickStep, InLoop
  <1>2. CASE KickReply(Self, c, Current) # Accepted
    BY <1>2 DEF KickStep
  <1>3. CASE KickReply(Self, c, Current) = Accepted
    <2>1. channels[c] # NULL /\ t \in channels[c].members
      BY <1>3 DEF KickReply, Accepted
    <2>2. channels' = [channels EXCEPT ![c] = new]
      BY <1>3 DEF KickStep
    <2> QED
      BY <1>1, <2>1, <2>2 DEF Changes, Kicks, KickStep, InLoop
  <1> QED
    BY <1>2, <1>3

(* A turn of MODE that replaces its channel changes it in a known way.     *)
LEMMA ModeChanges ==
  ASSUME Base, NEW new \in ChannelObject, NEW popped, NEW p, job.cmd = "MODE",
         Change(new, popped, p),
         new.members = ModeChannel.members, new.invited = ModeChannel.invited,
         new.topic = ModeChannel.topic, LimitFollows(ModeChannel, new),
         new.operators \subseteq ModeChannel.operators \cup ModeChannel.members
  PROVE  \E c \in Chan : Changes(c)
  <1>1. job.chan \in Chan /\ channels[job.chan] # NULL
    BY NoJobFacts DEF Base, JobOK
  <1>2. Tunes(job.chan, new)
    BY <1>1 DEF Tunes, ModeChannel
  <1> QED
    BY <1>1, <1>2 DEF Changes, Change

(* The operators of modes leave everything else alone.                     *)
Alike(ch, new) ==
  /\ new.members = ch.members /\ new.invited = ch.invited
  /\ new.operators = ch.operators /\ new.topic = ch.topic

LEMMA ModeOpsKeep ==
  ASSUME NEW ch \in ChannelObject, NEW b, NEW k,
         NEW m, NEW n
  PROVE  /\ Alike(ch, SetFlag(ch, m, b)) /\ LimitFollows(ch, SetFlag(ch, m, b))
         /\ Alike(ch, SetProtected(ch, k)) /\ LimitFollows(ch, SetProtected(ch, k))
         /\ Alike(ch, UnsetProtected(ch)) /\ LimitFollows(ch, UnsetProtected(ch))
         /\ Alike(ch, SetLimit(ch, n)) /\ (n # 0 => LimitFollows(ch, SetLimit(ch, n)))
         /\ Alike(ch, UnsetLimit(ch)) /\ LimitFollows(ch, UnsetLimit(ch))
  <1> USE DEF ChannelObject, Alike, LimitFollows
  <1>1. Alike(ch, SetFlag(ch, m, b)) /\ LimitFollows(ch, SetFlag(ch, m, b))
    BY DEF SetFlag
  <1>2. Alike(ch, SetProtected(ch, k)) /\ LimitFollows(ch, SetProtected(ch, k))
    BY DEF SetProtected
  <1>3. Alike(ch, UnsetProtected(ch)) /\ LimitFollows(ch, UnsetProtected(ch))
    BY DEF UnsetProtected
  <1>4. Alike(ch, SetLimit(ch, n)) /\ (n # 0 => LimitFollows(ch, SetLimit(ch, n)))
    BY DEF SetLimit
  <1>5. Alike(ch, UnsetLimit(ch)) /\ LimitFollows(ch, UnsetLimit(ch))
    BY DEF UnsetLimit
  <1> QED
    BY <1>1, <1>2, <1>3, <1>4, <1>5

(* +o and -o touch nothing but the operators.                              *)
LEMMA SetRankKeeps ==
  ASSUME NEW ch \in ChannelObject, NEW a \in ch.members, NEW b \in BOOLEAN
  PROVE  /\ SetRank(ch, a, b) \in ChannelObject
         /\ SetRank(ch, a, b).members = ch.members
         /\ SetRank(ch, a, b).invited = ch.invited
         /\ SetRank(ch, a, b).operators \subseteq ch.operators \cup ch.members
         /\ SetRank(ch, a, b).topic = ch.topic
         /\ LimitFollows(ch, SetRank(ch, a, b))
  BY DEF SetRank, AddOperator, RemoveOperator, ChannelObject, LimitFollows

(* During a MODE line the channel is there, and the arguments have types.  *)
LEMMA ModeLive ==
  ASSUME Base, job.cmd = "MODE"
  PROVE  /\ ModeChannel \in ChannelObject
         /\ job.chan \in Chan
         /\ job.adding \in BOOLEAN
         /\ job # NoJob
  <1>1. job # NoJob
    BY NoJobFacts
  <1>2. job.chan \in Chan /\ channels[job.chan] # NULL
    BY <1>1 DEF Base, JobOK
  <1>3. job.adding \in BOOLEAN
    BY DEF Base, TypeOK, Job
  <1>4. channels[job.chan] \in ChannelObject
    BY <1>2 DEF Base, TypeOK
  <1> QED
    BY <1>1, <1>2, <1>3, <1>4 DEF ModeChannel

(* Every turn of a loop changes at most one channel, in a known way.       *)
LEMMA TurnChanges ==
  ASSUME Base, Turn
  PROVE  UNCHANGED channels \/ \E c \in Chan : Changes(c)
  <1> USE ModeLive
  <1>1. CASE JoinStep BY <1>1, JoinChanges
  <1>2. CASE KickStep BY <1>2, KickChanges
  <1>3. CASE PrivMsgStep BY <1>3 DEF PrivMsgStep, state
  <1>4. CASE ModeSign BY <1>4 DEF ModeSign, state
  <1>5. CASE ModeFlag
    <2> DEFINE new == SetFlag(ModeChannel, Current, job.adding)
    <2>1. job.cmd = "MODE"
      BY <1>5 DEF ModeFlag, InMode, InLoop
    <2>2. UNCHANGED channels \/ Change(new, FALSE, "")
      BY <1>5 DEF ModeFlag, Ignore, state
    <2>3. new \in ChannelObject
      BY <2>1 DEF SetFlag, ChannelObject
    <2>4. Alike(ModeChannel, new) /\ LimitFollows(ModeChannel, new)
      BY <2>1, ModeOpsKeep
    <2> HIDE DEF new
    <2> QED
      BY <2>1, <2>2, <2>3, <2>4, ModeChanges DEF Alike
  <1>6. CASE ModeKey
    <2>1. job.cmd = "MODE"
      BY <1>6 DEF ModeKey, InMode, InLoop
    <2>2. CASE UNCHANGED channels BY <2>2
    <2>3. CASE /\ HasParam
               /\ Change(SetProtected(ModeChannel, Head(job.params)), TRUE,
                         Head(job.params))
      <3> DEFINE new == SetProtected(ModeChannel, Head(job.params))
      <3>1. Head(job.params) \in Param
        BY <2>3, JobFields, ListTails DEF HasParam, Base, TypeOK
      <3>2. new \in ChannelObject
        BY <2>1, <3>1 DEF SetProtected, ChannelObject
      <3> QED
        BY <2>1, <2>3, <3>2, ModeOpsKeep, ModeChanges DEF Alike
    <2>4. CASE Change(UnsetProtected(ModeChannel), TRUE, "")
      <3>1. UnsetProtected(ModeChannel) \in ChannelObject
        BY <2>1 DEF UnsetProtected, ChannelObject, Param
      <3> QED
        BY <2>1, <2>4, <3>1, ModeOpsKeep, ModeChanges DEF Alike
    <2> QED
      BY <1>6, <2>2, <2>3, <2>4 DEF ModeKey, Ignore, state
  <1>7. CASE ModeLimit
    <2> DEFINE n == Atoi[Head(job.params)]
    <2>1. job.cmd = "MODE"
      BY <1>7 DEF ModeLimit, InMode, InLoop
    <2>2. CASE UNCHANGED channels BY <2>2
    <2>3. CASE /\ HasParam /\ ValidLimit(n)
               /\ Change(SetLimit(ModeChannel, n), TRUE, Head(job.params))
      <3>1. Head(job.params) \in Param
        BY <2>3, JobFields, ListTails DEF HasParam, Base, TypeOK
      <3>2. n \in CInt /\ MaxInt \in Nat
        BY <3>1, NamesAssumption
      <3>3. n \in MemberLimit /\ n # 0
        BY <2>3, <3>2, SMT DEF CInt, MemberLimit, ValidLimit
      <3>4. SetLimit(ModeChannel, n) \in ChannelObject
        BY <2>1, <3>3 DEF SetLimit, ChannelObject
      <3> HIDE DEF n
      <3> QED
        BY <2>1, <2>3, <3>3, <3>4, ModeOpsKeep, ModeChanges DEF Alike
    <2>4. CASE Change(UnsetLimit(ModeChannel), FALSE, "")
      <3>1. UnsetLimit(ModeChannel) \in ChannelObject
        BY <2>1 DEF UnsetLimit, ChannelObject
      <3> QED
        BY <2>1, <2>4, <3>1, ModeOpsKeep, ModeChanges DEF Alike
    <2> QED
      BY <1>7, <2>2, <2>3, <2>4 DEF ModeLimit, Ignore, state
  <1>8. CASE ModeOperator
    <2> DEFINE t   == FindNick(Head(job.params))
               new == SetRank(ModeChannel, t, job.adding)
    <2>1. job.cmd = "MODE"
      BY <1>8 DEF ModeOperator, InMode, InLoop
    <2>2. CASE UNCHANGED channels BY <2>2
    <2>3. CASE /\ Rankable(ModeChannel, t)
               /\ Change(new, TRUE, Head(job.params))
      <3>1. t \in ModeChannel.members
        BY <2>3 DEF Rankable
      <3> HIDE DEF t
      <3> QED
        BY <2>1, <2>3, <3>1, SetRankKeeps, ModeChanges
    <2> QED
      BY <1>8, <2>2, <2>3 DEF ModeOperator, Ignore, Complain, state
  <1>9. CASE ModeUnknown BY <1>9 DEF ModeUnknown, Complain, state
  <1>10. CASE ModeEnd BY <1>10 DEF ModeEnd, state
  <1> QED
    BY <1>1, <1>2, <1>3, <1>4, <1>5, <1>6, <1>7, <1>8, <1>9, <1>10 DEF Turn

(* INVITE changes at most one channel, in one of the known ways.           *)
LEMMA InviteChanges ==
  ASSUME Base, NEW f \in Fd, NEW n \in Nick \cup {Missing}, NEW c \in Chan,
         HandleInvite(f, n, c)
  PROVE  UNCHANGED channels \/ Changes(c)
  <1> DEFINE t == FindNick(n)
  <1>1. job = NoJob
    BY DEF HandleInvite, MayUse, Receives
  <1>2. CASE UNCHANGED channels
    BY <1>2
  <1>3. CASE /\ InviteReply(clientsByFd[f], n, c) = Accepted
             /\ channels' = [channels EXCEPT ![c] = AddInvitedMember(@, t)]
    <2>1. channels[c] # NULL /\ t # NULL /\ n # Missing
      BY <1>3 DEF InviteReply, Accepted
    <2>2. n \in Nick /\ t = clientsByNick[n]
      BY <2>1 DEF FindNick
    <2>3. channels \in [Chan -> ChannelObject \cup {NULL}]
      BY DEF Base, TypeOK
    <2>4. channels' = [channels EXCEPT ![c] = AddInvitedMember(channels[c], t)]
      BY <1>3, <2>3
    <2> QED
      BY <1>1, <2>1, <2>2, <2>4 DEF Changes, Invites
  <1> QED
    BY <1>2, <1>3 DEF HandleInvite, Refuse, state

(* TOPIC changes at most one channel, in one of the known ways.            *)
LEMMA TopicChanges ==
  ASSUME Base, NEW f \in Fd, NEW c \in Chan,
         NEW t \in Topic \cup {"", Query, Missing}, HandleTopic(f, c, t)
  PROVE  UNCHANGED channels \/ Changes(c)
  <1>1. CASE UNCHANGED channels
    BY <1>1
  <1>2. CASE /\ t # Missing /\ TopicReply(clientsByFd[f], c, t) = Accepted
             /\ channels' = [channels EXCEPT ![c] = SetTopic(@, t)]
    <2>1. channels[c] # NULL /\ t \in Topic \cup {""}
      BY <1>2 DEF TopicReply, Accepted
    <2>2. channels[c] \in ChannelObject
      BY <2>1 DEF Base, TypeOK
    <2>3. channels' = [channels EXCEPT ![c] = SetTopic(channels[c], t)]
      BY <1>2 DEF Base, TypeOK
    <2>4. job.cmd # "MODE"
      BY NoJobFacts DEF HandleTopic, MayUse, Receives
    <2>5. Tunes(c, SetTopic(channels[c], t))
      BY <2>1, <2>2, <2>4 DEF Tunes, SetTopic, ChannelObject
    <2> QED
      BY <2>3, <2>5 DEF Changes
  <1> QED
    BY <1>1, <1>2 DEF HandleTopic, Refuse, state, Accepted

(* Every request changes at most one channel, in a known way.              *)
LEMMA RequestChanges ==
  ASSUME Base, NEW f \in Fd, Request(f)
  PROVE  UNCHANGED channels \/ \E c \in Chan : Changes(c)
  <1> USE DEF state
  <1>1. CASE NotRegistered(f) BY <1>1 DEF NotRegistered, Refuse
  <1>2. CASE HandlePing(f) BY <1>2 DEF HandlePing, Refuse
  <1>3. CASE HandleInvalid(f) BY <1>3 DEF HandleInvalid, Refuse
  <1>4. CASE HandleCap(f) BY <1>4 DEF HandleCap
  <1>5. ASSUME NEW l, NEW k, HandleJoin(f, l, k) PROVE UNCHANGED channels
    BY <1>5 DEF HandleJoin, Refuse, Start
  <1>6. ASSUME NEW c, NEW l, HandleKick(f, c, l) PROVE UNCHANGED channels
    BY <1>6 DEF HandleKick, Refuse, Start
  <1>7. ASSUME NEW c, NEW m, NEW p, HandleMode(f, c, m, p)
        PROVE  UNCHANGED channels
    BY <1>7 DEF HandleMode, Refuse, Start
  <1>8. ASSUME NEW l, NEW h, HandlePrivMsg(f, l, h) PROVE UNCHANGED channels
    BY <1>8 DEF HandlePrivMsg, Refuse, Start
  <1> QED
    BY <1>1, <1>2, <1>3, <1>4, <1>5, <1>6, <1>7, <1>8, InviteChanges,
       TopicChanges DEF Request

(* A changed channel keeps its type, and only KICK can make it go away.    *)
LEMMA NewType ==
  ASSUME Base, NEW c \in Chan, NEW new,
         Joins(c, new) \/ Kicks(c, new) \/ Invites(c, new) \/ Tunes(c, new)
  PROVE  /\ new \in ChannelObject \cup {NULL}
         /\ job.cmd # "KICK" => new \in ChannelObject
  <1>1. channels[c] \in ChannelObject \cup {NULL}
    BY DEF Base, TypeOK
  <1>2. CASE Joins(c, new)
    <2> DEFINE old == IF channels[c] = NULL THEN NewChannel ELSE channels[c]
    <2>1. old \in ChannelObject
      BY <1>1, NewChannelType
    <2>2. Self \in Addr
      BY <1>2, SelfLive DEF Joins
    <2>3. new = Admit(old, Self, channels[c] = NULL)
      BY <1>2 DEF Joins
    <2> HIDE DEF old
    <2> QED
      BY <2>1, <2>2, <2>3 DEF Admit, AddMember, AddOperator, ChannelObject
  <1>3. CASE Kicks(c, new)
    <2>1. PICK t \in channels[c].members :
            new = RemoveIfEmpty(RemoveFromChannel(channels[c], t))
      BY <1>3 DEF Kicks
    <2>2. channels[c] \in ChannelObject
      BY <1>1, <1>3 DEF Kicks
    <2>3. RemoveFromChannel(channels[c], t) \in ChannelObject
      BY <2>2 DEF RemoveFromChannel, ChannelObject
    <2>4. new \in ChannelObject \cup {NULL}
      BY <2>1, <2>3 DEF RemoveIfEmpty
    <2> QED
      BY <1>3, <2>4 DEF Kicks
  <1>4. CASE Invites(c, new)
    <2>1. PICK n \in Nick : /\ clientsByNick[n] # NULL
                            /\ new = AddInvitedMember(channels[c], clientsByNick[n])
      BY <1>4 DEF Invites
    <2>2. clientsByNick[n] \in Addr
      BY <2>1 DEF Base, TypeOK
    <2>3. channels[c] \in ChannelObject
      BY <1>1, <1>4 DEF Invites
    <2> QED
      BY <2>1, <2>2, <2>3 DEF AddInvitedMember, ChannelObject
  <1>5. CASE Tunes(c, new)
    BY <1>5 DEF Tunes
  <1> QED
    BY <1>2, <1>3, <1>4, <1>5

(* A changed channel is well-typed, and only KICK can make one vanish.     *)
LEMMA ChangesType ==
  ASSUME Base, NEW c \in Chan, Changes(c)
  PROVE  /\ channels' \in [Chan -> ChannelObject \cup {NULL}]
         /\ job.cmd # "KICK" =>
              \A d \in Chan : channels[d] # NULL => channels'[d] # NULL
  <1>1. PICK new : /\ channels' = [channels EXCEPT ![c] = new]
                   /\ Joins(c, new) \/ Kicks(c, new) \/ Invites(c, new) \/ Tunes(c, new)
    BY DEF Changes
  <1>2. channels \in [Chan -> ChannelObject \cup {NULL}]
    BY DEF Base, TypeOK
  <1>3. channels' = [channels EXCEPT ![c] = new]
    BY <1>1
  <1>4. new \in ChannelObject \cup {NULL} /\ (job.cmd # "KICK" => new \in ChannelObject)
    BY <1>1, NewType
  <1> QED
    BY <1>2, <1>3, <1>4, NullAssumption

-----------------------------------------------------------------------------
(* Every reply a step queues is one the server knows.                      *)
Results == [Fd -> Seq(Reply)]

(* What a command other than PASS, NICK and USER answers, and every turn:  *)
(* anything but the welcome.                                               *)
Others == Reply \ {"001"}

(* The replies of such a command.                                          *)
LEMMA RequestResult ==
  ASSUME NEW R, Others \subseteq R, NEW f, Request(f)
  PROVE  result' \in [Fd -> Seq(R)]
  <1> DEFINE RR == [Fd -> Seq(R)]
  <1>1. NoReplies \in RR
    BY DEF NoReplies
  <1>2. ASSUME NEW r \in R PROVE Only(f, r) \in RR
    BY <1>1, RepliesType
  <1>3. ASSUME NEW r \in R \cup {Accepted}, r # Accepted, Refuse(f, r)
        PROVE  result' \in RR
    BY <1>2, <1>3 DEF Refuse
  <1>4. ASSUME NEW j, NEW c, NEW l, NEW p, Start(j, f, c, l, p)
        PROVE  result' \in RR
    BY <1>1, <1>4 DEF Start
  <1>5. {"CAP", "451", "PONG", "421", "461", "403", "341", "INVITE", "TOPIC", "411",
         "412"} \subseteq R
    BY DEF Others, Reply
  <1>6. CASE NotRegistered(f) \/ HandlePing(f) \/ HandleInvalid(f)
    BY <1>3, <1>5, <1>6 DEF NotRegistered, HandlePing, HandleInvalid, Accepted
  <1>7. CASE HandleCap(f)
    BY <1>1, <1>2, <1>5, <1>7 DEF HandleCap
  <1>8. ASSUME NEW l, NEW k, HandleJoin(f, l, k) PROVE result' \in RR
    BY <1>3, <1>4, <1>5, <1>8 DEF HandleJoin, Accepted
  <1>9. ASSUME NEW c, NEW l, HandleKick(f, c, l) PROVE result' \in RR
    BY <1>3, <1>4, <1>5, <1>9 DEF HandleKick, Accepted
  <1>10. ASSUME NEW n, NEW c, HandleInvite(f, n, c) PROVE result' \in RR
    <2>1. InviteReply(clientsByFd[f], n, c) \in R \cup {Accepted}
      BY DEF InviteReply, Others, Reply
    <2>2. Only(f, "341") \in RR
      BY <1>2, <1>5
    <2>3. ASSUME NEW g PROVE Add(Only(f, "341"), g, "INVITE") \in RR
      BY <1>5, <2>2, RepliesType
    <2> QED
      BY <1>1, <1>3, <1>10, <2>1, <2>3 DEF HandleInvite
  <1>11. ASSUME NEW c, NEW t, HandleTopic(f, c, t) PROVE result' \in RR
    <2>1. (IF t = Missing THEN "461" ELSE TopicReply(clientsByFd[f], c, t))
             \in R \cup {Accepted}
      BY DEF TopicReply, Others, Reply
    <2>2. ASSUME NEW ms, NEW x PROVE Broadcast(NoReplies, ms, "TOPIC", x) \in RR
      BY <1>1, <1>5, RepliesType
    <2> QED
      BY <1>3, <1>11, <2>1, <2>2 DEF HandleTopic
  <1>12. ASSUME NEW c, NEW m, NEW p, HandleMode(f, c, m, p) PROVE result' \in RR
    <2>1. ModeReply(clientsByFd[f], c, m) \in R \cup {Accepted}
      BY DEF ModeReply, Others, Reply
    <2> QED
      BY <1>3, <1>4, <1>12, <2>1 DEF HandleMode
  <1>13. ASSUME NEW l, NEW h, HandlePrivMsg(f, l, h) PROVE result' \in RR
    BY <1>3, <1>4, <1>5, <1>13 DEF HandlePrivMsg, Accepted
  <1> QED
    BY <1>6, <1>7, <1>8, <1>9, <1>10, <1>11, <1>12, <1>13 DEF Request

(* The replies of a command are well-typed.                                *)
LEMMA CommandResult ==
  ASSUME TypeOK, NEW f \in Fd, Command(f)
  PROVE  result' \in Results
  <1>1. NoReplies \in Results
    BY DEF NoReplies, Results
  <1>2. ASSUME NEW r \in Reply PROVE Only(f, r) \in Results
    BY <1>1, RepliesType DEF Results
  <1>3. ASSUME NEW r \in Reply \cup {Accepted}, r # Accepted, Refuse(f, r)
        PROVE  result' \in Results
    BY <1>2, <1>3 DEF Refuse
  <1>4. ASSUME NEW c, StoreAndTryRegister(f, c) PROVE result' \in Results
    <2>1. "001" \in Reply
      BY DEF Reply
    <2> QED
      BY <1>1, <1>2, <1>4, <2>1 DEF StoreAndTryRegister
  <1>5. CASE \/ \E a \in Addr : AddNewClient(f, a)
             \/ RemoveClient(f)
    BY <1>1, <1>5 DEF AddNewClient, RemoveClient
  <1>6. ASSUME NEW p, HandlePass(f, p) PROVE result' \in Results
    <2>1. PassReply(Obj(f), p) \in Reply \cup {Accepted}
      BY DEF PassReply, Reply
    <2> QED
      BY <1>3, <1>4, <1>6, <2>1 DEF HandlePass
  <1>7. ASSUME NEW p, HandleNick(f, p) PROVE result' \in Results
    <2>1. NickReply(clientsByFd[f], p) \in Reply \cup {Accepted}
      BY DEF NickReply, Reply
    <2> QED
      BY <1>3, <1>4, <1>7, <2>1 DEF HandleNick
  <1>8. ASSUME NEW u, HandleUser(f, u) PROVE result' \in Results
    <2>1. UserReply(Obj(f), u) \in Reply \cup {Accepted}
      BY DEF UserReply, Reply
    <2> QED
      BY <1>3, <1>4, <1>8, <2>1 DEF HandleUser
  <1>9. CASE Request(f)
    BY <1>9, RequestResult DEF Others, Results
  <1> QED
    BY <1>5, <1>6, <1>7, <1>8, <1>9 DEF Command, Dispatch, Request

(* The replies of a turn.                                                  *)
LEMMA TurnAdds ==
  ASSUME NEW R, Others \subseteq R, result \in [Fd -> Seq(R)], Turn
  PROVE  result' \in [Fd -> Seq(R)]
  <1> DEFINE RR == [Fd -> Seq(R)]
  <1>1. ASSUME NEW r \in R PROVE Add(result, job.fd, r) \in RR
    BY RepliesType
  <1>2. ASSUME NEW r \in R, NEW ms, NEW x PROVE Broadcast(result, ms, r, x) \in RR
    BY RepliesType
  <1>3. ASSUME NEW p, NEW r \in R, Complain(p, r) PROVE result' \in RR
    BY <1>1, <1>3 DEF Complain
  <1>4. ASSUME NEW p, NEW ch, NEW q, Change(ch, p, q) \/ Ignore(p)
        PROVE  result' \in RR
    BY <1>4 DEF Change, Ignore
  <1>5. {"331", "332", "353", "403", "JOIN", "KICK", "PRIVMSG", "MODE", "401", "441",
         "472"} \subseteq R
    BY DEF Others, Reply
  <1>6. CASE JoinStep
    <2>1. ASSUME NEW ch PROVE JoinReplies(ch) \in RR
      <3>1. Broadcast(result, ch.members, "JOIN", NULL) \in RR
        BY <1>2, <1>5
      <3>2. (IF ch.topic = "" THEN "331" ELSE "332") \in R /\ "353" \in R
        BY <1>5
      <3>3. ASSUME NEW rs \in RR, NEW r \in R PROVE Add(rs, job.fd, r) \in RR
        BY RepliesType
      <3> QED
        BY <3>1, <3>2, <3>3 DEF JoinReplies
    <2>2. ASSUME NEW ch, NEW a, NEW k, Barred(ch, a, k) # Accepted
          PROVE  Barred(ch, a, k) \in R
      BY <2>2 DEF Barred, Others, Reply
    <2> QED
      BY <1>1, <1>5, <1>6, <2>1, <2>2 DEF JoinStep
  <1>7. CASE KickStep
    <2>1. KickReply(Self, job.chan, Current) \in R \cup {Accepted}
      BY DEF KickReply, Others, Reply
    <2> QED
      BY <1>1, <1>2, <1>5, <1>7, <2>1 DEF KickStep
  <1>8. CASE PrivMsgStep
    <2>1. MsgReply(Self, Current) \in R \cup {Accepted}
      BY DEF MsgReply, Others, Reply
    <2>2. ASSUME NEW g PROVE Add(result, g, "PRIVMSG") \in RR
      BY <1>5, RepliesType
    <2> QED
      BY <1>1, <1>2, <1>5, <1>8, <2>1, <2>2 DEF PrivMsgStep
  <1>9. CASE ModeSign
    BY <1>9 DEF ModeSign
  <1>10. CASE ModeFlag
    BY <1>4, <1>10 DEF ModeFlag
  <1>11. CASE ModeKey
    BY <1>4, <1>11 DEF ModeKey
  <1>12. CASE ModeLimit
    BY <1>4, <1>12 DEF ModeLimit
  <1>13. CASE ModeOperator
    BY <1>3, <1>4, <1>5, <1>13 DEF ModeOperator
  <1>14. CASE ModeUnknown
    BY <1>3, <1>5, <1>14 DEF ModeUnknown
  <1>15. CASE ModeEnd
    BY <1>2, <1>5, <1>15 DEF ModeEnd
  <1> QED
    BY <1>6, <1>7, <1>8, <1>9, <1>10, <1>11, <1>12, <1>13, <1>14, <1>15 DEF Turn

LEMMA TurnResult ==
  ASSUME TypeOK, Turn
  PROVE  result' \in Results
  BY TurnAdds DEF TypeOK, Others, Results

-----------------------------------------------------------------------------
(* The handler in progress.                                                *)

(* What Start makes the handler in progress work on.                       *)
LEMMA StartsCmd ==
  ASSUME NEW cmd, NEW f, NEW c, NEW todo, NEW params,
         Start(cmd, f, c, todo, params)
  PROVE  /\ job' = [cmd |-> cmd, fd |-> f, chan |-> c, todo |-> todo,
                    params |-> params, adding |-> TRUE,
                    finalModes |-> <<>>, finalParams |-> <<>>, lastSign |-> ""]
         /\ job'.cmd = cmd /\ job'.fd = f /\ job'.chan = c
  <1>1. job' = [cmd |-> cmd, fd |-> f, chan |-> c, todo |-> todo,
                params |-> params, adding |-> TRUE,
                finalModes |-> <<>>, finalParams |-> <<>>, lastSign |-> ""]
    BY Zenon DEF Start, NoJob
  <1>2. job'.cmd = cmd
    BY <1>1, Zenon
  <1>3. job'.fd = f
    BY <1>1, Zenon
  <1>4. job'.chan = c
    BY <1>1, Zenon
  <1> QED
    BY <1>1, <1>2, <1>3, <1>4, Zenon

(* Starting a loop: the caller is registered and the list is well formed.  *)
LEMMA StartJob ==
  ASSUME Base, NEW f \in Fd, MayUse(f),
         NEW cmd \in {"JOIN", "KICK", "PRIVMSG", "MODE"},
         NEW c \in Chan \cup {NULL}, NEW todo \in Seq(Token),
         NEW params \in Seq(Param), Start(cmd, f, c, todo, params),
         cmd \in {"KICK", "MODE"} => c \in Chan,
         cmd = "MODE" => channels[c] # NULL,
         cmd # "MODE" => todo # <<>>
  PROVE  job' \in Job /\ JobOK'
  <1>1. job' = [cmd |-> cmd, fd |-> f, chan |-> c, todo |-> todo,
                params |-> params, adding |-> TRUE,
                finalModes |-> <<>>, finalParams |-> <<>>, lastSign |-> ""]
    BY StartsCmd
  <1>2. job' \in Job
    <2>1. <<>> \in Seq(ModeChar) /\ <<>> \in Seq(Param)
      OBVIOUS
    <2> QED
      BY <1>1, <2>1, Zenon DEF Job
  <1>3. clientsByFd[f] # NULL /\ client[clientsByFd[f]].registered
    BY DEF MayUse, Receives, Obj
  <1>4. JobOK'
    BY <1>1, <1>3 DEF JobOK, Start, state
  <1> QED
    BY <1>2, <1>4

(* A request leaves no handler in progress, or starts one in order.        *)
LEMMA RequestJob ==
  ASSUME Base, NEW f \in Fd, Request(f)
  PROVE  job' \in Job /\ JobOK'
  <1>1. job \in Job /\ JobOK
    BY DEF Base, TypeOK
  <1>2. ASSUME job' = job, job = NoJob PROVE job' \in Job /\ JobOK'
    BY <1>1, <1>2 DEF JobOK
  <1>3. ASSUME NEW r, Receives(f), Refuse(f, r) PROVE job' \in Job /\ JobOK'
    BY <1>2, <1>3 DEF Receives, Refuse
  <1> USE DEF MayUse
  <1>4. CASE NotRegistered(f) \/ HandlePing(f) \/ HandleInvalid(f)
    BY <1>3, <1>4 DEF NotRegistered, HandlePing, HandleInvalid
  <1>5. CASE HandleCap(f)
    BY <1>2, <1>5 DEF HandleCap, Receives
  <1>6. ASSUME NEW l \in JoinLists \cup {Missing}, NEW k \in KeyLists,
               HandleJoin(f, l, k)
        PROVE  job' \in Job /\ JobOK'
    <2>1. CASE l = Missing
      BY <1>3, <1>6, <2>1 DEF HandleJoin
    <2>2. CASE l # Missing
      <3>1. l \in Seq(Token) /\ l # <<>> /\ k \in Seq(Param)
        BY <1>6, <2>2, InputAssumption DEF Token
      <3>2. MayUse(f) /\ Start("JOIN", f, NULL, l, k)
        BY <1>6, <2>2 DEF HandleJoin
      <3> QED
        BY <3>1, <3>2, StartJob
    <2> QED
      BY <2>1, <2>2
  <1>7. ASSUME NEW c \in Chan, NEW l \in KickLists \cup {Missing},
               HandleKick(f, c, l)
        PROVE  job' \in Job /\ JobOK'
    <2>1. CASE l = Missing \/ channels[c] = NULL
      BY <1>3, <1>7, <2>1 DEF HandleKick
    <2>2. CASE l # Missing /\ channels[c] # NULL
      <3>1. l \in Seq(Token) /\ l # <<>> /\ <<>> \in Seq(Param)
        BY <1>7, <2>2, InputAssumption DEF Token
      <3>2. MayUse(f) /\ Start("KICK", f, c, l, <<>>)
        BY <1>7, <2>2 DEF HandleKick
      <3> QED
        BY <3>1, <3>2, StartJob
    <2> QED
      BY <2>1, <2>2
  <1>8. ASSUME NEW n, NEW c, HandleInvite(f, n, c)
        PROVE  job' \in Job /\ JobOK'
    BY <1>2, <1>3, <1>8 DEF HandleInvite, Receives
  <1>9. ASSUME NEW c, NEW t, HandleTopic(f, c, t)
        PROVE  job' \in Job /\ JobOK'
    BY <1>2, <1>3, <1>9 DEF HandleTopic, Receives
  <1>10. ASSUME NEW c \in Chan, NEW m \in ModeStrings \cup {Query, Missing},
                NEW p \in ModeParams, HandleMode(f, c, m, p)
         PROVE  job' \in Job /\ JobOK'
    <2>1. CASE ModeReply(clientsByFd[f], c, m) # Accepted
      BY <1>3, <1>10, <2>1 DEF HandleMode
    <2>2. CASE ModeReply(clientsByFd[f], c, m) = Accepted
      <3>1. m \in ModeStrings /\ channels[c] # NULL
        BY <1>10, <2>2 DEF ModeReply, Accepted
      <3>2. m \in Seq(Token) /\ p \in Seq(Param)
        BY <1>10, <3>1, InputAssumption DEF Token
      <3>3. MayUse(f) /\ Start("MODE", f, c, m, p)
        BY <1>10, <2>2 DEF HandleMode
      <3> QED
        BY <3>1, <3>2, <3>3, StartJob
    <2> QED
      BY <2>1, <2>2
  <1>11. ASSUME NEW l \in MsgLists \cup {Missing}, NEW h, HandlePrivMsg(f, l, h)
         PROVE  job' \in Job /\ JobOK'
    <2>1. CASE l = Missing \/ ~h
      BY <1>3, <1>11, <2>1 DEF HandlePrivMsg
    <2>2. CASE l # Missing /\ h
      <3>1. l \in Seq(Token) /\ l # <<>> /\ <<>> \in Seq(Param)
        BY <1>11, <2>2, InputAssumption DEF Token
      <3>2. MayUse(f) /\ Start("PRIVMSG", f, NULL, l, <<>>)
        BY <1>11, <2>2 DEF HandlePrivMsg
      <3> QED
        BY <3>1, <3>2, StartJob
    <2> QED
      BY <1>11, <2>1, <2>2 DEF HandlePrivMsg
  <1> QED
    BY <1>4, <1>5, <1>6, <1>7, <1>8, <1>9, <1>10, <1>11 DEF Request

(* A sequence with a length other than 0 is not the empty one.             *)
LEMMA NotEmpty ==
  ASSUME NEW s \in Seq(Token), Len(s) # 0
  PROVE  s # <<>>
  <1>1. Len(<<>>) = 0
    OBVIOUS
  <1> QED
    BY <1>1

(* The end of a turn leaves the handler in progress in order.              *)
LEMMA NextTurnJob ==
  ASSUME Base, NEW cmd \in {"JOIN", "KICK", "PRIVMSG"}, InLoop(cmd),
         NextTurn, UNCHANGED tables
  PROVE  job' \in Job /\ JobOK'
  <1>1. job \in Job /\ job # NoJob /\ job.todo # <<>>
    BY NoJobFacts DEF Base, TypeOK, InLoop
  <1>2. CASE Len(job.todo) = 1
    BY <1>2, NoJobFacts DEF NextTurn, JobOK
  <1>3. CASE Len(job.todo) # 1
    <2>1. job' = [job EXCEPT !.todo = Tail(@), !.params = TailOf(@)]
      BY <1>3 DEF NextTurn
    <2>2. Tail(job.todo) \in Seq(Token) /\ Tail(job.todo) # <<>>
      <3>1. job.todo \in Seq(Token) /\ job.todo # <<>>
        BY <1>1 DEF Job
      <3> DEFINE q == job.todo
      <3>2. q \in Seq(Token) /\ q # <<>> /\ Len(q) # 1
        BY <3>1, <1>3
      <3> HIDE DEF q
      <3>3. Len(q) \in Nat \ {0, 1}
        BY <3>2
      <3>4. Tail(q) \in Seq(Token) /\ Len(Tail(q)) = Len(q) - 1
        BY <3>2, <3>3
      <3>5. Tail(q) # <<>>
        <4>1. Len(Tail(q)) # 0
          BY <3>3, <3>4
        <4> QED
          BY <3>4, <4>1, NotEmpty
      <3> QED
        BY <3>4, <3>5 DEF q
    <2>3. TailOf(job.params) \in Seq(Param)
      BY <1>1, JobFields, ListTails
    <2>4. job' \in Job
      BY <1>1, <2>1, <2>2, <2>3 DEF Job
    <2>5. /\ job'.fd = job.fd /\ job'.cmd = job.cmd /\ job'.chan = job.chan
          /\ job'.todo # <<>>
      BY <1>1, <2>1, <2>2 DEF Job
    <2>6. JobOK'
      BY <1>1, <2>5 DEF JobOK, Base, InLoop, tables
    <2> QED
      BY <2>4, <2>6
  <1> QED
    BY <1>2, <1>3

(* A turn of MODE consumes characters and parameters and extends the       *)
(* announcement.                                                           *)
LEMMA ModeTurnJob ==
  ASSUME Base, Turn, job.cmd = "MODE", job' \in Job,
         job'.fd = job.fd, job'.cmd = "MODE", job'.chan = job.chan
  PROVE  job' \in Job /\ JobOK'
  <1>1. job # NoJob
    BY NoJobFacts
  <1>2. channels'[job.chan] # NULL
    BY <1>1, TurnChanges, ChangesType DEF Base, JobOK
  <1>3. JobOK'
    BY <1>1, <1>2, TurnKeepsTables DEF JobOK, Base, tables
  <1> QED
    BY <1>3

(* Longer sequences are not empty.                                         *)
LEMMA NotEmptied ==
  ASSUME NEW S, NEW s \in Seq(S), NEW x \in S, NEW y \in S
  PROVE  /\ Append(s, x) \in Seq(S) /\ Append(s, x) # <<>>
         /\ s \o <<x, y>> \in Seq(S) /\ s \o <<x, y>> # <<>>
  <1>1. Append(s, x) \in Seq(S) /\ Len(Append(s, x)) = Len(s) + 1
    OBVIOUS
  <1>2. s \o <<x, y>> \in Seq(S) /\ Len(s \o <<x, y>>) = Len(s) + 2
    OBVIOUS
  <1>3. Len(<<>>) = 0 /\ Len(s) \in Nat
    OBVIOUS
  <1> QED
    BY <1>1, <1>2, <1>3

(* The announcement with one more change.                                  *)
LEMMA AnnouncedJob ==
  ASSUME job \in Job, Current \in ModeChar, NEW p \in Param
  PROVE  /\ Announced(p) \in Job
         /\ Announced(p).fd = job.fd /\ Announced(p).cmd = job.cmd
         /\ Announced(p).chan = job.chan
         /\ Announced(p).finalModes # <<>>
  <1> DEFINE sign == IF job.adding THEN "+" ELSE "-"
             fm   == IF sign = job.lastSign THEN Append(job.finalModes, Current)
                     ELSE job.finalModes \o <<sign, Current>>
             fp   == IF p = "" THEN job.finalParams ELSE Append(job.finalParams, p)
  <1>1. job.finalModes \in Seq(ModeChar) /\ job.finalParams \in Seq(Param)
    BY DEF Job
  <1>2. sign \in ModeChar /\ sign \in {"", "+", "-"}
    BY DEF ModeChar
  <1>3. /\ Append(job.finalModes, Current) \in Seq(ModeChar)
        /\ Append(job.finalModes, Current) # <<>>
    BY <1>1, NotEmptied
  <1>4. /\ job.finalModes \o <<sign, Current>> \in Seq(ModeChar)
        /\ job.finalModes \o <<sign, Current>> # <<>>
    <2> HIDE DEF sign
    <2> QED
      BY <1>1, <1>2, NotEmptied
  <1>5. fm \in Seq(ModeChar) /\ fm # <<>>
    BY <1>3, <1>4
  <1>6. fp \in Seq(Param)
    BY <1>1, NotEmptied
  <1>7. Announced(p) = [job EXCEPT !.finalModes = fm, !.finalParams = fp,
                                   !.lastSign = sign]
    BY DEF Announced
  <1> HIDE DEF fm, fp, sign
  <1> QED
    BY <1>2, <1>5, <1>7, <1>6 DEF Job

(* The end of a turn keeps what the handler works on.                      *)
LEMMA ModeTurnKeeps ==
  ASSUME NEW j \in Job, NEW popped, ModeTurn(j, popped), j.todo # <<>>
  PROVE  /\ job' \in Job
         /\ job'.fd = j.fd /\ job'.cmd = j.cmd /\ job'.chan = j.chan
         /\ job'.finalModes = j.finalModes
  <1> DEFINE x == IF popped THEN TailOf(j.params) ELSE j.params
  <1>1. x \in Seq(Param)
    BY JobFields, ListTails
  <1>2. Tail(j.todo) \in Seq(Token)
    BY JobFields, ListTails
  <1>3. job' = [j EXCEPT !.todo = Tail(@), !.params = x]
    BY DEF ModeTurn
  <1> HIDE DEF x
  <1> QED
    BY <1>1, <1>2, <1>3 DEF Job

(* What every turn of MODE but the last one does to the handler.           *)
Goes ==
  /\ job' \in Job
  /\ job'.fd = job.fd /\ job'.cmd = "MODE" /\ job'.chan = job.chan
  /\ UNCHANGED channels \/ job'.finalModes # <<>>
  /\ job.finalModes # <<>> => job'.finalModes # <<>>

(* A turn of MODE changes no channel without announcing it, and works on   *)
(* the same channel for the same client.                                   *)
LEMMA ModeTurns ==
  ASSUME Base, Turn, job.cmd = "MODE"
  PROVE  ModeEnd \/ Goes
  <1>1. job \in Job
    BY DEF Base, TypeOK
  <1>2. ASSUME NEW chars \in SUBSET ModeChar, InMode(chars)
        PROVE  Current \in ModeChar /\ job.todo # <<>> /\ job.cmd = "MODE"
    BY <1>2 DEF InMode, InLoop
  <1>3. HasParam => Head(job.params) \in Param
    BY <1>1, JobFields, ListTails DEF HasParam
  <1>4. ASSUME NEW chars \in SUBSET ModeChar, InMode(chars),
               NEW ch, NEW p, NEW q \in Param, Change(ch, p, q)
        PROVE  Goes
    <2>1. /\ Announced(q) \in Job /\ Announced(q).fd = job.fd
          /\ Announced(q).cmd = "MODE" /\ Announced(q).chan = job.chan
          /\ Announced(q).finalModes # <<>>
      BY <1>1, <1>2, <1>4, AnnouncedJob
    <2>2. Announced(q).todo = job.todo
      BY <1>1 DEF Announced, Job
    <2>3. ModeTurn(Announced(q), p) /\ job.todo # <<>>
      BY <1>2, <1>4 DEF Change
    <2> QED
      BY <2>1, <2>2, <2>3, ModeTurnKeeps DEF Goes
  <1>5. ASSUME NEW chars \in SUBSET ModeChar, InMode(chars), NEW p, NEW r,
               Ignore(p) \/ Complain(p, r)
        PROVE  Goes
    <2>1. ModeTurn(job, p) /\ UNCHANGED channels /\ job.todo # <<>>
      BY <1>2, <1>5 DEF Ignore, Complain, state
    <2> QED
      BY <1>1, <2>1, ModeTurnKeeps DEF Goes
  <1>6. ModeSign => Goes
    <2> DEFINE y == (Current = "+")
    <2>1. ASSUME ModeSign
          PROVE  /\ job' = [job EXCEPT !.todo = Tail(@), !.adding = y]
                 /\ UNCHANGED channels /\ job.todo # <<>>
      BY <2>1 DEF ModeSign, state, InMode, InLoop
    <2>2. y \in BOOLEAN
      OBVIOUS
    <2>3. job.todo # <<>> => Tail(job.todo) \in Seq(Token)
      BY <1>1, JobFields, ListTails
    <2> HIDE DEF y
    <2> QED
      BY <1>1, <2>1, <2>2, <2>3 DEF Goes, Job
  <1>7. /\ {"i", "t"} \in SUBSET ModeChar /\ {"k"} \in SUBSET ModeChar
        /\ {"l"} \in SUBSET ModeChar /\ {"o"} \in SUBSET ModeChar
        /\ {"b"} \in SUBSET ModeChar /\ "" \in Param
    BY DEF ModeChar, Param
  <1>8. ModeFlag => Goes BY <1>4, <1>5, <1>7 DEF ModeFlag
  <1>9. ModeKey => Goes BY <1>3, <1>4, <1>5, <1>7 DEF ModeKey
  <1>10. ModeLimit => Goes BY <1>3, <1>4, <1>5, <1>7 DEF ModeLimit
  <1>11. ModeOperator => Goes BY <1>3, <1>4, <1>5, <1>7 DEF ModeOperator
  <1>12. ModeUnknown => Goes BY <1>5, <1>7 DEF ModeUnknown
  <1>13. ~JoinStep /\ ~KickStep /\ ~PrivMsgStep
    BY DEF JoinStep, KickStep, PrivMsgStep, InLoop
  <1> QED
    BY <1>6, <1>8, <1>9, <1>10, <1>11, <1>12, <1>13 DEF Turn

(* A turn leaves the handler in progress in order.                         *)
LEMMA TurnJob ==
  ASSUME Base, Turn
  PROVE  job' \in Job /\ JobOK'
  <1>1. UNCHANGED tables
    BY TurnKeepsTables
  <1>2. job \in Job
    BY DEF Base, TypeOK
  <1>3. CASE JoinStep
    BY <1>1, <1>3, NextTurnJob DEF JoinStep
  <1>4. CASE KickStep
    BY <1>1, <1>4, NextTurnJob DEF KickStep
  <1>5. CASE PrivMsgStep
    BY <1>1, <1>5, NextTurnJob DEF PrivMsgStep
  <1>6. CASE ~JoinStep /\ ~KickStep /\ ~PrivMsgStep
    <2>1. job.cmd = "MODE"
      BY <1>6 DEF Turn, ModeSign, ModeFlag, ModeKey, ModeLimit, ModeOperator,
                  ModeUnknown, ModeEnd, InMode, InLoop
    <2>2. CASE ModeEnd
      BY <2>2, NoJobFacts DEF ModeEnd, JobOK
    <2>3. CASE Goes
      BY <2>1, <2>3, ModeTurnJob DEF Goes
    <2> QED
      BY <2>1, <2>2, <2>3, ModeTurns
  <1> QED
    BY <1>3, <1>4, <1>5, <1>6

-----------------------------------------------------------------------------
(* Base is inductive.  First the socket table and the heap, for the three  *)
(* kinds of step that touch them.                                          *)

FdTypes ==
  /\ clientsByFd \in [Fd -> Addr \cup {NULL}]
  /\ clientsByNick \in [Nick -> Addr \cup {NULL}]
  /\ client \in [Addr -> ClientObject \cup {NULL}]

(* A new connection keeps the socket table exact.                          *)
LEMMA AddClientTables ==
  ASSUME Base, NEW f \in Fd, NEW a \in Addr, AddNewClient(f, a)
  PROVE  FdTypes' /\ FdTableExact'
  <1>1. FdTypes
    BY DEF Base, TypeOK, FdTypes
  <1>2. /\ clientsByFd' = [clientsByFd EXCEPT ![f] = a]
        /\ client' = [client EXCEPT ![a] = NewClient(f)]
        /\ clientsByNick' = clientsByNick
        /\ clientsByFd[f] = NULL /\ client[a] = NULL
    BY DEF AddNewClient
  <1>3. NewClient(f) \in ClientObject /\ NewClient(f).socketFd = f
    BY NewClientType DEF NewClient
  <1>4. FdTypes'
    BY <1>1, <1>2, <1>3 DEF FdTypes
  <1>5. ASSUME NEW g \in Fd, clientsByFd'[g] # NULL
        PROVE  clientsByFd'[g] \in Live' /\ Obj(g)'.socketFd = g
    <2>1. CASE g = f
      BY <1>1, <1>2, <1>3, <2>1, NullAssumption DEF FdTypes, Live, Obj
    <2>2. CASE g # f
      <3>1. clientsByFd'[g] = clientsByFd[g] /\ clientsByFd[g] \in Live
            /\ Obj(g).socketFd = g
        BY <1>1, <1>2, <1>5, <2>2 DEF Base, FdTableExact, FdTypes
      <3>2. clientsByFd[g] # a
        BY <1>2, <3>1 DEF Live
      <3> QED
        BY <1>1, <1>2, <3>1, <3>2 DEF FdTypes, Live, Obj
    <2> QED
      BY <2>1, <2>2
  <1>6. ASSUME NEW b \in Live'
        PROVE  clientsByFd'[client'[b].socketFd] = b
    <2>1. CASE b = a
      BY <1>1, <1>2, <1>3, <2>1 DEF FdTypes
    <2>2. CASE b # a
      <3>1. b \in Live /\ client'[b] = client[b]
        BY <1>1, <1>2, <1>6, <2>2 DEF FdTypes, Live
      <3>2. clientsByFd[client[b].socketFd] = b /\ client[b].socketFd \in Fd
        BY <3>1, LiveClient
      <3>3. client[b].socketFd # f
        BY <1>2, <3>1, <3>2, NamesAssumption DEF Live
      <3> QED
        BY <1>1, <1>2, <3>1, <3>2, <3>3 DEF FdTypes
    <2> QED
      BY <2>1, <2>2
  <1> QED
    BY <1>4, <1>5, <1>6 DEF FdTableExact

(* A lost connection keeps the socket table exact.                         *)
LEMMA RemoveClientTables ==
  ASSUME Base, NEW f \in Fd, RemoveClient(f)
  PROVE  FdTypes' /\ FdTableExact'
  <1> DEFINE a == clientsByFd[f]
  <1>1. FdTypes
    BY DEF Base, TypeOK, FdTypes
  <1>2. /\ clientsByFd' = [clientsByFd EXCEPT ![f] = NULL]
        /\ client' = [client EXCEPT ![a] = NULL]
        /\ clientsByNick' = ForgetNick(Obj(f))
    BY DEF RemoveClient, ForgetFd
  <1>3. /\ a \in Addr /\ a \in Live /\ client[a].socketFd = f
    BY ReceiverLive DEF Base, RemoveClient, Receives, Obj
  <1> HIDE DEF a
  <1>4. FdTypes'
    BY <1>1, <1>2, <1>3 DEF FdTypes, ForgetNick
  <1>5. ASSUME NEW g \in Fd, clientsByFd'[g] # NULL
        PROVE  clientsByFd'[g] \in Live' /\ Obj(g)'.socketFd = g
    <2>1. g # f /\ clientsByFd'[g] = clientsByFd[g]
      BY <1>1, <1>2, <1>5 DEF FdTypes
    <2>2. clientsByFd[g] \in Live /\ client[clientsByFd[g]].socketFd = g
      BY <1>5, <2>1 DEF Base, FdTableExact, Obj
    <2>3. clientsByFd[g] # a
      BY <1>3, <2>1, <2>2
    <2> QED
      BY <1>1, <1>2, <2>1, <2>2, <2>3 DEF FdTypes, Live, Obj
  <1>6. ASSUME NEW b \in Live'
        PROVE  clientsByFd'[client'[b].socketFd] = b
    <2>1. b # a /\ b \in Live /\ client'[b] = client[b]
      BY <1>1, <1>2, <1>3, <1>6 DEF FdTypes, Live
    <2>2. clientsByFd[client[b].socketFd] = b /\ client[b].socketFd \in Fd
      BY <2>1, LiveClient
    <2>3. client[b].socketFd # f
      BY <2>1, <2>2 DEF a
    <2> QED
      BY <1>1, <1>2, <2>1, <2>2, <2>3 DEF FdTypes
  <1> QED
    BY <1>4, <1>5, <1>6 DEF FdTableExact

(* What Stores says, with the object c stored back named.                  *)
LEMMA StoresTables ==
  ASSUME Base, NEW f \in Fd, Stores(f)
  PROVE  /\ FdTypes' /\ FdTableExact'
         /\ \A a \in Live : a \in Live' /\ (client[a].registered => client'[a].registered)
         /\ Live' = Live
  <1> DEFINE a == clientsByFd[f]
  <1>1. FdTypes
    BY DEF Base, TypeOK, FdTypes
  <1>2. /\ a \in Addr /\ a \in Live /\ client[a].socketFd = f
    BY ReceiverLive DEF Base, Stores, Receives, Obj
  <1>3. PICK c \in ClientObject :
         /\ c.socketFd = f /\ c.registered = Obj(f).registered
         /\ client' = [client EXCEPT ![a] = TryRegister(c)]
         /\ \/ clientsByNick' = clientsByNick
            \/ \E n \in Nick : clientsByNick' = Renamed(a, n)
    BY DEF Stores
  <1>4. clientsByFd' = clientsByFd
    BY DEF Stores
  <1>5. /\ TryRegister(c) \in ClientObject /\ TryRegister(c).socketFd = f
        /\ client[a].registered => TryRegister(c).registered
    BY <1>3, TryRegisterType DEF Obj
  <1> HIDE DEF a
  <1> DEFINE d == TryRegister(c)
  <1>6. /\ client' = [client EXCEPT ![a] = d]
        /\ d \in ClientObject /\ d.socketFd = f /\ d # NULL
    BY <1>3, <1>5, NullAssumption
  <1>7. client[a].registered => d.registered
    BY <1>5
  <1> HIDE DEF d
  <1>8. clientsByNick' \in [Nick -> Addr \cup {NULL}]
    BY <1>1, <1>2, <1>3 DEF FdTypes, Renamed
  <1>9. FdTypes'
    BY <1>1, <1>2, <1>4, <1>6, <1>8 DEF FdTypes
  <1>10. ASSUME NEW b \in Live
         PROVE  b \in Live' /\ client'[b].socketFd = client[b].socketFd
                /\ (client[b].registered => client'[b].registered)
    BY <1>1, <1>2, <1>6, <1>7 DEF FdTypes, Live
  <1>11. Live' \subseteq Live
    BY <1>1, <1>2, <1>6 DEF FdTypes, Live
  <1>12. FdTableExact'
    BY <1>4, <1>10, <1>11 DEF Base, FdTableExact, Obj
  <1> QED
    BY <1>9, <1>10, <1>11, <1>12

(* Base holds at the start.                                                *)
LEMMA BaseInit == Init => Base
  <1> SUFFICES ASSUME Init PROVE Base
    OBVIOUS
  <1>1. NoReplies \in [Fd -> Seq(Reply)]
    BY DEF NoReplies
  <1>2. TypeOK
    BY <1>1, NoJobFacts DEF Init, TypeOK
  <1>3. FdTableExact
    BY DEF Init, FdTableExact, Live
  <1> QED
    BY <1>2, <1>3 DEF Base, JobOK, Init

(* Every step keeps Base.                                                  *)
LEMMA BaseNext ==
  ASSUME Base, Next
  PROVE  Base'
  <1>1. /\ TypeOK /\ FdTableExact /\ JobOK
        /\ FdTypes /\ job \in Job
        /\ channels \in [Chan -> ChannelObject \cup {NULL}]
    BY DEF Base, TypeOK, FdTypes
  <1>2. result' \in Results
    BY <1>1, CommandResult, TurnResult DEF Next
  <1>3. ASSUME FdTypes', FdTableExact', job' \in Job /\ JobOK',
               channels' \in [Chan -> ChannelObject \cup {NULL}]
        PROVE  Base'
    BY <1>2, <1>3 DEF Base, TypeOK, FdTypes, Results
  <1>4. ASSUME UNCHANGED tables
        PROVE  FdTypes' /\ FdTableExact'
    BY <1>1, <1>4 DEF tables, FdTypes, FdTableExact, Live, Obj
  <1>5. ASSUME UNCHANGED channels \/ \E c \in Chan : Changes(c)
        PROVE  channels' \in [Chan -> ChannelObject \cup {NULL}]
    BY <1>1, <1>5, ChangesType
  <1>6. ASSUME job = NoJob, job' = job
        PROVE  job' \in Job /\ JobOK'
    BY <1>1, <1>6 DEF JobOK
  <1>7. ASSUME NEW f \in Fd, NEW a \in Addr, AddNewClient(f, a)
        PROVE  Base'
    <2>1. job = NoJob /\ job' = job /\ channels' = channels
      BY <1>7 DEF AddNewClient
    <2> QED
      BY <1>1, <1>3, <1>6, <1>7, <2>1, AddClientTables
  <1>8. ASSUME NEW f \in Fd, RemoveClient(f)
        PROVE  Base'
    <2>1. job = NoJob /\ job' = job
      BY <1>8 DEF RemoveClient, Receives
    <2>2. clientsByFd[f] \in Addr
      BY <1>1, <1>8, ReceiverLive DEF RemoveClient, Receives
    <2>3. channels' \in [Chan -> ChannelObject \cup {NULL}]
      <3>1. ASSUME NEW ch \in ChannelObject
            PROVE  RemoveIfEmpty(RemoveFromChannel(ch, clientsByFd[f]))
                     \in ChannelObject \cup {NULL}
        BY DEF RemoveFromChannel, RemoveIfEmpty, ChannelObject
      <3>2. channels' = [c \in Chan |->
              IF channels[c] = NULL THEN NULL
              ELSE RemoveIfEmpty(RemoveFromChannel(channels[c], clientsByFd[f]))]
        BY <1>8 DEF RemoveClient
      <3> QED
        BY <1>1, <3>1, <3>2
    <2> QED
      BY <1>3, <1>6, <1>8, <2>1, <2>3, RemoveClientTables
  <1>9. ASSUME NEW f \in Fd, Stores(f)
        PROVE  Base'
    <2>1. job = NoJob /\ job' = job /\ channels' = channels
      BY <1>9 DEF Stores, Receives
    <2> QED
      BY <1>1, <1>3, <1>6, <1>9, <2>1, StoresTables
  <1>10. CASE UNCHANGED <<state, job>>
    <2>1. UNCHANGED tables /\ channels' = channels /\ job' = job
      BY <1>10 DEF state, tables
    <2>2. job' \in Job /\ JobOK'
      BY <1>1, <2>1 DEF JobOK, tables
    <2> QED
      BY <1>1, <1>3, <1>4, <2>1, <2>2
  <1>11. ASSUME NEW f \in Fd, Request(f)
         PROVE  Base'
    BY <1>3, <1>4, <1>5, <1>11, RequestKeepsTables, RequestChanges, RequestJob
  <1>12. CASE Turn
    BY <1>3, <1>4, <1>5, <1>12, TurnKeepsTables, TurnChanges, TurnJob
  <1> QED
    BY <1>1, <1>7, <1>8, <1>9, <1>10, <1>11, <1>12, StepKinds

(* Base survives a step that changes no variable.                          *)
LEMMA BaseStutters == Base /\ UNCHANGED vars => Base'
  BY DEF Base, TypeOK, FdTableExact, JobOK, Live, Obj, vars

(* Types, the socket table and the handler in progress are as they should  *)
(* be, in every reachable state.                                           *)
THEOREM BaseInvariant == Spec => []Base
  <1>1. Base /\ [Next]_vars => Base'
    BY BaseNext, BaseStutters
  <1> QED
    BY BaseInit, <1>1, PTL DEF Spec

(* Every variable has its type: no stored limit is negative, no loop is    *)
(* entered with an empty list.                                             *)
THEOREM TypeCorrect == Spec => []TypeOK
  <1>1. Base => TypeOK
    BY DEF Base
  <1> QED
    BY BaseInvariant, <1>1, PTL

(* A socket leads to the one live Client that has that socket, and every   *)
(* live Client is reached from its socket (ServerState's _clientsByFd).    *)
THEOREM SocketTable == Spec => []FdTableExact
  <1>1. Base => FdTableExact
    BY DEF Base
  <1> QED
    BY BaseInvariant, <1>1, PTL

-----------------------------------------------------------------------------
(* The nickname table.                                                     *)

LEMMA NickTableNext ==
  ASSUME Base, NickTableExact, Next
  PROVE  NickTableExact'
  <1>1. FdTypes /\ TypeOK /\ FdTableExact
    BY DEF Base, TypeOK, FdTypes
  <1>2. ASSUME NEW f \in Fd, NEW a \in Addr, AddNewClient(f, a)
        PROVE  NickTableExact'
    <2>1. /\ client' = [client EXCEPT ![a] = NewClient(f)]
          /\ clientsByNick' = clientsByNick /\ client[a] = NULL
      BY <1>2 DEF AddNewClient
    <2>2. NewClient(f).nickname \notin Nick /\ NewClient(f) # NULL
      BY NewClientType, NullAssumption, NamesAssumption DEF NewClient
    <2>3. ASSUME NEW n \in Nick, NEW b \in Addr
          PROVE  (clientsByNick[n] = b) <=> (b \in Live' /\ client'[b].nickname = n)
      <3>1. CASE b = a
        BY <1>1, <2>1, <2>2, <3>1 DEF NickTableExact, Live, FdTypes
      <3>2. CASE b # a
        BY <1>1, <2>1, <3>2 DEF NickTableExact, Live, FdTypes
      <3> QED
        BY <3>1, <3>2
    <2> QED
      BY <2>1, <2>3 DEF NickTableExact
  <1>3. ASSUME NEW f \in Fd, RemoveClient(f)
        PROVE  NickTableExact'
    <2> DEFINE a == clientsByFd[f]
    <2>1. /\ client' = [client EXCEPT ![a] = NULL]
          /\ clientsByNick' = ForgetNick(client[a])
      BY <1>3 DEF RemoveClient, Obj
    <2>2. a \in Addr /\ a \in Live /\ client[a] \in ClientObject
      BY <1>1, <1>3, ReceiverLive DEF RemoveClient, Receives, Obj
    <2> HIDE DEF a
    <2>3. ASSUME NEW n \in Nick, NEW b \in Addr
          PROVE  (clientsByNick'[n] = b) <=> (b \in Live' /\ client'[b].nickname = n)
      <3>1. b # NULL /\ "" \notin Nick
        BY NamesAssumption
      <3>2. clientsByNick'[n] = IF n = client[a].nickname THEN NULL
                                ELSE clientsByNick[n]
        BY <1>1, <2>1, <2>2, <3>1 DEF ForgetNick, ClientObject, FdTypes
      <3>3. CASE b = a
        BY <1>1, <2>1, <2>2, <3>1, <3>2, <3>3 DEF NickTableExact, Live, FdTypes
      <3>4. CASE b # a
        <4>1. (b \in Live <=> b \in Live') /\ client'[b] = client[b]
          BY <1>1, <2>1, <2>2, <3>4 DEF Live, FdTypes
        <4>2. (clientsByNick[n] = b) <=> (b \in Live /\ client[b].nickname = n)
          BY DEF NickTableExact
        <4>3. n = client[a].nickname => clientsByNick[n] = a
          BY <2>2 DEF NickTableExact
        <4> QED
          BY <3>1, <3>2, <3>4, <4>1, <4>2, <4>3
      <3> QED
        BY <3>3, <3>4
    <2> QED
      BY <2>3 DEF NickTableExact
  <1>4. ASSUME NEW f \in Fd, Stores(f)
        PROVE  NickTableExact'
    <2> DEFINE a == clientsByFd[f]
    <2>1. a \in Addr /\ a \in Live /\ client[a] \in ClientObject
      BY <1>1, <1>4, ReceiverLive DEF Stores, Receives, Obj
    <2>2. PICK c \in ClientObject :
            /\ client' = [client EXCEPT ![a] = TryRegister(c)]
            /\ \/ clientsByNick' = clientsByNick /\ c.nickname = client[a].nickname
               \/ \E n \in Nick : /\ ~NickTaken(a, n)
                                  /\ clientsByNick' = Renamed(a, n)
                                  /\ c.nickname = n
      BY <1>4 DEF Stores, Obj
    <2> DEFINE d == TryRegister(c)
    <2>3. d \in ClientObject /\ d.nickname = c.nickname /\ d # NULL
      BY TryRegisterType, NullAssumption
    <2>4. client' = [client EXCEPT ![a] = d]
      BY <2>2
    <2> HIDE DEF a, d
    <2>5. ASSUME NEW b \in Addr
          PROVE  /\ b \in Live <=> b \in Live'
                 /\ client'[b].nickname = IF b = a THEN c.nickname
                                          ELSE client[b].nickname
      BY <1>1, <2>1, <2>3, <2>4 DEF Live, FdTypes
    <2>6. CASE clientsByNick' = clientsByNick /\ c.nickname = client[a].nickname
      BY <2>5, <2>6 DEF NickTableExact
    <2>7. ASSUME NEW n \in Nick, ~NickTaken(a, n), c.nickname = n,
                 clientsByNick' = Renamed(a, n)
          PROVE  NickTableExact'
      <3>1. CASE n = client[a].nickname
        BY <2>5, <2>7, <3>1 DEF NickTableExact, Renamed
      <3>2. CASE n # client[a].nickname
        <4>1. clientsByNick[n] = NULL
          BY <2>7, <3>2 DEF NickTaken
        <4>2. ASSUME NEW m \in Nick, NEW b \in Addr
              PROVE  (clientsByNick'[m] = b) <=> (b \in Live' /\ client'[b].nickname = m)
          <5>1. b # NULL
            BY NamesAssumption
          <5>2. clientsByNick'[m] = IF m = n THEN a
                                    ELSE IF m = client[a].nickname THEN NULL
                                    ELSE clientsByNick[m]
            BY <2>7, <3>2 DEF Renamed
          <5>3. CASE b = a
            BY <2>1, <2>5, <2>7, <5>1, <5>2, <5>3 DEF NickTableExact
          <5>4. CASE b # a
            BY <2>1, <2>5, <4>1, <5>1, <5>2, <5>4 DEF NickTableExact
          <5> QED
            BY <5>3, <5>4
        <4> QED
          BY <4>2 DEF NickTableExact
      <3> QED
        BY <3>1, <3>2
    <2> QED
      BY <2>2, <2>6, <2>7
  <1>5. ASSUME UNCHANGED tables
        PROVE  NickTableExact'
    BY <1>5 DEF NickTableExact, tables, Live
  <1>6. CASE UNCHANGED <<state, job>>
    BY <1>5, <1>6 DEF state, tables
  <1> QED
    BY <1>1, <1>2, <1>3, <1>4, <1>5, <1>6, StepKinds, RequestKeepsTables,
       TurnKeepsTables

-----------------------------------------------------------------------------
(* Registration.                                                           *)

LEMMA RegistrationNext ==
  ASSUME Base, RegistrationExact, Next
  PROVE  RegistrationExact'
  <1>1. FdTypes /\ TypeOK /\ FdTableExact
    BY DEF Base, TypeOK, FdTypes
  <1>2. ASSUME NEW f \in Fd, NEW a \in Addr, AddNewClient(f, a)
        PROVE  RegistrationExact'
    <2>1. client' = [client EXCEPT ![a] = NewClient(f)]
      BY <1>2 DEF AddNewClient
    <2>2. ~NewClient(f).registered /\ ~Complete(NewClient(f))
      BY DEF NewClient, Complete
    <2> QED
      BY <1>1, <2>1, <2>2 DEF RegistrationExact, Live, FdTypes
  <1>3. ASSUME NEW f \in Fd, RemoveClient(f)
        PROVE  RegistrationExact'
    <2>1. client' = [client EXCEPT ![clientsByFd[f]] = NULL]
      BY <1>3 DEF RemoveClient
    <2> QED
      BY <1>1, <2>1 DEF RegistrationExact, Live, FdTypes
  <1>4. ASSUME NEW f \in Fd, Stores(f)
        PROVE  RegistrationExact'
    <2> DEFINE a == clientsByFd[f]
    <2>1. a \in Addr /\ a \in Live /\ client[a] \in ClientObject
      BY <1>1, <1>4, ReceiverLive DEF Stores, Receives, Obj
    <2>2. PICK c \in ClientObject :
            /\ c.registered = client[a].registered
            /\ client' = [client EXCEPT ![a] = TryRegister(c)]
            /\ c.registered => /\ c.username = client[a].username
                               /\ c.passAccepted = client[a].passAccepted
            /\ c.nickname = client[a].nickname \/ c.nickname \in Nick
      BY <1>4 DEF Stores, Obj
    <2> DEFINE d == TryRegister(c)
    <2>3. /\ d.registered = (c.registered \/ Complete(c))
          /\ Complete(d) = Complete(c)
      BY TryRegisterType DEF Complete
    <2>4. c.registered => Complete(c)
      BY <2>1, <2>2, NamesAssumption DEF RegistrationExact, Complete
    <2>5. client' = [client EXCEPT ![a] = d]
      BY <2>2
    <2> HIDE DEF a, d
    <2>6. d.registered <=> Complete(d)
      BY <2>3, <2>4
    <2> QED
      BY <1>1, <2>1, <2>5, <2>6 DEF RegistrationExact, Live, FdTypes
  <1>5. ASSUME UNCHANGED tables
        PROVE  RegistrationExact'
    BY <1>5 DEF RegistrationExact, tables, Live
  <1>6. CASE UNCHANGED <<state, job>>
    BY <1>5, <1>6 DEF state, tables
  <1> QED
    BY <1>1, <1>2, <1>3, <1>4, <1>5, <1>6, StepKinds, RequestKeepsTables,
       TurnKeepsTables

-----------------------------------------------------------------------------
(* The channels.  A channel in order names only live clients, its members  *)
(* are registered, its operators are members, and it is not empty.         *)

Rightful(ch) ==
  /\ ch.members \cup ch.operators \cup ch.invited \subseteq Live
  /\ ch.operators \subseteq ch.members
  /\ \A a \in ch.members : client[a].registered
  /\ ch.members # {}

ChannelsOK == \A c \in Open : Rightful(channels[c])

(* A channel a command has changed is in order again.                      *)
LEMMA NewRightful ==
  ASSUME Base, NickTableExact, ChannelsOK, NEW c \in Chan, NEW new, new # NULL,
         Joins(c, new) \/ Kicks(c, new) \/ Invites(c, new) \/ Tunes(c, new)
  PROVE  Rightful(new)
  <1>1. channels[c] \in ChannelObject \cup {NULL}
    BY DEF Base, TypeOK
  <1>2. channels[c] # NULL => Rightful(channels[c])
    BY DEF ChannelsOK, Open
  <1>3. CASE Joins(c, new)
    <2> DEFINE old == IF channels[c] = NULL THEN NewChannel ELSE channels[c]
    <2>1. old \in ChannelObject
      BY <1>1, NewChannelType
    <2>2. Self \in Live /\ client[Self].registered
      BY <1>3, SelfLive DEF Joins
    <2>3. new = Admit(old, Self, channels[c] = NULL)
      BY <1>3 DEF Joins
    <2>4. CASE channels[c] = NULL
      <3>1. new = AddOperator(AddMember(NewChannel, Self), Self)
        BY <2>3, <2>4 DEF Admit
      <3>2. new.members = {Self} /\ new.operators = {Self} /\ new.invited = {}
        BY <3>1 DEF AddOperator, AddMember, NewChannel
      <3> QED
        BY <2>2, <3>2 DEF Rightful
    <2>5. CASE channels[c] # NULL
      <3>1. new = AddMember(channels[c], Self) /\ channels[c] \in ChannelObject
        BY <1>1, <2>3, <2>5 DEF Admit
      <3>2. /\ new.members = channels[c].members \cup {Self}
            /\ new.operators = channels[c].operators
            /\ new.invited = channels[c].invited
        BY <3>1 DEF AddMember, ChannelObject
      <3> QED
        BY <1>2, <2>2, <2>5, <3>2 DEF Rightful
    <2> QED
      BY <2>4, <2>5
  <1>4. CASE Kicks(c, new)
    <2>1. PICK t \in channels[c].members :
            new = RemoveIfEmpty(RemoveFromChannel(channels[c], t))
      BY <1>4 DEF Kicks
    <2>2. channels[c] \in ChannelObject /\ Rightful(channels[c])
      BY <1>1, <1>2, <1>4 DEF Kicks
    <2> DEFINE d == RemoveFromChannel(channels[c], t)
    <2>3. /\ d.members = channels[c].members \ {t}
          /\ d.operators = channels[c].operators \ {t}
          /\ d.invited = channels[c].invited \ {t}
      BY <2>2 DEF RemoveFromChannel, ChannelObject
    <2> HIDE DEF d
    <2>4. new = d /\ d.members # {}
      BY <2>1 DEF RemoveIfEmpty, d
    <2> QED
      BY <2>2, <2>3, <2>4 DEF Rightful
  <1>5. CASE Invites(c, new)
    <2>1. PICK n \in Nick : /\ clientsByNick[n] # NULL
                            /\ new = AddInvitedMember(channels[c], clientsByNick[n])
      BY <1>5 DEF Invites
    <2>2. clientsByNick[n] \in Live
      BY <2>1 DEF Base, TypeOK, NickTableExact
    <2>3. channels[c] \in ChannelObject /\ Rightful(channels[c])
      BY <1>1, <1>2, <1>5 DEF Invites
    <2>4. /\ new.members = channels[c].members
          /\ new.operators = channels[c].operators
          /\ new.invited = channels[c].invited \cup {clientsByNick[n]}
      BY <2>1, <2>3 DEF AddInvitedMember, ChannelObject
    <2> QED
      BY <2>2, <2>3, <2>4 DEF Rightful
  <1>6. CASE Tunes(c, new)
    BY <1>2, <1>6 DEF Tunes, Rightful
  <1> QED
    BY <1>3, <1>4, <1>5, <1>6

(* A step that changes one channel keeps all channels in order.            *)
LEMMA ChangesRightful ==
  ASSUME Base, NickTableExact, ChannelsOK, UNCHANGED tables,
         UNCHANGED channels \/ \E c \in Chan : Changes(c)
  PROVE  ChannelsOK'
  <1>1. ASSUME NEW ch PROVE Rightful(ch) => Rightful(ch)'
    BY DEF Rightful, tables, Live
  <1>2. CASE UNCHANGED channels
    BY <1>1, <1>2 DEF ChannelsOK, Open
  <1>3. ASSUME NEW c \in Chan, Changes(c)
        PROVE  ChannelsOK'
    <2>1. PICK new :
            /\ channels' = [channels EXCEPT ![c] = new]
            /\ Joins(c, new) \/ Kicks(c, new) \/ Invites(c, new) \/ Tunes(c, new)
      BY <1>3 DEF Changes
    <2>2. new # NULL => Rightful(new)
      BY <2>1, NewRightful
    <2>3. channels \in [Chan -> ChannelObject \cup {NULL}]
      BY DEF Base, TypeOK
    <2>4. ASSUME NEW d \in Chan, channels'[d] # NULL
          PROVE  Rightful(channels'[d])
      BY <2>1, <2>2, <2>3, <2>4 DEF ChannelsOK, Open
    <2>5. ASSUME NEW d \in Chan, channels'[d] # NULL
          PROVE  Rightful(channels[d])'
      BY <2>4, <2>5 DEF Rightful, tables, Live
    <2> QED
      BY <2>5 DEF ChannelsOK, Open
  <1> QED
    BY <1>2, <1>3

(* Every step keeps the channels in order.                                 *)
LEMMA ChannelsNext ==
  ASSUME Base, NickTableExact, ChannelsOK, Next
  PROVE  ChannelsOK'
  <1>1. FdTypes /\ TypeOK /\ FdTableExact
        /\ channels \in [Chan -> ChannelObject \cup {NULL}]
    BY DEF Base, TypeOK, FdTypes
  <1>2. ASSUME NEW f \in Fd, NEW a \in Addr, AddNewClient(f, a)
        PROVE  ChannelsOK'
    <2>1. /\ client' = [client EXCEPT ![a] = NewClient(f)]
          /\ channels' = channels /\ client[a] = NULL /\ NewClient(f) # NULL
      BY <1>2, NewClientType, NullAssumption DEF AddNewClient
    <2>2. ASSUME NEW b \in Live PROVE b \in Live' /\ client'[b] = client[b]
      BY <1>1, <2>1 DEF Live, FdTypes
    <2>3. ASSUME NEW ch, Rightful(ch) PROVE Rightful(ch)'
      BY <2>2, <2>3 DEF Rightful
    <2> QED
      BY <2>1, <2>3 DEF ChannelsOK, Open
  <1>3. ASSUME NEW f \in Fd, RemoveClient(f)
        PROVE  ChannelsOK'
    <2> DEFINE a == clientsByFd[f]
    <2>1. /\ client' = [client EXCEPT ![a] = NULL]
          /\ channels' = [c \in Chan |->
               IF channels[c] = NULL THEN NULL
               ELSE RemoveIfEmpty(RemoveFromChannel(channels[c], a))]
      BY <1>3 DEF RemoveClient
    <2>2. a \in Addr /\ a \in Live
      BY <1>1, <1>3, ReceiverLive DEF RemoveClient, Receives
    <2> HIDE DEF a
    <2>3. ASSUME NEW b \in Live, b # a
          PROVE  b \in Live' /\ client'[b] = client[b]
      BY <1>1, <2>1, <2>2, <2>3 DEF Live, FdTypes
    <2>4. ASSUME NEW c \in Chan, channels'[c] # NULL
          PROVE  Rightful(channels[c])'
      <3>1. /\ channels[c] # NULL
            /\ channels'[c] = RemoveIfEmpty(RemoveFromChannel(channels[c], a))
        BY <2>1, <2>4
      <3>2. Rightful(channels[c]) /\ channels[c] \in ChannelObject
        BY <1>1, <3>1 DEF ChannelsOK, Open
      <3> DEFINE d == RemoveFromChannel(channels[c], a)
      <3>3. /\ d.members = channels[c].members \ {a}
            /\ d.operators = channels[c].operators \ {a}
            /\ d.invited = channels[c].invited \ {a}
        BY <3>2 DEF RemoveFromChannel, ChannelObject
      <3> HIDE DEF d
      <3>4. channels'[c] = d /\ d.members # {}
        BY <2>4, <3>1 DEF RemoveIfEmpty, d
      <3> QED
        BY <2>3, <3>2, <3>3, <3>4 DEF Rightful
    <2> QED
      BY <2>4 DEF ChannelsOK, Open
  <1>4. ASSUME NEW f \in Fd, Stores(f)
        PROVE  ChannelsOK'
    <2>1. /\ Live' = Live
          /\ \A a \in Live : client[a].registered => client'[a].registered
      BY <1>4, StoresTables
    <2>2. ASSUME NEW ch, Rightful(ch) PROVE Rightful(ch)'
      BY <2>1, <2>2 DEF Rightful
    <2>3. channels' = channels
      BY <1>4 DEF Stores
    <2> QED
      BY <2>2, <2>3 DEF ChannelsOK, Open
  <1>5. CASE UNCHANGED <<state, job>>
    BY <1>5, ChangesRightful DEF state, tables
  <1>6. ASSUME NEW f \in Fd, Request(f)
        PROVE  ChannelsOK'
    BY <1>6, ChangesRightful, RequestKeepsTables, RequestChanges
  <1>7. CASE Turn
    BY <1>7, ChangesRightful, TurnKeepsTables, TurnChanges
  <1> QED
    BY <1>1, <1>2, <1>3, <1>4, <1>5, <1>6, <1>7, StepKinds

-----------------------------------------------------------------------------
(* The authority of a MODE line.                                           *)

(* Only HandleMode starts a MODE line, once the caller is an operator.     *)
LEMMA ModeStarts ==
  ASSUME Base, NEW f \in Fd, Request(f), job'.cmd = "MODE"
  PROVE  \E c \in Chan, p \in ModeParams : \E m :
            /\ ModeReply(clientsByFd[f], c, m) = Accepted
            /\ Start("MODE", f, c, m, p)
  <1>1. ASSUME job = NoJob, job' = job PROVE FALSE
    BY <1>1, NoJobFacts
  <1>2. ASSUME NEW r, Refuse(f, r), job = NoJob PROVE FALSE
    BY <1>1, <1>2 DEF Refuse
  <1>3. job = NoJob
    BY DEF Request, NotRegistered, HandlePing, HandleInvalid, HandleCap,
           HandleJoin, HandleKick, HandleInvite, HandleTopic, HandleMode,
           HandlePrivMsg, MayUse, Receives
  <1>4. ~NotRegistered(f) /\ ~HandlePing(f) /\ ~HandleInvalid(f)
    BY <1>2, <1>3 DEF NotRegistered, HandlePing, HandleInvalid
  <1>5. ~HandleCap(f)
    BY <1>1, <1>3 DEF HandleCap
  <1>6. ASSUME NEW cmd, NEW c, NEW l, NEW p, Start(cmd, f, c, l, p)
        PROVE  cmd = "MODE"
    BY <1>6, StartsCmd
  <1>7. ASSUME NEW l, NEW k, HandleJoin(f, l, k) PROVE FALSE
    BY <1>2, <1>3, <1>7, <1>6 DEF HandleJoin
  <1>8. ASSUME NEW c, NEW l, HandleKick(f, c, l) PROVE FALSE
    BY <1>2, <1>3, <1>8, <1>6 DEF HandleKick
  <1>9. ASSUME NEW n, NEW c, HandleInvite(f, n, c) PROVE FALSE
    BY <1>1, <1>2, <1>3, <1>9 DEF HandleInvite
  <1>10. ASSUME NEW c, NEW t, HandleTopic(f, c, t) PROVE FALSE
    BY <1>1, <1>2, <1>3, <1>10 DEF HandleTopic
  <1>11. ASSUME NEW l, NEW h, HandlePrivMsg(f, l, h) PROVE FALSE
    BY <1>2, <1>3, <1>11, <1>6 DEF HandlePrivMsg
  <1>12. PICK c \in Chan, p \in ModeParams : \E m : HandleMode(f, c, m, p)
    BY <1>4, <1>5, <1>7, <1>8, <1>9, <1>10, <1>11 DEF Request
  <1>13. PICK m : HandleMode(f, c, m, p)
    BY <1>12
  <1> QED
    BY <1>2, <1>3, <1>13 DEF HandleMode

(* Every step keeps the authority of the MODE line in progress.            *)
LEMMA ModeAuthorityNext ==
  ASSUME Base, ModeAuthorityHolds, Next
  PROVE  ModeAuthorityHolds'
  <1>1. /\ TypeOK /\ FdTableExact /\ job \in Job
        /\ channels \in [Chan -> ChannelObject \cup {NULL}]
    BY DEF Base, TypeOK
  <1>2. ASSUME job'.cmd # "MODE" PROVE ModeAuthorityHolds'
    BY <1>2 DEF ModeAuthorityHolds
  <1>3. ASSUME job' = NoJob PROVE ModeAuthorityHolds'
    BY <1>2, <1>3, NoJobFacts
  <1>4. ASSUME NEW f \in Fd,
               (\E a \in Addr : AddNewClient(f, a)) \/ RemoveClient(f) \/ Stores(f)
        PROVE  ModeAuthorityHolds'
    BY <1>3, <1>4 DEF AddNewClient, RemoveClient, Stores, Receives
  <1>5. CASE UNCHANGED <<state, job>>
    BY <1>5 DEF ModeAuthorityHolds, state, Open, Self, ModeChannel
  <1>6. ASSUME NEW f \in Fd, Request(f)
        PROVE  ModeAuthorityHolds'
    <2>1. CASE job'.cmd = "MODE"
      <3>1. PICK c \in Chan, p \in ModeParams : \E m :
              /\ ModeReply(clientsByFd[f], c, m) = Accepted
              /\ Start("MODE", f, c, m, p)
        BY <1>6, <2>1, ModeStarts
      <3>2. PICK m : /\ ModeReply(clientsByFd[f], c, m) = Accepted
                     /\ Start("MODE", f, c, m, p)
        BY <3>1
      <3>3. /\ channels[c] # NULL /\ clientsByFd[f] \in channels[c].members
            /\ clientsByFd[f] \in channels[c].operators
        BY <3>2 DEF ModeReply, Accepted
      <3>4. /\ job'.chan = c /\ job'.fd = f
            /\ channels' = channels /\ clientsByFd' = clientsByFd
        BY <3>2, StartsCmd DEF Start, state
      <3> QED
        BY <3>3, <3>4 DEF ModeAuthorityHolds, Open, Self, ModeChannel
    <2> QED
      BY <1>2, <2>1
  <1>7. CASE Turn /\ job.cmd # "MODE"
    <2>1. NextTurn \/ job' = NoJob
      BY <1>7 DEF Turn, JoinStep, KickStep, PrivMsgStep, ModeSign, ModeFlag,
         ModeKey, ModeLimit, ModeOperator, ModeUnknown, ModeEnd, InMode, InLoop
    <2>2. NextTurn => job' = NoJob \/ job'.cmd = job.cmd
      BY <1>1 DEF NextTurn, Job
    <2> QED
      BY <1>2, <1>3, <1>7, <2>1, <2>2
  <1>8. CASE Turn /\ job.cmd = "MODE" /\ job' # NoJob
    <2>1. /\ job'.fd = job.fd /\ job'.cmd = "MODE" /\ job'.chan = job.chan
          /\ UNCHANGED channels \/ job'.finalModes # <<>>
          /\ job.finalModes # <<>> => job'.finalModes # <<>>
      BY <1>8, ModeTurns DEF Goes, ModeEnd
    <2>2. UNCHANGED clientsByFd
      BY <1>8, TurnKeepsTables DEF tables
    <2>3. Self' = Self
      BY <2>1, <2>2 DEF Self
    <2>4. /\ job.chan \in Chan /\ channels[job.chan] # NULL
          /\ Self \in channels[job.chan].members
          /\ Self \in channels[job.chan].operators \/ job.finalModes # <<>>
      BY <1>8 DEF ModeAuthorityHolds, Open, ModeChannel
    <2>5. /\ channels'[job.chan] # NULL
          /\ channels'[job.chan].members = channels[job.chan].members
      <3>1. CASE UNCHANGED channels
        BY <2>4, <3>1
      <3>2. ASSUME NEW c \in Chan, Changes(c)
            PROVE  /\ channels'[job.chan] # NULL
                   /\ channels'[job.chan].members = channels[job.chan].members
        <4>1. PICK new : /\ channels' = [channels EXCEPT ![c] = new]
                         /\ Joins(c, new) \/ Kicks(c, new) \/ Invites(c, new)
                              \/ Tunes(c, new)
          BY <3>2 DEF Changes
        <4>2. Tunes(c, new)
          BY <1>8, <4>1, NoJobFacts DEF Joins, Kicks, Invites
        <4> QED
          BY <1>1, <2>4, <4>1, <4>2, NullAssumption DEF Tunes
      <3> QED
        BY <1>8, <3>1, <3>2, TurnChanges
    <2>6. Self \in channels'[job.chan].operators \/ job'.finalModes # <<>>
      BY <2>1, <2>4
    <2> QED
      BY <2>1, <2>3, <2>4, <2>5, <2>6 DEF ModeAuthorityHolds, Open, ModeChannel
  <1> QED
    BY <1>1, <1>3, <1>4, <1>5, <1>6, <1>7, <1>8, StepKinds

-----------------------------------------------------------------------------
(* The whole invariant.                                                    *)

CoreInv ==
  /\ Base
  /\ NickTableExact
  /\ RegistrationExact
  /\ ChannelsOK
  /\ ModeAuthorityHolds

(* CoreInv holds at the start.                                             *)
LEMMA CoreInvInit == Init => CoreInv
  <1> SUFFICES ASSUME Init PROVE CoreInv
    OBVIOUS
  <1>1. Live = {} /\ Open = {}
    BY DEF Init, Live, Open
  <1>2. NickTableExact
    BY <1>1, NamesAssumption DEF Init, NickTableExact
  <1>3. RegistrationExact /\ ChannelsOK
    BY <1>1 DEF RegistrationExact, ChannelsOK
  <1>4. ModeAuthorityHolds
    BY NoJobFacts DEF Init, ModeAuthorityHolds
  <1> QED
    BY BaseInit, <1>2, <1>3, <1>4 DEF CoreInv

(* Every step keeps CoreInv.                                               *)
LEMMA CoreInvNext == CoreInv /\ [Next]_vars => CoreInv'
  <1> SUFFICES ASSUME CoreInv, [Next]_vars PROVE CoreInv'
    OBVIOUS
  <1>1. CASE Next
    BY <1>1, BaseNext, NickTableNext, RegistrationNext, ChannelsNext,
       ModeAuthorityNext DEF CoreInv
  <1>2. CASE UNCHANGED vars
    <2>1. Live' = Live /\ Open' = Open
      BY <1>2 DEF vars, Live, Open
    <2>2. Base'
      BY <1>2, BaseStutters DEF CoreInv
    <2>3. NickTableExact' /\ RegistrationExact'
      BY <1>2, <2>1 DEF CoreInv, NickTableExact, RegistrationExact, vars
    <2>4. ChannelsOK'
      BY <1>2, <2>1 DEF CoreInv, ChannelsOK, Rightful, vars
    <2>5. ModeAuthorityHolds'
      BY <1>2, <2>1 DEF CoreInv, ModeAuthorityHolds, Self, ModeChannel, vars
    <2> QED
      BY <2>2, <2>3, <2>4, <2>5 DEF CoreInv
  <1> QED
    BY <1>1, <1>2

(* The inductive invariant of the command core.                            *)
THEOREM CoreInvariant == Spec => []CoreInv
  BY CoreInvInit, CoreInvNext, PTL DEF Spec

(* The nickname table names a client exactly when the client is live and   *)
(* carries the name (ServerState's _clientsByNick, updateNickname,         *)
(* removeClient).                                                          *)
THEOREM NickTable == Spec => []NickTableExact
  <1>1. CoreInv => NickTableExact
    BY DEF CoreInv
  <1> QED
    BY CoreInvariant, <1>1, PTL

(* A client is registered exactly when PASS, NICK and USER were accepted.  *)
THEOREM Registration == Spec => []RegistrationExact
  <1>1. CoreInv => RegistrationExact
    BY DEF CoreInv
  <1> QED
    BY CoreInvariant, <1>1, PTL

(* No channel keeps a pointer to a deleted Client (ServerState's           *)
(* removeClient clears all three sets of every channel).                   *)
THEOREM ChannelPointers == Spec => []NoDanglingClient
  <1>1. CoreInv => NoDanglingClient
    BY DEF CoreInv, ChannelsOK, Rightful, NoDanglingClient
  <1> QED
    BY CoreInvariant, <1>1, PTL

(* Operators are members, and members are registered.                      *)
THEOREM Ranks == Spec => []RanksConsistent
  <1>1. CoreInv => RanksConsistent
    BY DEF CoreInv, ChannelsOK, Rightful, RanksConsistent
  <1> QED
    BY CoreInvariant, <1>1, PTL

(* A channel that exists has a member, whatever emptied it.                *)
THEOREM ChannelsInhabited == Spec => []NoEmptyChannel
  <1>1. CoreInv => NoEmptyChannel
    BY DEF CoreInv, ChannelsOK, Rightful, NoEmptyChannel
  <1> QED
    BY CoreInvariant, <1>1, PTL

(* All along a MODE line the channel the handler points to exists, and the *)
(* operator check made before the line still stands, unless the line itself*)
(* has changed the channel (_handleMode).                               *)
THEOREM ModeAuthority == Spec => []ModeAuthorityHolds
  <1>1. CoreInv => ModeAuthorityHolds
    BY DEF CoreInv
  <1> QED
    BY CoreInvariant, <1>1, PTL

-----------------------------------------------------------------------------
(* Steps.  What may become of a channel that outlives the step.            *)

LEMMA ChannelSteps ==
  ASSUME Base, [Next]_vars, NEW c \in Chan,
         channels[c] # NULL, channels'[c] # NULL
  PROVE  \/ channels'[c] = channels[c]
         \/ \E a : channels'[c] = RemoveFromChannel(channels[c], a)
         \/ \E a : /\ ~Full(channels[c])
                   /\ channels'[c] = AddMember(channels[c], a)
         \/ \E a : channels'[c] = AddInvitedMember(channels[c], a)
         \/ Tunes(c, channels'[c])
  <1>1. TypeOK /\ FdTableExact
    BY DEF Base
  <1>2. CASE UNCHANGED channels
    BY <1>2
  <1>3. ASSUME NEW f \in Fd, RemoveClient(f)
        PROVE  channels'[c] = RemoveFromChannel(channels[c], clientsByFd[f])
    BY <1>3 DEF RemoveClient, RemoveIfEmpty
  <1>4. ASSUME NEW d \in Chan, Changes(d), channels'[c] # channels[c]
        PROVE  \/ \E a : channels'[c] = RemoveFromChannel(channels[c], a)
               \/ \E a : /\ ~Full(channels[c])
                         /\ channels'[c] = AddMember(channels[c], a)
               \/ \E a : channels'[c] = AddInvitedMember(channels[c], a)
               \/ Tunes(c, channels'[c])
    <2>1. PICK new :
            /\ channels' = [channels EXCEPT ![d] = new]
            /\ Joins(d, new) \/ Kicks(d, new) \/ Invites(d, new) \/ Tunes(d, new)
      BY <1>4 DEF Changes
    <2>2. c = d /\ channels'[c] = new
      BY <1>1, <1>4, <2>1 DEF TypeOK
    <2>3. CASE Joins(c, new)
      BY <2>2, <2>3 DEF Joins, Admit
    <2>4. CASE Kicks(c, new)
      BY <2>2, <2>4 DEF Kicks, RemoveIfEmpty
    <2>5. CASE Invites(c, new)
      BY <2>2, <2>5 DEF Invites
    <2> QED
      BY <2>1, <2>2, <2>3, <2>4, <2>5
  <1>5. ASSUME NEW f \in Fd,
               Stores(f) \/ \E a \in Addr : AddNewClient(f, a)
        PROVE  UNCHANGED channels
    BY <1>5 DEF Stores, AddNewClient
  <1>6. UNCHANGED <<state, job>> \/ UNCHANGED vars => UNCHANGED channels
    BY DEF state, vars
  <1>7. \/ UNCHANGED channels
        \/ \E f \in Fd : RemoveClient(f)
        \/ \E d \in Chan : Changes(d)
    BY <1>1, <1>5, <1>6, StepKinds, RequestChanges, TurnChanges
  <1> QED
    BY <1>2, <1>3, <1>4, <1>7

(* What each way of changing a channel does to the three sets.             *)
LEMMA ChannelSets ==
  ASSUME NEW ch \in ChannelObject, NEW a
  PROVE  /\ RemoveFromChannel(ch, a).members = ch.members \ {a}
         /\ RemoveFromChannel(ch, a).operators = ch.operators \ {a}
         /\ RemoveFromChannel(ch, a).invited = ch.invited \ {a}
         /\ AddMember(ch, a).members = ch.members \cup {a}
         /\ AddMember(ch, a).operators = ch.operators
         /\ AddInvitedMember(ch, a).members = ch.members
         /\ AddInvitedMember(ch, a).operators = ch.operators
  BY DEF RemoveFromChannel, AddMember, AddInvitedMember, ChannelObject

(* No step leaves rank or invitation to a client it puts out.              *)
LEMMA LeaversStrippedStep ==
  ASSUME Base, [Next]_vars
  PROVE  LeaversStripped
  <1> SUFFICES ASSUME NEW c \in Chan, channels[c] # NULL, channels'[c] # NULL,
                      NEW a \in channels[c].members \ channels'[c].members
               PROVE  a \notin channels'[c].invited \cup channels'[c].operators
    BY DEF LeaversStripped, Open
  <1>1. channels[c] \in ChannelObject
    BY DEF Base, TypeOK
  <1>2. PICK b : channels'[c] = RemoveFromChannel(channels[c], b)
    BY <1>1, ChannelSteps, ChannelSets DEF Tunes
  <1> QED
    BY <1>1, <1>2, ChannelSets

(* No step gives an operator back to a channel that has none.              *)
LEMMA NoHeirStep ==
  ASSUME Base, [Next]_vars
  PROVE  NoHeir
  <1> SUFFICES ASSUME NEW c \in Chan, channels[c] # NULL, channels'[c] # NULL,
                      channels[c].operators = {},
                      ~(job.cmd = "MODE" /\ job.chan = c)
               PROVE  channels'[c].operators = {}
    BY DEF NoHeir, Open
  <1>1. channels[c] \in ChannelObject
    BY DEF Base, TypeOK
  <1>2. \/ channels'[c].operators \subseteq channels[c].operators
        \/ Tunes(c, channels'[c])
    BY <1>1, ChannelSteps, ChannelSets
  <1> QED
    BY <1>2 DEF Tunes

(* No step lets anybody in beyond the limit.                               *)
LEMMA WithinLimitStep ==
  ASSUME Base, [Next]_vars
  PROVE  WithinLimit
  <1> SUFFICES ASSUME NEW c \in Chan, channels[c] # NULL, channels'[c] # NULL,
                      channels[c].memberLimited,
                      ~(channels'[c].members \subseteq channels[c].members)
               PROVE  Cardinality(channels'[c].members) <= channels[c].maxMember
    BY DEF WithinLimit, Open
  <1>1. channels[c] \in ChannelObject
    BY DEF Base, TypeOK
  <1> DEFINE old == channels[c].members
             max == channels[c].maxMember
  <1>2. PICK a : /\ ~Full(channels[c])
                 /\ channels'[c].members = old \cup {a}
    <2>1. ASSUME channels'[c] = channels[c] \/ Tunes(c, channels'[c])
          PROVE  channels'[c].members = channels[c].members
      BY <2>1 DEF Tunes
    <2>2. ASSUME NEW b, channels'[c] = RemoveFromChannel(channels[c], b)
                          \/ channels'[c] = AddInvitedMember(channels[c], b)
          PROVE  channels'[c].members \subseteq channels[c].members
      BY <1>1, <2>2, ChannelSets
    <2>3. PICK b : /\ ~Full(channels[c])
                   /\ channels'[c] = AddMember(channels[c], b)
      BY <2>1, <2>2, ChannelSteps
    <2>4. AddMember(channels[c], b).members = old \cup {b}
      BY <1>1, ChannelSets
    <2> QED
      BY <2>3, <2>4
  <1>3. IsFiniteSet(old) /\ Cardinality(old) \in Nat
    BY <1>1, FiniteAddrAssumption, FS_Subset, FS_CardinalityType DEF ChannelObject
  <1>4. ~(Cardinality(old) >= max)
    BY <1>2 DEF Full
  <1>5. max \in Int
    <2>1. max \in MemberLimit
      BY <1>1 DEF ChannelObject
    <2> HIDE DEF max
    <2>2. MaxInt \in Nat
      BY NamesAssumption
    <2> QED
      BY <2>1, <2>2, SMT DEF MemberLimit
  <1>6. Cardinality(old \cup {a}) <= Cardinality(old) + 1
        /\ Cardinality(old \cup {a}) \in Nat
    <2>1. Cardinality(old \cup {a}) =
            IF a \in old THEN Cardinality(old) ELSE Cardinality(old) + 1
      BY <1>3, FS_AddElement
    <2> HIDE DEF old
    <2> QED
      BY <1>3, <2>1
  <1> HIDE DEF old, max
  <1>7. Cardinality(old \cup {a}) <= max
    BY <1>3, <1>4, <1>5, <1>6, SMT
  <1> QED
    BY <1>2, <1>7 DEF max

(* No step gives a name that one client holds to another.                  *)
LEMMA NamesKeptStep ==
  ASSUME Base, [Next]_vars
  PROVE  NamesKept
  <1>1. FdTypes /\ TypeOK /\ FdTableExact
    BY DEF Base, TypeOK, FdTypes
  <1> SUFFICES ASSUME NEW n \in Nick, clientsByNick[n] # NULL
               PROVE  clientsByNick'[n] \in {clientsByNick[n], NULL}
    BY DEF NamesKept
  <1>2. ASSUME NEW f \in Fd, RemoveClient(f)
        PROVE  clientsByNick'[n] \in {clientsByNick[n], NULL}
    BY <1>1, <1>2 DEF RemoveClient, ForgetNick, FdTypes
  <1>3. ASSUME NEW f \in Fd, Stores(f)
        PROVE  clientsByNick'[n] \in {clientsByNick[n], NULL}
    <2>1. CASE clientsByNick' = clientsByNick
      BY <2>1
    <2>2. ASSUME NEW m \in Nick, ~NickTaken(clientsByFd[f], m),
                 clientsByNick' = Renamed(clientsByFd[f], m)
          PROVE  clientsByNick'[n] \in {clientsByNick[n], NULL}
      BY <2>2 DEF Renamed, NickTaken
    <2> QED
      BY <1>3, <2>1, <2>2 DEF Stores
  <1>4. ASSUME NEW f \in Fd, NEW a \in Addr, AddNewClient(f, a)
        PROVE  UNCHANGED clientsByNick
    BY <1>4 DEF AddNewClient
  <1>5. UNCHANGED tables \/ UNCHANGED <<state, job>> \/ UNCHANGED vars
          => UNCHANGED clientsByNick
    BY DEF tables, state, vars
  <1> QED
    BY <1>1, <1>2, <1>3, <1>4, <1>5, StepKinds, RequestKeepsTables,
       TurnKeepsTables

(* No step hands a nickname from one client to another (NICK, removeClient)*)
THEOREM NamesNotStolen == Spec => NickNotStolen
  <1>1. Base /\ [Next]_vars => [NamesKept]_vars
    BY NamesKeptStep
  <1> QED
    BY BaseInvariant, <1>1, PTL DEF Spec, NickNotStolen

(* Whoever leaves a channel, kicked or disconnected, keeps neither rank nor*)
(* invitation in it (Channel::removeClient).                               *)
THEOREM InvitationsRevoked == Spec => KickRevokesInvitation
  <1>1. Base /\ [Next]_vars => [LeaversStripped]_vars
    BY LeaversStrippedStep
  <1> QED
    BY BaseInvariant, <1>1, PTL DEF Spec, KickRevokesInvitation

(* Nobody inherits the rank of the last operator of a channel.             *)
THEOREM RanksNotInherited == Spec => NoRankFromNowhere
  <1>1. Base /\ [Next]_vars => [NoHeir]_vars
    BY NoHeirStep
  <1> QED
    BY BaseInvariant, <1>1, PTL DEF Spec, NoRankFromNowhere

(* A JOIN never takes a +l channel beyond its limit, however the limit and *)
(* the membership came about (_joinSingleChannel's comparison).            *)
THEOREM LimitKept == Spec => LimitRespected
  <1>1. Base /\ [Next]_vars => [WithinLimit]_vars
    BY WithinLimitStep
  <1> QED
    BY BaseInvariant, <1>1, PTL DEF Spec, LimitRespected
=============================================================================
