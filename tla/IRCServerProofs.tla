-------------------------- MODULE IRCServerProofs --------------------------
(***************************************************************************)
(* Proof that the whole program serves connections as Connections says.    *)
(* The invariant of the command core is not enough: it says nothing about  *)
(* whom the replies of a command in progress are for.  Answerable adds     *)
(* that they are for connected clients, and Carried that every client has  *)
(* its entry in _sendBuffers.                                              *)
(***************************************************************************)
EXTENDS IRCServer, IRCCoreProofs

Answers(replies) ==
  /\ replies = [f \in Fd |-> replies[f]]
  /\ \A f \in Fd : replies[f] # <<>> => clientsByFd[f] # NULL

Answerable == Answers(result)

Carried ==
  /\ queue \in [Fd -> (0..MaxQueue) \cup {NoBuffer}]
  /\ \A f \in Fd : clientsByFd[f] # NULL => IsUp(f)

ServerInv == CoreInv /\ Answerable /\ Carried

-----------------------------------------------------------------------------
(* Replies for connected clients stay that when one is added.              *)
LEMMA AddAnswers ==
  ASSUME NEW rs, Answers(rs), NEW r, NEW g, g \in Fd => clientsByFd[g] # NULL
  PROVE  Answers(Add(rs, g, r))
  BY DEF Answers, Add

LEMMA OneAnswer ==
  /\ Answers(NoReplies)
  /\ \A r : \A f \in Fd : clientsByFd[f] # NULL => Answers(Only(f, r))
  <1>1. Answers(NoReplies)
    BY DEF Answers, NoReplies
  <1> QED
    BY <1>1, AddAnswers DEF Only

(* ... or when the members of a channel hear something.                    *)
LEMMA BroadcastAnswers ==
  ASSUME Base, NEW rs, Answers(rs), NEW ms, ms \subseteq Live, NEW r, NEW x
  PROVE  Answers(Broadcast(rs, ms, r, x))
  <1> DEFINE audience == {client[a].socketFd : a \in ms \ {x}}
  <1>1. \A f \in audience : clientsByFd[f] # NULL
    BY LiveClient
  <1>2. Broadcast(rs, ms, r, x) =
          [f \in Fd |-> IF f \in audience THEN Append(rs[f], r) ELSE rs[f]]
    BY DEF Broadcast
  <1> HIDE DEF audience
  <1> QED
    BY <1>1, <1>2 DEF Answers

(* The members of an open channel are live, and a nickname leads to a live *)
(* client.                                                                 *)
LEMMA Reached ==
  ASSUME CoreInv
  PROVE  /\ Base
         /\ \A c \in Chan : channels[c] # NULL => channels[c].members \subseteq Live
         /\ \A n : FindNick(n) # NULL =>
              /\ FindNick(n) \in Live
              /\ clientsByFd[client[FindNick(n)].socketFd] # NULL
  <1>1. Base /\ NickTableExact /\ ChannelsOK
    BY DEF CoreInv
  <1>2. ASSUME NEW n, FindNick(n) # NULL PROVE FindNick(n) \in Live
    <2>1. n \in Nick /\ FindNick(n) \in Addr
      BY <1>1, <1>2 DEF FindNick, Base, TypeOK
    <2> QED
      BY <1>1, <2>1 DEF FindNick, NickTableExact
  <1>3. \A c \in Chan : channels[c] # NULL => channels[c].members \subseteq Live
    BY <1>1 DEF ChannelsOK, Rightful, Open
  <1> QED
    BY <1>1, <1>2, <1>3, LiveClient

-----------------------------------------------------------------------------
(* A command of a client answers connected clients only.                   *)
LEMMA DispatchAnswers ==
  ASSUME CoreInv, NEW f \in Fd, Dispatch(f)
  PROVE  Receives(f) /\ clientsByFd' = clientsByFd /\ Answers(result')
  <1> DEFINE Good == Receives(f) /\ clientsByFd' = clientsByFd /\ Answers(result')
  <1>1. Base
    BY Reached
  <1>2. ASSUME NEW r, Receives(f), Refuse(f, r) PROVE Good
    BY <1>2, OneAnswer DEF Refuse, state, Receives
  <1>3. ASSUME NEW c, Receives(f), StoreAndTryRegister(f, c) PROVE Good
    BY <1>3, OneAnswer DEF StoreAndTryRegister, Receives
  <1>4. ASSUME NEW j, NEW c, NEW l, NEW p, Receives(f), Start(j, f, c, l, p)
        PROVE  Good
    BY <1>4, OneAnswer DEF Start, state
  <1>5. ASSUME NEW p, HandlePass(f, p) \/ HandleNick(f, p) \/ HandleUser(f, p)
        PROVE  Good
    BY <1>2, <1>3, <1>5 DEF HandlePass, HandleNick, HandleUser
  <1>6. CASE NotRegistered(f) \/ HandlePing(f) \/ HandleInvalid(f)
    BY <1>2, <1>6 DEF NotRegistered, HandlePing, HandleInvalid, MayUse
  <1>7. CASE HandleCap(f)
    BY <1>7, OneAnswer DEF HandleCap, state, Receives
  <1>8. ASSUME NEW l, NEW k, HandleJoin(f, l, k) PROVE Good
    BY <1>2, <1>4, <1>8 DEF HandleJoin, MayUse
  <1>9. ASSUME NEW c, NEW l, HandleKick(f, c, l) PROVE Good
    BY <1>2, <1>4, <1>9 DEF HandleKick, MayUse
  <1>10. ASSUME NEW n, NEW c \in Chan, HandleInvite(f, n, c) PROVE Good
    <2>1. Receives(f)
      BY <1>10 DEF HandleInvite, MayUse
    <2>2. CASE \E r : Refuse(f, r)
      BY <1>2, <2>1, <2>2
    <2>3. CASE result' = NoReplies /\ UNCHANGED <<state, job>>
      BY <2>1, <2>3, OneAnswer DEF state
    <2>4. CASE /\ InviteReply(clientsByFd[f], n, c) = Accepted
               /\ result' = Add(Only(f, "341"), client[FindNick(n)].socketFd, "INVITE")
               /\ clientsByFd' = clientsByFd
      <3>1. FindNick(n) # NULL
        BY <2>4 DEF InviteReply, Accepted
      <3>2. Answers(Only(f, "341"))
        BY <2>1, OneAnswer DEF Receives
      <3> QED
        BY <2>1, <2>4, <3>1, <3>2, Reached, AddAnswers
    <2> QED
      BY <1>10, <2>2, <2>3, <2>4 DEF HandleInvite
  <1>11. ASSUME NEW c \in Chan, NEW t, HandleTopic(f, c, t) PROVE Good
    <2>1. Receives(f)
      BY <1>11 DEF HandleTopic, MayUse
    <2>2. CASE \E r : Refuse(f, r)
      BY <1>2, <2>1, <2>2
    <2>3. CASE /\ t # Missing /\ TopicReply(clientsByFd[f], c, t) = Accepted
               /\ result' = Broadcast(NoReplies, channels[c].members, "TOPIC", NULL)
               /\ clientsByFd' = clientsByFd
      <3>1. channels[c] # NULL
        BY <2>3 DEF TopicReply, Accepted
      <3> QED
        BY <1>1, <2>1, <2>3, <3>1, Reached, OneAnswer, BroadcastAnswers
    <2>4. t = Missing => "461" # Accepted
      BY DEF Accepted
    <2> QED
      BY <1>11, <2>2, <2>3, <2>4 DEF HandleTopic
  <1>12. ASSUME NEW c, NEW m, NEW p, HandleMode(f, c, m, p) PROVE Good
    BY <1>2, <1>4, <1>12 DEF HandleMode, MayUse
  <1>13. ASSUME NEW l, NEW h, HandlePrivMsg(f, l, h) PROVE Good
    BY <1>2, <1>4, <1>13 DEF HandlePrivMsg, MayUse
  <1> QED
    BY <1>5, <1>6, <1>7, <1>8, <1>9, <1>10, <1>11, <1>12, <1>13 DEF Dispatch

(* So does every turn of a loop.                                           *)
LEMMA TurnAnswers ==
  ASSUME CoreInv, Answerable, Turn
  PROVE  clientsByFd' = clientsByFd /\ Answers(result')
  <1>1. Base /\ Answers(result)
    BY Reached DEF Answerable
  <1>2. clientsByFd' = clientsByFd
    BY TurnKeepsTables DEF tables
  <1>3. job # NoJob
    BY NoJobFacts DEF Turn, JoinStep, KickStep, PrivMsgStep, ModeSign, ModeFlag,
                      ModeKey, ModeLimit, ModeOperator, ModeUnknown, ModeEnd,
                      InMode, InLoop
  <1>4. ASSUME NEW r PROVE Answers(Add(result, job.fd, r))
    <2>1. clientsByFd[job.fd] # NULL
      BY <1>1, <1>3 DEF Base, JobOK
    <2> QED
      BY <1>1, <2>1, AddAnswers
  <1>5. ASSUME NEW c \in Chan, channels[c] # NULL, NEW r, NEW x
        PROVE  Answers(Broadcast(result, channels[c].members, r, x))
    BY <1>1, <1>5, Reached, BroadcastAnswers
  <1>6. CASE JoinStep
    <2>1. ASSUME NEW c \in Chan, NEW new,
                 new = Admit(IF channels[c] = NULL THEN NewChannel ELSE channels[c],
                             Self, channels[c] = NULL)
          PROVE  Answers(JoinReplies(new))
      <3> DEFINE old == IF channels[c] = NULL THEN NewChannel ELSE channels[c]
      <3>1. old \in ChannelObject /\ old.members \subseteq Live
        <4>1. channels[c] \in ChannelObject \cup {NULL}
          BY <1>1 DEF Base, TypeOK
        <4>2. NewChannel.members = {}
          BY DEF NewChannel
        <4> QED
          BY <4>1, <4>2, NewChannelType, Reached
      <3>2. new.members = old.members \cup {Self}
        BY <2>1, <3>1 DEF Admit, AddMember, AddOperator, ChannelObject
      <3>3. new.members \subseteq Live
        BY <1>1, <1>3, <3>1, <3>2, SelfLive
      <3>4. Answers(Broadcast(result, new.members, "JOIN", NULL))
        BY <1>1, <3>3, BroadcastAnswers
      <3>5. clientsByFd[job.fd] # NULL
        BY <1>1, <1>3 DEF Base, JobOK
      <3>6. ASSUME NEW rs, Answers(rs), NEW r PROVE Answers(Add(rs, job.fd, r))
        BY <3>5, <3>6, AddAnswers
      <3> HIDE DEF old
      <3> QED
        BY <3>4, <3>6 DEF JoinReplies
    <2> QED
      BY <1>1, <1>4, <1>6, <2>1 DEF JoinStep
  <1>7. CASE KickStep
    <2>1. job.chan \in Chan
      BY <1>1, <1>3, <1>7 DEF KickStep, InLoop, Base, JobOK
    <2>2. KickReply(Self, job.chan, Current) = Accepted => channels[job.chan] # NULL
      BY DEF KickReply, Accepted
    <2> QED
      BY <1>4, <1>5, <1>7, <2>1, <2>2 DEF KickStep
  <1>8. CASE PrivMsgStep
    <2>1. ASSUME MsgReply(Self, Current) = Accepted, Current \in Chan
          PROVE  channels[Current] # NULL
      BY <2>1, NamesAssumption DEF MsgReply, Accepted
    <2>2. ASSUME MsgReply(Self, Current) = Accepted, Current \notin Chan, NEW r
          PROVE  Answers(Add(result, client[FindNick(Current)].socketFd, r))
      <3>1. FindNick(Current) # NULL
        BY <2>2 DEF MsgReply, Accepted
      <3> QED
        BY <1>1, <3>1, Reached, AddAnswers
    <2>3. ASSUME MsgReply(Self, Current) # Accepted PROVE Answers(result')
      BY <1>4, <1>8, <2>3 DEF PrivMsgStep
    <2>4. ASSUME MsgReply(Self, Current) = Accepted, Current \in Chan
          PROVE  Answers(result')
      <3>1. result' = Broadcast(result, channels[Current].members, "PRIVMSG", Self)
        BY <1>8, <2>4 DEF PrivMsgStep
      <3> QED
        BY <1>5, <2>1, <2>4, <3>1
    <2>5. ASSUME MsgReply(Self, Current) = Accepted, Current \notin Chan
          PROVE  Answers(result')
      <3>1. result' = Add(result, client[FindNick(Current)].socketFd, "PRIVMSG")
        BY <1>8, <2>5 DEF PrivMsgStep
      <3> QED
        BY <2>2, <2>5, <3>1
    <2> QED
      BY <1>2, <2>3, <2>4, <2>5
  <1>9. CASE job.cmd = "MODE"
    <2>1. job.chan \in Chan /\ channels[job.chan] # NULL
      BY <1>1, <1>3, <1>9 DEF Base, JobOK
    <2>2. ASSUME NEW ch, NEW b, NEW p, Change(ch, b, p) \/ Ignore(b)
          PROVE  result' = result
      BY <2>2 DEF Change, Ignore
    <2>3. ASSUME NEW b, NEW r, Complain(b, r) PROVE Answers(result')
      BY <1>4, <2>3 DEF Complain
    <2>4. result' = result => Answers(result')
      BY <1>1
    <2>5. CASE ModeSign \/ ModeFlag
      BY <1>2, <2>2, <2>4, <2>5 DEF ModeSign, ModeFlag
    <2>6. CASE ModeKey
      BY <1>2, <2>2, <2>4, <2>6 DEF ModeKey
    <2>7. CASE ModeLimit
      BY <1>2, <2>2, <2>4, <2>7 DEF ModeLimit
    <2>8. CASE ModeOperator
      BY <1>2, <2>2, <2>3, <2>4, <2>8 DEF ModeOperator
    <2>9. CASE ModeUnknown
      <3>1. result' = Add(result, job.fd, "472")
        BY <2>9 DEF ModeUnknown, Complain
      <3> QED
        BY <1>2, <1>4, <3>1
    <2>10. CASE ModeEnd
      BY <1>1, <1>2, <1>5, <2>1, <2>10 DEF ModeEnd, ModeChannel
    <2> QED
      BY <1>6, <1>7, <1>8, <2>5, <2>6, <2>7, <2>8, <2>9,
         <2>10 DEF Turn
  <1>10. job.cmd = "MODE" \/ JoinStep \/ KickStep \/ PrivMsgStep
    BY DEF Turn, ModeSign, ModeFlag, ModeKey, ModeLimit, ModeOperator,
           ModeUnknown, ModeEnd, InMode, InLoop
  <1> QED
    BY <1>2, <1>6, <1>7, <1>8, <1>9, <1>10

-----------------------------------------------------------------------------
(* Queueing replies makes no entry shorter, keeps it within the bound, and *)
(* touches nobody who is not answered.                                     *)
LEMMA QueueGrows ==
  ASSUME Carried, Answers(result'), clientsByFd' = clientsByFd, QueueResponses,
         result' \in Results
  PROVE  Conn!Reply(Clients) /\ Carried'
  <1>1. ASSUME NEW f \in Fd, clientsByFd[f] # NULL
        PROVE  /\ queue[f] \in 0..MaxQueue
               /\ Longer(queue[f], result'[f]) \in queue[f]..MaxQueue
    <2>1. queue[f] \in 0..MaxQueue /\ queue[f] # NoBuffer
      BY <1>1 DEF Carried, IsUp
    <2>2. Len(result'[f]) \in Nat
      BY DEF Results
    <2> QED
      BY <2>1, <2>2, QueueAssumption, SMT DEF Longer
  <1>2. ASSUME NEW f \in Fd, clientsByFd[f] = NULL
        PROVE  Longer(queue[f], result'[f]) = queue[f]
    BY <1>2 DEF Answers, Longer
  <1>3. ASSUME NEW f \in Fd
        PROVE  /\ clientsByFd[f] # NULL => queue[f] # NoBuffer
                     /\ queue'[f] \in queue[f]..MaxQueue /\ queue'[f] \in 0..MaxQueue
               /\ clientsByFd[f] = NULL => queue'[f] = queue[f]
    <2>1. queue'[f] \in {queue[f], Longer(queue[f], result'[f])}
      BY DEF QueueResponses
    <2>2. CASE clientsByFd[f] # NULL
      <3>1. queue[f] \in 0..MaxQueue /\ queue[f] # NoBuffer
        BY <2>2 DEF Carried, IsUp
      <3> QED
        BY <1>1, <2>1, <2>2, <3>1, QueueAssumption, SMT
    <2> QED
      BY <1>2, <2>1, <2>2
  <1>4. queue' \in [Fd -> (0..MaxQueue) \cup {NoBuffer}]
    <2>1. ASSUME NEW f \in Fd PROVE queue'[f] \in (0..MaxQueue) \cup {NoBuffer}
      BY <1>3 DEF Carried
    <2>2. queue' = [f \in Fd |-> queue'[f]]
      BY DEF QueueResponses
    <2> QED
      BY <2>1, <2>2
  <1>5. Clients' = Clients /\ Clients \subseteq Fd
    BY DEF Clients
  <1>6. ASSUME NEW f \in Fd
        PROVE  IF f \in Clients
                 THEN Conn!IsUp(f) /\ queue'[f] \in queue[f]..MaxQueue
                 ELSE queue'[f] = queue[f]
    BY <1>3 DEF Clients, Conn!IsUp
  <1>7. Conn!Reply(Clients)
    BY <1>4, <1>5, <1>6 DEF Conn!Reply
  <1>8. ASSUME NEW f \in Fd, clientsByFd'[f] # NULL PROVE queue'[f] # NoBuffer
    BY <1>3, <1>8, QueueAssumption
  <1> QED
    BY <1>4, <1>7, <1>8 DEF Carried, IsUp

-----------------------------------------------------------------------------
(* Every step of the program is a step of the command core, or none.       *)
LEMMA CoreStep ==
  ASSUME ServerNext
  PROVE  [Next]_vars
  <1>1. ASSUME NEW f \in Fd, Accept(f) \/ ProcessMessage(f) \/ Disconnect(f)
        PROVE  (\E g \in Fd : Command(g)) \/ UNCHANGED vars
    BY <1>1 DEF Accept, ProcessMessage, Disconnect, Command
  <1>2. ASSUME NEW f \in Fd, SendData(f) PROVE UNCHANGED vars
    BY <1>2 DEF SendData
  <1>3. HandlerGoesOn => Turn
    BY DEF HandlerGoesOn
  <1> QED
    BY <1>1, <1>2, <1>3 DEF ServerNext, Next

(* A connection is accepted without replies.                               *)
LEMMA AcceptOpens ==
  ASSUME ServerInv, NEW f \in Fd, Accept(f)
  PROVE  Conn!Next /\ Answerable' /\ Carried'
  <1>1. /\ ~IsUp(f) /\ queue' = [queue EXCEPT ![f] = 0]
        /\ \/ \E a \in Addr : AddNewClient(f, a)
           \/ OutOfMemory /\ UNCHANGED vars
    BY DEF Accept
  <1>2. Answerable /\ Carried /\ Base
    BY DEF ServerInv, CoreInv
  <1>3. queue' \in [Fd -> (0..MaxQueue) \cup {NoBuffer}]
    BY <1>1, <1>2, QueueAssumption DEF Carried
  <1>4. \A g \in Fd : IsUp(g)' <=> g = f \/ IsUp(g)
    BY <1>1, <1>2, QueueAssumption DEF Carried, IsUp
  <1>5. CASE \E a \in Addr : AddNewClient(f, a)
    <2>1. PICK a \in Addr : AddNewClient(f, a)
      BY <1>5
    <2>2. /\ clientsByFd' = [clientsByFd EXCEPT ![f] = a] /\ result' = NoReplies
          /\ a # NULL
      BY <2>1, NamesAssumption DEF AddNewClient
    <2>3. \A g \in Fd : clientsByFd'[g] # NULL <=> g = f \/ clientsByFd[g] # NULL
      BY <1>2, <2>2 DEF Base, TypeOK
    <2>4. Clients' = Clients \cup {f}
      BY <2>3 DEF Clients
    <2>5. Answers(NoReplies)'
      BY DEF Answers, NoReplies
    <2>6. Conn!Open(f)
      BY <1>1, <2>4 DEF Conn!Open, Conn!IsUp, IsUp
    <2>7. Answerable' /\ Carried'
      BY <1>2, <1>3, <1>4, <2>2, <2>3, <2>5 DEF Answerable, Answers, Carried
    <2> QED
      BY <2>6, <2>7 DEF Conn!Next
  <1>6. CASE OutOfMemory /\ UNCHANGED vars
    <2>1. clientsByFd' = clientsByFd /\ result' = result
      BY <1>6 DEF vars
    <2>2. Conn!Open(f)
      BY <1>1, <1>6, <2>1 DEF Conn!Open, Conn!IsUp, IsUp, Clients
    <2>3. Answerable' /\ Carried'
      BY <1>2, <1>3, <1>4, <2>1 DEF Answerable, Answers, Carried
    <2> QED
      BY <2>2, <2>3 DEF Conn!Next
  <1> QED
    BY <1>1, <1>5, <1>6

(* A connection that goes takes its entry and its client with it.          *)
LEMMA DisconnectCloses ==
  ASSUME ServerInv, NEW f \in Fd, Disconnect(f)
  PROVE  Conn!Next /\ Answerable' /\ Carried'
  <1>1. /\ IsUp(f) /\ queue' = [queue EXCEPT ![f] = NoBuffer]
        /\ \/ RemoveClient(f)
           \/ clientsByFd[f] = NULL /\ UNCHANGED vars
    BY DEF Disconnect
  <1>2. Answerable /\ Carried /\ Base
    BY DEF ServerInv, CoreInv
  <1>3. queue' \in [Fd -> (0..MaxQueue) \cup {NoBuffer}]
    BY <1>1, <1>2 DEF Carried
  <1>4. \A g \in Fd : IsUp(g)' <=> g # f /\ IsUp(g)
    BY <1>1, <1>2 DEF Carried, IsUp
  <1>5. CASE RemoveClient(f)
    <2>1. clientsByFd' = [clientsByFd EXCEPT ![f] = NULL] /\ result' = NoReplies
      BY <1>5 DEF RemoveClient, ForgetFd
    <2>2. \A g \in Fd : clientsByFd'[g] # NULL <=> g # f /\ clientsByFd[g] # NULL
      BY <1>2, <2>1 DEF Base, TypeOK
    <2>3. Answers(NoReplies)'
      BY DEF Answers, NoReplies
    <2>4. Conn!Close(f)
      BY <1>1, <2>2 DEF Conn!Close, Conn!IsUp, IsUp, Clients
    <2>5. Answerable' /\ Carried'
      BY <1>2, <1>3, <1>4, <2>1, <2>2, <2>3 DEF Answerable, Answers, Carried
    <2> QED
      BY <2>4, <2>5 DEF Conn!Next
  <1>6. CASE clientsByFd[f] = NULL /\ UNCHANGED vars
    <2>1. clientsByFd' = clientsByFd /\ result' = result
      BY <1>6 DEF vars
    <2>2. Clients' = Clients \ {f}
      BY <1>6, <2>1 DEF Clients
    <2>3. Conn!Close(f)
      BY <1>1, <2>2 DEF Conn!Close, Conn!IsUp, IsUp
    <2>4. Answerable' /\ Carried'
      BY <1>2, <1>3, <1>4, <1>6, <2>1 DEF Answerable, Answers, Carried
    <2> QED
      BY <2>3, <2>4 DEF Conn!Next
  <1> QED
    BY <1>1, <1>5, <1>6

(* Sending takes replies away and nothing else.                            *)
LEMMA SendDelivers ==
  ASSUME ServerInv, NEW f \in Fd, SendData(f)
  PROVE  Conn!Next /\ Answerable' /\ Carried'
  <1>1. /\ IsUp(f) /\ clientsByFd' = clientsByFd /\ result' = result
        /\ Answerable /\ Carried
    BY DEF SendData, ServerInv, vars
  <1>2. PICK left \in 0 .. queue[f] : queue' = [queue EXCEPT ![f] = left]
    BY DEF SendData
  <1>3. left \in 0..MaxQueue /\ left # NoBuffer
    BY <1>1, <1>2, QueueAssumption DEF Carried, IsUp
  <1>4. Conn!Deliver(f)
    BY <1>1, <1>2 DEF Conn!Deliver, Conn!IsUp, IsUp, Clients
  <1>5. Answerable' /\ Carried'
    BY <1>1, <1>2, <1>3 DEF Answerable, Answers, Carried, IsUp
  <1> QED
    BY <1>4, <1>5 DEF Conn!Next

(* Every step of the program is a step of Connections and keeps the        *)
(* invariant.                                                              *)
LEMMA ServerStep ==
  ServerInv /\ [ServerNext]_servervars => ServerInv' /\ [Conn!Next]_(Conn!vars)
  <1> SUFFICES ASSUME ServerInv, [ServerNext]_servervars
               PROVE  ServerInv' /\ (Conn!Next \/ UNCHANGED Conn!vars)
    OBVIOUS
  <1>1. CoreInv /\ Answerable /\ Carried
    BY DEF ServerInv
  <1>2. CoreInv'
    <2>1. UNCHANGED servervars => UNCHANGED vars
      BY DEF servervars
    <2> QED
      BY <1>1, <2>1, CoreStep, CoreInvNext
  <1>3. ASSUME clientsByFd' = clientsByFd, Answers(result'), result' \in Results,
               QueueResponses
        PROVE  Conn!Next /\ Answerable' /\ Carried'
    <2>1. Conn!Reply(Clients) /\ Carried'
      BY <1>1, <1>3, QueueGrows
    <2>2. Answerable'
      BY <1>3 DEF Answerable, Answers
    <2>3. Clients \in SUBSET Fd
      BY DEF Clients
    <2> QED
      BY <2>1, <2>2, <2>3 DEF Conn!Next
  <1>4. ASSUME NEW f \in Fd, ProcessMessage(f)
        PROVE  Conn!Next /\ Answerable' /\ Carried'
    <2>1. Dispatch(f) /\ QueueResponses
      BY <1>4 DEF ProcessMessage
    <2>2. result' \in Results
      BY <1>1, <2>1, CommandResult DEF Command, CoreInv, Base
    <2> QED
      BY <1>1, <1>3, <2>1, <2>2, DispatchAnswers
  <1>5. CASE HandlerGoesOn
    <2>1. Turn /\ QueueResponses
      BY <1>5 DEF HandlerGoesOn
    <2>2. result' \in Results
      BY <1>1, <2>1, TurnResult DEF CoreInv, Base
    <2> QED
      BY <1>1, <1>2, <1>3, <2>1, <2>2, TurnAnswers DEF ServerInv
  <1>6. CASE UNCHANGED servervars
    <2>1. clientsByFd' = clientsByFd /\ result' = result /\ queue' = queue
      BY <1>6 DEF servervars, vars
    <2>2. Answerable' /\ Carried'
      BY <1>1, <2>1 DEF Answerable, Answers, Carried, IsUp
    <2>3. UNCHANGED Conn!vars
      BY <2>1 DEF Conn!vars, Clients
    <2> QED
      BY <1>2, <2>2, <2>3 DEF ServerInv
  <1>7. ASSUME NEW f \in Fd, Accept(f) \/ SendData(f) \/ Disconnect(f)
        PROVE  Conn!Next /\ Answerable' /\ Carried'
    BY <1>7, AcceptOpens, SendDelivers, DisconnectCloses
  <1> QED
    BY <1>2, <1>4, <1>5, <1>6, <1>7 DEF ServerNext, ServerInv

LEMMA ServerStart == ServerInit => ServerInv /\ Conn!Init
  <1> SUFFICES ASSUME ServerInit PROVE ServerInv /\ Conn!Init
    OBVIOUS
  <1>1. /\ Init /\ queue = [f \in Fd |-> NoBuffer] /\ result = NoReplies
        /\ clientsByFd = [f \in Fd |-> NULL]
    BY DEF ServerInit, Init
  <1>2. Clients = {}
    BY <1>1 DEF Clients
  <1>3. Answerable /\ Carried
    BY <1>1, OneAnswer DEF Answerable, Carried
  <1> QED
    BY <1>1, <1>2, <1>3, CoreInvInit DEF ServerInv, Conn!Init

(* The program keeps the promise of Connections for every number of        *)
(* clients, channels and list entries: replies go to connections that are  *)
(* there and have a client, a connection starts with none, and what is     *)
(* unsent goes with it (Server's acceptNewClient, processMessage, sendData *)
(* and disconnectClient with every handler of CommandDispatcher).          *)
THEOREM ServerServesConnections == ServerSpec => ServesConnections
  BY ServerStart, ServerStep, PTL DEF ServerSpec, ServesConnections, Conn!Spec
=============================================================================
