------------------------------ MODULE IRCCore ------------------------------
(***************************************************************************)
(* The command core of the server: ServerState and the CommandDispatcher   *)
(* handlers.  Server calls it from one thread, one complete command at a   *)
(* time.                                                                   *)
(*                                                                         *)
(* A handler without a loop is one action.  JOIN, KICK, PRIVMSG and MODE   *)
(* walk a list; each is a Handle action that does the checks before the    *)
(* loop and then one Step action per turn of the loop, on the state the    *)
(* earlier turns left.  Nothing else happens between them: `job' is the    *)
(* handler in progress and every other action waits for it.                *)
(***************************************************************************)
EXTENDS Client, Channel

CONSTANTS
  JoinLists,    \* channel lists of JOIN, split at the commas
  KeyLists,     \* key lists of JOIN, split at the commas
  KickLists,    \* nickname lists of KICK
  MsgLists,     \* target lists of PRIVMSG
  ModeStrings,  \* mode strings of MODE, as sequences of characters
  ModeParams,   \* what follows the mode string of MODE
  OutOfMemory   \* may an allocation fail

ASSUME InputAssumption ==
  /\ JoinLists \subseteq Seq(Chan \cup Param) \ {<<>>}
  /\ KeyLists \subseteq Seq(Param)
  /\ KickLists \subseteq Seq(Param) \ {<<>>}
  /\ MsgLists \subseteq Seq(Chan \cup Param) \ {<<>>}
  /\ ModeStrings \subseteq Seq(ModeChar)
  /\ ModeParams \subseteq Seq(Param)

(* Only the last parameter of a message can be empty (Parser).             *)
ASSUME EmptyLastAssumption ==
  \A p \in ModeParams : \A i \in 1 .. Len(p) - 1 : p[i] # ""

ASSUME MemoryAssumption == OutOfMemory \in BOOLEAN

VARIABLES
  clientsByFd,    \* ServerState::_clientsByFd
  clientsByNick,  \* ServerState::_clientsByNick
  client,         \* the heap: the Client at each address, NULL when free
  channels,       \* ServerState::_channels
  job,            \* the handler whose loop is in progress
  result          \* CommandResult of the last command: the replies per fd

state == <<clientsByFd, clientsByNick, client, channels>>
vars  == <<clientsByFd, clientsByNick, client, channels, job, result>>

ASSUME NullAssumption == NULL \notin ClientObject \cup ChannelObject

-----------------------------------------------------------------------------
(* Replies.  A reply is its numeric or its command; 001 stands for the     *)
(* four welcome lines, 353 for the names list and its 366.                 *)
Reply ==
  {"001", "324", "331", "332", "341", "353", "401", "403", "404", "411",
   "412", "421", "431", "432", "433", "441", "442", "443", "451", "461",
   "462", "464", "471", "472", "473", "475", "482",
   "JOIN", "KICK", "TOPIC", "MODE", "INVITE", "PRIVMSG", "PONG", "CAP"}

NoReplies == [f \in Fd |-> <<>>]
Add(replies, f, r) == [replies EXCEPT ![f] = Append(@, r)]
Only(f, r) == Add(NoReplies, f, r)

(* _broadcastToChannel: to the socket of every member but `except'.        *)
BadBroadcast(replies, members, r, except) ==
  LET told     == {f \in Fd : \E i \in DOMAIN replies[f] : replies[f][i] = r}
      audience == {client[a].socketFd : a \in members \ {except}} \ told
  IN  [f \in Fd |-> IF f \in audience THEN Append(replies[f], r) ELSE replies[f]]
Broadcast(replies, members, r, except) ==
  LET audience == {client[a].socketFd : a \in members \ {except}}
  IN  [f \in Fd |-> IF f \in audience THEN Append(replies[f], r) ELSE replies[f]]

(* A command that ends in a single reply and changes nothing.              *)
Accepted == "accepted"
Refuse(f, r) == result' = Only(f, r) /\ UNCHANGED <<state, job>>

-----------------------------------------------------------------------------
(* The handler in progress.                                                *)
NoJob ==
  [cmd |-> "none", fd |-> NULL, chan |-> NULL, todo |-> <<>>,
   params |-> <<>>, adding |-> FALSE,
   finalModes |-> <<>>, finalParams |-> <<>>, lastSign |-> ""]

Job ==
  [cmd: {"none", "JOIN", "KICK", "PRIVMSG", "MODE"}, fd: Fd \cup {NULL},
   chan: Chan \cup {NULL}, todo: Seq(Token), params: Seq(Param),
   adding: BOOLEAN,
   finalModes: Seq(ModeChar), finalParams: Seq(Param), lastSign: {"", "+", "-"}]

(* Enter the loop of command `cmd', with an empty CommandResult.           *)
Start(cmd, f, c, todo, params) ==
  /\ job' = [NoJob EXCEPT !.cmd = cmd, !.fd = f, !.chan = c, !.todo = todo,
                          !.params = params, !.adding = TRUE]
  /\ result' = NoReplies
  /\ UNCHANGED state

InLoop(cmd) == job.cmd = cmd /\ job.todo # <<>>
Current     == Head(job.todo)
HasParam    == job.params # <<>>
TailOf(s)   == IF s = <<>> THEN <<>> ELSE Tail(s)

(* The end of a turn of the loop of JOIN, KICK or PRIVMSG.                 *)
NextTurn ==
  job' = IF Len(job.todo) = 1
           THEN NoJob
           ELSE [job EXCEPT !.todo = Tail(@), !.params = TailOf(@)]

(* The client a handler works for: getClientByFd(fd).  A message of a      *)
(* socket without a Client is dropped at the top of every handler.         *)
Self        == clientsByFd[job.fd]
Receives(f) == job = NoJob /\ clientsByFd[f] # NULL
Obj(f)      == client[clientsByFd[f]]

(* The gate of dispatch for every command but PASS, NICK, USER and CAP.    *)
MayUse(f) == Receives(f) /\ Obj(f).registered

FindNick(n) == IF n \in Nick THEN clientsByNick[n] ELSE NULL

-----------------------------------------------------------------------------
(* Connections.                                                            *)

(* ServerState::addNewClient.                                              *)
AddNewClient(f, a) ==
  /\ job = NoJob
  /\ clientsByFd[f] = NULL
  /\ client[a] = NULL
  /\ clientsByFd' = [clientsByFd EXCEPT ![f] = a]
  /\ client' = [client EXCEPT ![a] = NewClient(f)]
  /\ result' = NoReplies
  /\ UNCHANGED <<clientsByNick, channels, job>>

(* ServerState::removeChannelIfEmpty.                                      *)
BadRemoveIfEmpty(ch) == ch
RemoveIfEmpty(ch) == IF ch.members = {} THEN NULL ELSE ch

(* The nickname table without a departing client's entry.                  *)
BadForgetNick(c) == clientsByNick
ForgetNick(c) ==
  IF c.nickname = "" THEN clientsByNick
                     ELSE [clientsByNick EXCEPT ![c.nickname] = NULL]

(* The socket table without a departing client's entry.                    *)
BadForgetFd(f) == clientsByFd
ForgetFd(f) == [clientsByFd EXCEPT ![f] = NULL]

(* ServerState::removeClient, when the Server closes the connection.       *)
RemoveClient(f) ==
  /\ Receives(f)
  /\ channels' = [c \in Chan |->
       IF channels[c] = NULL THEN NULL
       ELSE RemoveIfEmpty(RemoveFromChannel(channels[c], clientsByFd[f]))]
  /\ clientsByNick' = ForgetNick(Obj(f))
  /\ clientsByFd' = ForgetFd(f)
  /\ client' = [client EXCEPT ![clientsByFd[f]] = NULL]
  /\ result' = NoReplies
  /\ UNCHANGED job

-----------------------------------------------------------------------------
(* Registration: PASS, NICK, USER.                                         *)

(* Store the updated client, register it if it is now complete, and welcome*)
(* it if that registered it.                                               *)
StoreAndTryRegister(f, c) ==
  /\ client' = [client EXCEPT ![clientsByFd[f]] = TryRegister(c)]
  /\ result' = IF CanRegister(c) THEN Only(f, "001") ELSE NoReplies
  /\ UNCHANGED <<clientsByFd, channels, job>>

PassReply(c, p) ==
  IF p = Missing THEN "461"
  ELSE IF c.registered THEN "462"
  ELSE IF p # ServerPassword THEN "464"
  ELSE Accepted

HandlePass(f, p) ==
  /\ Receives(f)
  /\ LET reply == PassReply(Obj(f), p)
     IN  \/ reply # Accepted /\ Refuse(f, reply)
         \/ /\ reply = Accepted
            /\ StoreAndTryRegister(f, AcceptPassword(Obj(f)))
            /\ UNCHANGED clientsByNick

(* The 433 of _handleNick and the failures of updateNickname: the name is  *)
(* in the table, and not as this client's current name.                    *)
BadNickTaken(a, n) == FALSE
NickTaken(a, n) ==
  /\ clientsByNick[n] # NULL
  /\ clientsByNick[n] # a \/ client[a].nickname # n

(* The table after updateNickname: unchanged for the current name.         *)
BadRenamed(a, n) == [clientsByNick EXCEPT ![n] = a]
Renamed(a, n) ==
  LET old == client[a].nickname
  IN  IF n = old THEN clientsByNick
      ELSE [m \in Nick |-> IF m = n THEN a
                           ELSE IF m = old THEN NULL ELSE clientsByNick[m]]

NickReply(a, p) ==
  IF p = Missing THEN "431"
  ELSE IF p \notin Nick THEN "432"
  ELSE IF NickTaken(a, p) THEN "433"
  ELSE Accepted

HandleNick(f, p) ==
  /\ Receives(f)
  /\ LET reply == NickReply(clientsByFd[f], p)
     IN  \/ reply # Accepted /\ Refuse(f, reply)
         \/ /\ reply = Accepted
            /\ clientsByNick' = Renamed(clientsByFd[f], p)
            /\ StoreAndTryRegister(f, SetNick(Obj(f), p))

UserReply(c, u) ==
  IF u = Missing THEN "461" ELSE IF c.registered THEN "462" ELSE Accepted

HandleUser(f, u) ==
  /\ Receives(f)
  /\ LET reply == UserReply(Obj(f), u)
     IN  \/ reply # Accepted /\ Refuse(f, reply)
         \/ /\ reply = Accepted
            /\ StoreAndTryRegister(f, SetUserName(Obj(f), u))
            /\ UNCHANGED clientsByNick

-----------------------------------------------------------------------------
(* Commands that only answer.                                              *)

(* dispatch refuses a gated command before registration.                   *)
NotRegistered(f) == Receives(f) /\ ~Obj(f).registered /\ Refuse(f, "451")

HandlePing(f)    == MayUse(f) /\ Refuse(f, "PONG")
HandleInvalid(f) == Receives(f) /\ Refuse(f, "421")

(* CAP answers LS and REQ, and ignores every other subcommand.             *)
HandleCap(f) ==
  /\ Receives(f)
  /\ result' \in {Only(f, "CAP"), NoReplies}
  /\ UNCHANGED <<state, job>>

-----------------------------------------------------------------------------
(* JOIN.                                                                   *)
HandleJoin(f, list, keys) ==
  /\ MayUse(f)
  /\ \/ list = Missing /\ Refuse(f, "461")
     \/ list # Missing /\ Start("JOIN", f, NULL, list, keys)

JoinKey == IF HasParam THEN Head(job.params) ELSE ""

(* The first policy of an existing channel that keeps client `a' out.      *)
BadBarred(ch, a, key) ==
  IF ch.inviteOnly /\ a \notin ch.invited THEN "473"
  ELSE IF Full(ch) THEN "471"
  ELSE Accepted
Barred(ch, a, key) ==
  IF ch.inviteOnly /\ a \notin ch.invited THEN "473"
  ELSE IF ch.channelProtected /\ key # ch.channelPass THEN "475"
  ELSE IF Full(ch) THEN "471"
  ELSE Accepted

(* addMember, and addOperator for the creator of a channel.                *)
BadAdmit(ch, a, isNew) ==
  LET in == AddMember(ch, a)
  IN  IF ch.operators = {} THEN AddOperator(in, a) ELSE in
Admit(ch, a, isNew) ==
  LET in == AddMember(ch, a) IN IF isNew THEN AddOperator(in, a) ELSE in

(* The replies of a successful join: all members hear of it, the newcomer  *)
(* is told the topic and the names.                                        *)
JoinReplies(ch) ==
  LET told == Broadcast(result, ch.members, "JOIN", NULL)
  IN  Add(Add(told, job.fd, IF ch.topic = "" THEN "331" ELSE "332"),
          job.fd, "353")

JoinStep ==
  /\ InLoop("JOIN")
  /\ LET c     == Current
         isNew == channels[c] = NULL
         old   == IF isNew THEN NewChannel ELSE channels[c]
         reply == IF isNew THEN Accepted ELSE Barred(old, Self, JoinKey)
         new   == Admit(old, Self, isNew)
     IN  \/ /\ c \notin Chan
            /\ result' = Add(result, job.fd, "403")
            /\ UNCHANGED channels
         \/ /\ c \in Chan /\ (Self \in old.members \/ (isNew /\ OutOfMemory))
            /\ UNCHANGED <<channels, result>>
         \/ /\ c \in Chan /\ Self \notin old.members /\ reply # Accepted
            /\ result' = Add(result, job.fd, reply)
            /\ UNCHANGED channels
         \/ /\ c \in Chan /\ Self \notin old.members /\ reply = Accepted
            /\ channels' = [channels EXCEPT ![c] = new]
            /\ result' = JoinReplies(new)
  /\ NextTurn
  /\ UNCHANGED <<clientsByFd, clientsByNick, client>>

-----------------------------------------------------------------------------
(* KICK.                                                                   *)
HandleKick(f, c, nicks) ==
  /\ MayUse(f)
  /\ \/ nicks = Missing /\ Refuse(f, "461")
     \/ nicks # Missing /\ channels[c] = NULL /\ Refuse(f, "403")
     \/ nicks # Missing /\ channels[c] # NULL /\ Start("KICK", f, c, nicks, <<>>)

(* Earlier turns may have kicked the operator, or emptied the channel: each*)
(* turn looks everything up again.                                         *)
BadKickReply(a, c, n) ==
  LET t == FindNick(n)
  IN  IF n = "" THEN "411"
      ELSE IF channels[c] = NULL THEN "403"
      ELSE IF t = NULL \/ client[a].nickname = "" THEN "401"
      ELSE IF t \notin channels[c].members THEN "441"
      ELSE Accepted
KickReply(a, c, n) ==
  LET t == FindNick(n)
  IN  IF n = "" THEN "411"
      ELSE IF channels[c] = NULL THEN "403"
      ELSE IF t = NULL \/ client[a].nickname = "" THEN "401"
      ELSE IF a \notin channels[c].members THEN "442"
      ELSE IF a \notin channels[c].operators THEN "482"
      ELSE IF t \notin channels[c].members THEN "441"
      ELSE Accepted

(* The members are told before the target leaves: it hears of its own kick.*)
KickStep ==
  /\ InLoop("KICK")
  /\ LET c     == job.chan
         t     == FindNick(Current)
         reply == KickReply(Self, c, Current)
     IN  \/ /\ reply # Accepted
            /\ result' = Add(result, job.fd, reply)
            /\ UNCHANGED channels
         \/ /\ reply = Accepted
            /\ result' = Broadcast(result, channels[c].members, "KICK", NULL)
            /\ channels' = [channels EXCEPT
                              ![c] = RemoveIfEmpty(RemoveFromChannel(@, t))]
  /\ NextTurn
  /\ UNCHANGED <<clientsByFd, clientsByNick, client>>

-----------------------------------------------------------------------------
(* INVITE.                                                                 *)
InviteReply(a, n, c) ==
  LET t == FindNick(n)
  IN  IF n = Missing THEN "461"
      ELSE IF channels[c] = NULL THEN "403"
      ELSE IF a \notin channels[c].members THEN "442"
      ELSE IF a \notin channels[c].operators THEN "482"
      ELSE IF t = NULL THEN "401"
      ELSE IF t \in channels[c].members THEN "443"
      ELSE Accepted

(* A second invitation of the same client is silent.                       *)
HandleInvite(f, n, c) ==
  /\ MayUse(f)
  /\ LET reply == InviteReply(clientsByFd[f], n, c)
         t     == FindNick(n)
     IN  \/ reply # Accepted /\ Refuse(f, reply)
         \/ /\ reply = Accepted /\ t \in channels[c].invited
            /\ result' = NoReplies
            /\ UNCHANGED <<state, job>>
         \/ /\ reply = Accepted /\ t \notin channels[c].invited
            /\ channels' = [channels EXCEPT ![c] = AddInvitedMember(@, t)]
            /\ result' = Add(Only(f, "341"), client[t].socketFd, "INVITE")
            /\ UNCHANGED <<clientsByFd, clientsByNick, client, job>>

-----------------------------------------------------------------------------
(* TOPIC, with a topic to set (possibly empty) or as a query.              *)
TopicReply(a, c, t) ==
  IF channels[c] = NULL THEN "403"
  ELSE IF a \notin channels[c].members THEN "442"
  ELSE IF t = Query THEN IF channels[c].topic = "" THEN "331" ELSE "332"
  ELSE IF channels[c].topicRestricted /\ a \notin channels[c].operators THEN "482"
  ELSE Accepted

HandleTopic(f, c, t) ==
  /\ MayUse(f)
  /\ LET reply == IF t = Missing THEN "461" ELSE TopicReply(clientsByFd[f], c, t)
     IN  \/ reply # Accepted /\ Refuse(f, reply)
         \/ /\ reply = Accepted
            /\ channels' = [channels EXCEPT ![c] = SetTopic(@, t)]
            /\ result' = Broadcast(NoReplies, channels[c].members, "TOPIC", NULL)
            /\ UNCHANGED <<clientsByFd, clientsByNick, client, job>>

-----------------------------------------------------------------------------
(* MODE.  The operator check is made once, before the mode string is walked*)
(* through.                                                                *)
BadModeReply(a, c, modes) ==
  IF modes = Missing THEN "461"
  ELSE IF channels[c] = NULL THEN "403"
  ELSE IF modes = Query THEN "324"
  ELSE IF a \notin channels[c].members THEN "442"
  ELSE Accepted
ModeReply(a, c, modes) ==
  IF modes = Missing THEN "461"
  ELSE IF channels[c] = NULL THEN "403"
  ELSE IF modes = Query THEN "324"
  ELSE IF a \notin channels[c].members THEN "442"
  ELSE IF a \notin channels[c].operators THEN "482"
  ELSE Accepted

HandleMode(f, c, modes, params) ==
  /\ MayUse(f)
  /\ LET reply == ModeReply(clientsByFd[f], c, modes)
     IN  \/ reply # Accepted /\ Refuse(f, reply)
         \/ reply = Accepted /\ Start("MODE", f, c, modes, params)

(* The end of a turn of the job as the turn leaves it, with or without     *)
(* having used up a parameter.                                             *)
ModeTurn(j, popped) ==
  job' = [j EXCEPT !.todo = Tail(@), !.params = IF popped THEN TailOf(@) ELSE @]

(* The announcement grows by a change: the sign, when it is not that of the*)
(* change before, the mode, and the parameter unless it is empty.          *)
BadAnnounced(p) ==
  [job EXCEPT !.finalModes = IF job.lastSign # "" THEN Append(@, Current)
                             ELSE <<IF job.adding THEN "+" ELSE "-", Current>>,
              !.finalParams = IF p = "" THEN @ ELSE Append(@, p),
              !.lastSign = IF job.adding THEN "+" ELSE "-"]
Announced(p) ==
  LET sign == IF job.adding THEN "+" ELSE "-"
  IN  [job EXCEPT !.finalModes = IF sign = job.lastSign THEN Append(@, Current)
                                 ELSE @ \o <<sign, Current>>,
                  !.finalParams = IF p = "" THEN @ ELSE Append(@, p),
                  !.lastSign = sign]

(* A turn that replaces the channel object, with parameter p ("" for none).*)
Change(ch, popped, p) ==
  /\ channels' = [channels EXCEPT ![job.chan] = ch]
  /\ ModeTurn(Announced(p), popped)
  /\ UNCHANGED <<clientsByFd, clientsByNick, client, result>>

(* A turn that changes nothing.                                            *)
BadIgnore(popped) == UNCHANGED vars
Ignore(popped) == ModeTurn(job, popped) /\ UNCHANGED <<state, result>>

(* A turn that complains to the caller.                                    *)
Complain(popped, r) ==
  /\ result' = Add(result, job.fd, r)
  /\ ModeTurn(job, popped)
  /\ UNCHANGED state

InMode(chars) == InLoop("MODE") /\ Current \in chars
ModeChannel   == channels[job.chan]

ModeSign ==
  /\ InMode({"+", "-"})
  /\ job' = [job EXCEPT !.todo = Tail(@), !.adding = (Current = "+")]
  /\ UNCHANGED <<state, result>>

(* i and t: nothing happens, and nothing is announced, unless they flip.   *)
ModeFlag ==
  /\ InMode({"i", "t"})
  /\ LET new == SetFlag(ModeChannel, Current, job.adding)
     IN  \/ new # ModeChannel /\ Change(new, FALSE, "")
         \/ new = ModeChannel /\ Ignore(FALSE)

(* +k needs a parameter, whatever it is; -k discards one if there is one.  *)
ModeKey ==
  /\ InMode({"k"})
  /\ \/ job.adding /\ HasParam
        /\ Change(SetProtected(ModeChannel, Head(job.params)), TRUE, Head(job.params))
     \/ job.adding /\ ~HasParam /\ Ignore(FALSE)
     \/ ~job.adding /\ ModeChannel.channelProtected
        /\ Change(UnsetProtected(ModeChannel), TRUE, "")
     \/ ~job.adding /\ ~ModeChannel.channelProtected /\ Ignore(FALSE)

BadValidLimit(n) == n # 0
ValidLimit(n) == n > 0

ModeLimit ==
  /\ InMode({"l"})
  /\ \/ job.adding /\ HasParam /\ ValidLimit(Atoi[Head(job.params)])
        /\ Change(SetLimit(ModeChannel, Atoi[Head(job.params)]), TRUE,
                  Head(job.params))
     \/ job.adding /\ HasParam /\ ~ValidLimit(Atoi[Head(job.params)])
        /\ Ignore(TRUE)
     \/ job.adding /\ ~HasParam /\ Ignore(FALSE)
     \/ ~job.adding /\ ModeChannel.memberLimited
        /\ Change(UnsetLimit(ModeChannel), FALSE, "")
     \/ ~job.adding /\ ~ModeChannel.memberLimited /\ Ignore(FALSE)

(* o: the parameter is used up even when it names nobody.                  *)
SetRank(ch, a, on) == IF on THEN AddOperator(ch, a) ELSE RemoveOperator(ch, a)

BadRankable(ch, t) == t # NULL
Rankable(ch, t) == t # NULL /\ t \in ch.members

ModeOperator ==
  /\ InMode({"o"})
  /\ LET t   == FindNick(Head(job.params))
         new == SetRank(ModeChannel, t, job.adding)
     IN  \/ ~HasParam /\ Ignore(FALSE)
         \/ HasParam /\ t = NULL /\ Complain(TRUE, "401")
         \/ HasParam /\ t # NULL /\ ~Rankable(ModeChannel, t)
            /\ Complain(TRUE, "441")
         \/ HasParam /\ Rankable(ModeChannel, t) /\ new # ModeChannel
            /\ Change(new, TRUE, Head(job.params))
         \/ HasParam /\ Rankable(ModeChannel, t) /\ new = ModeChannel
            /\ Ignore(TRUE)

ModeUnknown ==
  /\ InMode({"b"})
  /\ Complain(FALSE, "472")

(* After the loop: announce the changes, if any.                           *)
ModeEnd ==
  /\ job.cmd = "MODE" /\ job.todo = <<>>
  /\ result' = IF job.finalModes # <<>>
                 THEN Broadcast(result, ModeChannel.members, "MODE", NULL)
                 ELSE result
  /\ job' = NoJob
  /\ UNCHANGED state

-----------------------------------------------------------------------------
(* PRIVMSG.                                                                *)
HandlePrivMsg(f, targets, hasText) ==
  /\ MayUse(f)
  /\ \/ targets = Missing /\ Refuse(f, "411")
     \/ targets # Missing /\ ~hasText /\ Refuse(f, "412")
     \/ targets # Missing /\ hasText /\ Start("PRIVMSG", f, NULL, targets, <<>>)

MsgReply(a, t) ==
  IF t = "" THEN "411"
  ELSE IF t \in Chan
    THEN IF channels[t] = NULL THEN "403"
         ELSE IF a \notin channels[t].members THEN "404" ELSE Accepted
    ELSE IF FindNick(t) = NULL THEN "401" ELSE Accepted

PrivMsgStep ==
  /\ InLoop("PRIVMSG")
  /\ LET t     == Current
         reply == MsgReply(Self, t)
     IN  result' =
           IF reply # Accepted THEN Add(result, job.fd, reply)
           ELSE IF t \in Chan
             THEN Broadcast(result, channels[t].members, "PRIVMSG", Self)
             ELSE Add(result, client[FindNick(t)].socketFd, "PRIVMSG")
  /\ NextTurn
  /\ UNCHANGED state

-----------------------------------------------------------------------------
Init ==
  /\ clientsByFd = [f \in Fd |-> NULL]
  /\ clientsByNick = [n \in Nick |-> NULL]
  /\ client = [a \in Addr |-> NULL]
  /\ channels = [c \in Chan |-> NULL]
  /\ job = NoJob
  /\ result = NoReplies

(* dispatch, for a message of the connection f.                            *)
Dispatch(f) ==
  \/ \E p \in Param \cup {Missing} : HandlePass(f, p)
  \/ \E p \in Param \cup {Missing} : HandleNick(f, p)
  \/ \E u \in UserName \cup {Missing} : HandleUser(f, u)
  \/ NotRegistered(f)
  \/ HandlePing(f)
  \/ HandleInvalid(f)
  \/ HandleCap(f)
  \/ \E list \in JoinLists \cup {Missing}, keys \in KeyLists :
       HandleJoin(f, list, keys)
  \/ \E c \in Chan, nicks \in KickLists \cup {Missing} : HandleKick(f, c, nicks)
  \/ \E n \in Nick \cup {Missing}, c \in Chan : HandleInvite(f, n, c)
  \/ \E c \in Chan, t \in Topic \cup {"", Query, Missing} : HandleTopic(f, c, t)
  \/ \E c \in Chan, modes \in ModeStrings \cup {Query, Missing},
        params \in ModeParams : HandleMode(f, c, modes, params)
  \/ \E targets \in MsgLists \cup {Missing}, hasText \in BOOLEAN :
       HandlePrivMsg(f, targets, hasText)

(* A new command, or a connection made or lost.                            *)
Command(f) ==
  \/ \E a \in Addr : AddNewClient(f, a)
  \/ RemoveClient(f)
  \/ Dispatch(f)

(* The next turn of the loop in progress.                                  *)
Turn ==
  \/ JoinStep \/ KickStep \/ PrivMsgStep
  \/ ModeSign \/ ModeFlag \/ ModeKey \/ ModeLimit \/ ModeOperator
  \/ ModeUnknown \/ ModeEnd

Next == (\E f \in Fd : Command(f)) \/ Turn

Spec == Init /\ [][Next]_vars
=============================================================================
