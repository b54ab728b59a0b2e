-------------------------- MODULE IRCWelcomeProofs --------------------------
(***************************************************************************)
(* Proof that the welcome goes out once per registration.  A handler       *)
(* collects its replies over many steps, so the property needs an invariant*)
(* on what has been collected: no welcome.                                 *)
(***************************************************************************)
EXTENDS IRCCoreProofs

Unwelcoming == [Fd -> Seq(Others)]

WelcomeInv == Base /\ (job # NoJob => result \in Unwelcoming)

(* The client of the socket becomes registered in this step.               *)
Registers(f) ==
  /\ clientsByFd[f] # NULL /\ clientsByFd'[f] = clientsByFd[f]
  /\ ~client[clientsByFd[f]].registered
  /\ client'[clientsByFd[f]].registered
WelcomesExactly == \A f \in Fd : Hears(f, "001") <=> Registers(f)

(* Nobody is welcomed by replies of the other kinds.                       *)
LEMMA NoWelcome ==
  ASSUME result' \in Unwelcoming, \A f \in Fd : ~Registers(f)
  PROVE  WelcomesExactly
  <1> SUFFICES ASSUME NEW f \in Fd PROVE ~Hears(f, "001")
    BY DEF WelcomesExactly
  <1>1. result'[f] \in Seq(Others)
    BY DEF Unwelcoming
  <1>2. \A i \in DOMAIN result'[f] : result'[f][i] \in Others
    BY <1>1
  <1> QED
    BY <1>2 DEF Hears, Others

(* Nobody registers when a client comes or goes, or in a step that leaves  *)
(* the clients alone.                                                      *)
LEMMA NobodyRegisters ==
  ASSUME Base, NEW f \in Fd,
         \/ \E a \in Addr : AddNewClient(f, a)
         \/ RemoveClient(f)
         \/ client' = client
  PROVE  \A g \in Fd : ~Registers(g)
  <1> SUFFICES ASSUME NEW g \in Fd, Registers(g) PROVE FALSE
    OBVIOUS
  <1>1. /\ clientsByFd[g] \in Addr /\ clientsByFd'[g] = clientsByFd[g]
        /\ client[clientsByFd[g]] # NULL /\ client \in [Addr -> ClientObject \cup {NULL}]
        /\ client'[clientsByFd[g]] # client[clientsByFd[g]]
        /\ clientsByFd \in [Fd -> Addr \cup {NULL}] /\ clientsByFd[g] # NULL
    BY ReceiverLive DEF Registers, Base, TypeOK, Live
  <1>2. ASSUME NEW a \in Addr, AddNewClient(f, a) PROVE FALSE
    BY <1>1, <1>2 DEF AddNewClient
  <1>3. CASE RemoveClient(f)
    <2>1. clientsByFd[g] = clientsByFd[f]
      BY <1>1, <1>3 DEF RemoveClient
    <2>2. g = f
      BY <1>1, <2>1, ReceiverLive DEF Base, Obj
    <2> QED
      BY <1>1, <1>3, <2>2 DEF RemoveClient, ForgetFd
  <1> QED
    BY <1>1, <1>2, <1>3

(* PASS, NICK and USER welcome the client they register.                   *)
LEMMA StoreWelcomes ==
  ASSUME Base, NEW f \in Fd, Receives(f), NEW c \in ClientObject,
         c.registered = Obj(f).registered, StoreAndTryRegister(f, c)
  PROVE  WelcomesExactly
  <1>1. /\ clientsByFd' = clientsByFd /\ clientsByFd[f] \in Addr
        /\ client \in [Addr -> ClientObject \cup {NULL}]
        /\ client' = [client EXCEPT ![clientsByFd[f]] = TryRegister(c)]
    BY ReceiverLive DEF Base, TypeOK, Receives, StoreAndTryRegister
  <1>2. TryRegister(c).registered = (c.registered \/ Complete(c))
    BY TryRegisterType
  <1>3. Registers(f) <=> CanRegister(c)
    BY <1>1, <1>2 DEF Registers, Receives, CanRegister, Obj
  <1>4. ASSUME NEW g \in Fd, g # f PROVE ~Registers(g)
    <2>1. clientsByFd[g] # NULL => clientsByFd[g] # clientsByFd[f]
      BY <1>4, ReceiverLive DEF Base, Obj
    <2> QED
      BY <1>1, <2>1 DEF Registers
  <1>5. CASE CanRegister(c)
    <2>1. result' = Only(f, "001")
      BY <1>5 DEF StoreAndTryRegister
    <2>2. \A g \in Fd : result'[g] = IF g = f THEN <<"001">> ELSE <<>>
      BY <2>1 DEF Only, Add, NoReplies
    <2>3. \A g \in Fd : Hears(g, "001") <=> g = f
      BY <2>2 DEF Hears
    <2> QED
      BY <1>3, <1>4, <1>5, <2>3 DEF WelcomesExactly
  <1>6. CASE ~CanRegister(c)
    <2>1. result' = NoReplies
      BY <1>6 DEF StoreAndTryRegister
    <2>2. \A g \in Fd : ~Hears(g, "001")
      BY <2>1 DEF NoReplies, Hears
    <2> QED
      BY <1>3, <1>4, <1>6, <2>2 DEF WelcomesExactly
  <1> QED
    BY <1>5, <1>6

LEMMA RegistrationWelcomes ==
  ASSUME Base, NEW f \in Fd, Receives(f),
         \/ \E p \in Param \cup {Missing} : HandlePass(f, p) \/ HandleNick(f, p)
         \/ \E u \in UserName \cup {Missing} : HandleUser(f, u)
  PROVE  WelcomesExactly /\ job' = NoJob
  <1>1. Obj(f) \in ClientObject
    BY ReceiverLive DEF Receives, Base
  <1>2. ASSUME NEW r \in Others \cup {Accepted}, r # Accepted, Refuse(f, r)
        PROVE  WelcomesExactly /\ job' = NoJob
    <2>1. client' = client /\ job' = NoJob /\ result' = Only(f, r)
      BY <1>2 DEF Refuse, state, Receives
    <2>2. NoReplies \in Unwelcoming
      BY DEF NoReplies, Unwelcoming
    <2>3. result' \in Unwelcoming
      BY <1>2, <2>1, <2>2, RepliesType DEF Unwelcoming
    <2> QED
      BY <2>1, <2>3, NoWelcome, NobodyRegisters
  <1>3. ASSUME NEW c \in ClientObject, c.registered = Obj(f).registered,
               StoreAndTryRegister(f, c)
        PROVE  WelcomesExactly /\ job' = NoJob
    <2>1. job' = NoJob
      BY <1>3 DEF StoreAndTryRegister, Receives
    <2> QED
      BY <1>3, <2>1, StoreWelcomes
  <1>4. ASSUME NEW p, HandlePass(f, p) PROVE WelcomesExactly /\ job' = NoJob
    <2>1. PassReply(Obj(f), p) \in Others \cup {Accepted}
      BY DEF PassReply, Others, Reply
    <2>2. AcceptPassword(Obj(f)) \in ClientObject
          /\ AcceptPassword(Obj(f)).registered = Obj(f).registered
      BY <1>1 DEF AcceptPassword, ClientObject
    <2> QED
      BY <1>2, <1>3, <1>4, <2>1, <2>2 DEF HandlePass
  <1>5. ASSUME NEW p, HandleNick(f, p) PROVE WelcomesExactly /\ job' = NoJob
    <2>1. NickReply(clientsByFd[f], p) \in Others \cup {Accepted}
      BY DEF NickReply, Others, Reply
    <2>2. CASE p \in Nick
      <3>1. SetNick(Obj(f), p) \in ClientObject
            /\ SetNick(Obj(f), p).registered = Obj(f).registered
        BY <1>1, <2>2 DEF SetNick, ClientObject
      <3> QED
        BY <1>2, <1>3, <1>5, <2>1, <3>1 DEF HandleNick
    <2>3. CASE p \notin Nick
      <3>1. NickReply(clientsByFd[f], p) # Accepted
        BY <2>3 DEF NickReply, Accepted
      <3> QED
        BY <1>2, <1>5, <2>1, <3>1 DEF HandleNick
    <2> QED
      BY <2>2, <2>3
  <1>6. ASSUME NEW u \in UserName \cup {Missing}, HandleUser(f, u)
        PROVE  WelcomesExactly /\ job' = NoJob
    <2>1. UserReply(Obj(f), u) \in Others \cup {Accepted}
      BY DEF UserReply, Others, Reply
    <2>2. CASE u \in UserName
      <3>1. SetUserName(Obj(f), u) \in ClientObject
            /\ SetUserName(Obj(f), u).registered = Obj(f).registered
        BY <1>1, <2>2 DEF SetUserName, ClientObject
      <3> QED
        BY <1>2, <1>3, <1>6, <2>1, <3>1 DEF HandleUser
    <2>3. CASE u = Missing
      <3>1. UserReply(Obj(f), u) # Accepted
        BY <2>3 DEF UserReply, Accepted
      <3> QED
        BY <1>2, <1>6, <2>1, <3>1 DEF HandleUser
    <2> QED
      BY <1>6, <2>2, <2>3
  <1> QED
    BY <1>4, <1>5, <1>6

-----------------------------------------------------------------------------
LEMMA WelcomeStep ==
  ASSUME WelcomeInv, Base', Next
  PROVE  WelcomeInv' /\ WelcomesExactly
  <1>1. Base
    BY DEF WelcomeInv
  <1>2. ASSUME result' \in Unwelcoming, NEW f \in Fd,
               \/ \E a \in Addr : AddNewClient(f, a)
               \/ RemoveClient(f)
               \/ client' = client
        PROVE  WelcomeInv' /\ WelcomesExactly
    BY <1>1, <1>2, NobodyRegisters, NoWelcome DEF WelcomeInv, Unwelcoming
  <1>3. NoReplies \in Unwelcoming
    BY DEF NoReplies, Unwelcoming
  <1>4. ASSUME NEW f \in Fd, (\E a \in Addr : AddNewClient(f, a)) \/ RemoveClient(f)
        PROVE  WelcomeInv' /\ WelcomesExactly
    <2>1. result' = NoReplies
      BY <1>4 DEF AddNewClient, RemoveClient
    <2> QED
      BY <1>2, <1>3, <1>4, <2>1
  <1>5. ASSUME NEW f \in Fd,
               \/ \E p \in Param \cup {Missing} : HandlePass(f, p) \/ HandleNick(f, p)
               \/ \E u \in UserName \cup {Missing} : HandleUser(f, u)
        PROVE  WelcomeInv' /\ WelcomesExactly
    <2>1. Receives(f)
      BY <1>5 DEF HandlePass, HandleNick, HandleUser
    <2> QED
      BY <1>1, <1>5, <2>1, RegistrationWelcomes DEF WelcomeInv
  <1>6. ASSUME NEW f \in Fd, Request(f) PROVE WelcomeInv' /\ WelcomesExactly
    <2>1. result' \in Unwelcoming
      BY <1>6, RequestResult DEF Unwelcoming
    <2>2. client' = client
      BY <1>6, RequestKeepsTables DEF tables
    <2> QED
      BY <1>2, <2>1, <2>2
  <1>7. CASE Turn
    <2>1. job # NoJob
      BY <1>7, NoJobFacts DEF Turn, JoinStep, KickStep, PrivMsgStep, ModeSign, ModeFlag,
                              ModeKey, ModeLimit, ModeOperator, ModeUnknown, ModeEnd,
                              InMode, InLoop
    <2>2. result' \in Unwelcoming
      BY <1>7, <2>1, TurnAdds DEF WelcomeInv, Unwelcoming
    <2>3. client' = client
      BY <1>7, TurnKeepsTables DEF tables
    <2>4. job.fd \in Fd
      BY <1>1, <2>1, SelfLive
    <2> QED
      BY <1>2, <2>2, <2>3, <2>4
  <1> QED
    BY <1>4, <1>5, <1>6, <1>7 DEF Next, Command, Dispatch, Request

LEMMA WelcomeStart == Init => WelcomeInv
  BY BaseInit DEF Init, WelcomeInv

LEMMA WelcomeStutters == WelcomeInv /\ UNCHANGED vars => WelcomeInv'
  BY BaseStutters DEF WelcomeInv, vars, Unwelcoming

(* The four lines of the welcome are sent in the step that completes the   *)
(* registration of a client and in no other, to that client and nobody     *)
(* else, in whichever order PASS, NICK and USER come and however often each*)
(* is repeated (tryRegister and the three handlers).                       *)
THEOREM WelcomeExact == Spec => WelcomedOnce
  <1>1. WelcomeInv /\ [Next]_vars => WelcomeInv' /\ [WelcomesExactly]_vars
    <2>1. WelcomeInv /\ Next => WelcomeInv' /\ WelcomesExactly
      BY WelcomeStep, BaseNext DEF WelcomeInv
    <2> QED
      BY <2>1, WelcomeStutters
  <1>2. [WelcomesExactly]_vars =>
          [\A f \in Fd : Hears(f, "001") <=>
             /\ clientsByFd[f] # NULL /\ clientsByFd'[f] = clientsByFd[f]
             /\ ~client[clientsByFd[f]].registered
             /\ client'[clientsByFd[f]].registered]_vars
    BY DEF WelcomesExactly, Registers
  <1> QED
    BY <1>1, <1>2, WelcomeStart, PTL DEF Spec, WelcomedOnce
=============================================================================
