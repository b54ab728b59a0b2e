SPECIFICATION Spec
CONSTANTS
  f1 = f1  f2 = f2  f3 = f3
  a1 = a1  a2 = a2  a3 = a3
  n1 = n1  n2 = n2  n3 = n3
  c1 = c1  c2 = c2
  Fd <- Sockets
  Addr <- Heap
  Nick <- Three
  NULL = NULL
  Missing = Missing
  Query = Query
  MaxInt = 2147483647
  OutOfMemory = FALSE
  Chan <- OneChannel
  Word <- MembershipWords
  UserName = {"u"}
  Topic = {}
  ServerPassword = "pw"
  Atoi <- AtoiTable
  JoinLists <- MembershipJoins
  KeyLists <- NoKeys
  KickLists <- MembershipKicks
  MsgLists <- MembershipMsgs
  ModeStrings <- MembershipModes
  ModeParams <- MembershipParams
SYMMETRY Symmetric
INVARIANTS
  FdTableExact
  NickTableExact
  RegistrationExact
  NoDanglingClient
  RanksConsistent
  NoEmptyChannel
PROPERTIES
  WelcomedOnce
  NickNotStolen
  KickRevokesInvitation
  NoRankFromNowhere
  LimitRespected
  ImplementsChat
