SPECIFICATION ViewSpec
CONSTANTS
  f1 = f1  f2 = f2  f3 = f3
  a1 = a1  a2 = a2  a3 = a3
  n1 = n1  n2 = n2  n3 = n3
  c1 = c1  c2 = c2
  Fd <- PairFd
  Addr <- PairHeap
  Nick <- Two
  NULL = NULL
  Missing = Missing
  Query = Query
  MaxInt = 2147483647
  OutOfMemory = TRUE
  Chan <- TwoChannels
  Word <- ListWords
  UserName = {"u"}
  Topic = {}
  ServerPassword = "pw"
  Atoi <- AtoiTable
  JoinLists <- ListJoins
  KeyLists <- ListKeys
  KickLists <- ListKicks
  MsgLists <- ListMsgs
  ModeStrings <- ListModes
  ModeParams <- ListArguments
SYMMETRY Symmetric
INVARIANTS
  ViewsComplete
PROPERTIES
  OnlyLossesUnheard
  MembershipAnnounced
  ImplementsChat
