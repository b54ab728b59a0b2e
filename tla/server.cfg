SPECIFICATION FairServer
CONSTANTS
  f1 = f1  f2 = f2
  a1 = a1  a2 = a2
  n1 = n1  n2 = n2
  c1 = c1
  Fd <- TwoSockets
  Addr <- TwoClients
  Nick <- TwoNames
  NULL = NULL
  Missing = Missing
  Query = Query
  MaxInt = 2147483647
  OutOfMemory = TRUE
  Chan <- OneChannel
  Word <- ServerWords
  UserName = {"u"}
  Topic = {"t"}
  ServerPassword = "pw"
  Atoi <- AtoiTable
  JoinLists <- ServerJoins
  KeyLists <- ServerKeys
  KickLists <- ServerKicks
  MsgLists <- ServerMsgs
  ModeStrings <- ServerModes
  ModeParams <- ServerParams
  NoBuffer = NoBuffer
  MaxQueue = 2
PROPERTIES
  ServesConnections
  EveryHandlerReturns
