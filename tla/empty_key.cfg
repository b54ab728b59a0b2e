SPECIFICATION Spec
CONSTANTS
  f1 = f1  f2 = f2  f3 = f3
  a1 = a1  a2 = a2  a3 = a3
  n1 = n1  n2 = n2  n3 = n3
  c1 = c1  c2 = c2
  Fd <- PairFd
  Addr <- PairHeap
  Nick <- Two
  NULL = NULL
  Missing = Missing
  Query = Query
  MaxInt = 2147483647
  OutOfMemory = FALSE
  Chan <- OneChannel
  Word <- ModeWords
  UserName = {"u"}
  Topic = {}
  ServerPassword = "pw"
  Atoi <- AtoiTable
  JoinLists <- ModeJoins
  KeyLists <- ModeKeys
  KickLists = {}
  MsgLists = {}
  ModeStrings <- EmptyKeyLines
  ModeParams <- EmptyKeyArguments
SYMMETRY Symmetric
PROPERTIES
  ProtectedNeedsKey
