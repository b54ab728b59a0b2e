SPECIFICATION Spec
CONSTANTS
  f1 = f1  f2 = f2  f3 = f3
  Fd <- TwoSockets
  Listener = listener
  NoBuffer = NoBuffer
  Closed = Closed
  MaxInbox = 2
  MaxQueue = 2
  MaxBacklog = 1
  Spurious = TRUE
  OutOfMemory = TRUE
SYMMETRY Symmetric
CHECK_DEADLOCK FALSE
INVARIANTS
  TypeOK
  SocketsAgree
  PollOutExact
  NoBlindCall
PROPERTIES
  ImplementsConnections
