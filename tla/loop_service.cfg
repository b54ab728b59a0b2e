SPECIFICATION ReadingSpec
CONSTANTS
  f1 = f1  f2 = f2  f3 = f3
  Fd <- TwoSockets
  Listener = listener
  NoBuffer = NoBuffer
  Closed = Closed
  MaxInbox = 1
  MaxQueue = 1
  MaxBacklog = 1
  Spurious = FALSE
  OutOfMemory = TRUE
CHECK_DEADLOCK FALSE
PROPERTIES
  HealthyKept
  DeadPeersGo
  InputRead
  RepliesServed
  StopsAtNextEvent
