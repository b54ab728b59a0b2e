SPECIFICATION Spec
CONSTANTS
  f1 = f1  f2 = f2  f3 = f3
  Fd <- TwoSockets
  Listener = listener
  NoBuffer = NoBuffer
  Closed = Closed
  MaxInbox = 1
  MaxQueue = 1
  MaxBacklog = 1
  Spurious = TRUE
  OutOfMemory = FALSE
SYMMETRY Symmetric
CHECK_DEADLOCK FALSE
INVARIANTS
  NeverKilled
