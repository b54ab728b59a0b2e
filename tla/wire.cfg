SPECIFICATION Spec
CONSTANTS
  MaxParams = 3
  MaxChunks = 6
  Chunks <- SmallChunks
CHECK_DEADLOCK FALSE
INVARIANTS
  AsIfWhole
  Reparses
  NothingLost
  RelayFaithful
  KeyAnnounced
  NumericsAddressed
