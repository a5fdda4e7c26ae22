CONSTANTS
  Io = io
  Pollers = {poll}
  Loop = loop
  x = x
  y = y
  SigOf <- MCSigOf
  NoBook = none
SPECIFICATION FairSpec
INVARIANTS
  NoChangeMissedAlone
  WholeUnlessLapped
PROPERTIES
  CatchesUp
  ShutdownEnds
CHECK_DEADLOCK FALSE
