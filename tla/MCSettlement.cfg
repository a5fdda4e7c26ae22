CONSTANTS
  Cond = {c1}
  Winners = {"Yes"}
  Scores = {"tie"}
  MaxOpened = 2
  MaxRestarts = 1
SPECIFICATION FairSpec
INVARIANTS
  PaidByExchange
PROPERTIES
  EventuallySettledUnlessClosed
CHECK_DEADLOCK FALSE
