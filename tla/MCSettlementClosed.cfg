CONSTANTS
  Cond = {c1}
  Winners = {"Yes"}
  Scores = {"tie"}
  MaxOpened = 2
  MaxRestarts = 1
SPECIFICATION FairSpec
PROPERTIES
  EventuallySettled
CHECK_DEADLOCK FALSE
