CONSTANTS
  NoOrder = none
  Orders = {b1, s1}
  Sells = {s1}
  TradesPerOrder = 1
  TradesMayFail = TRUE
  MaxPushes = 3
  MaxRestarts = 1
  ChannelMayDie = TRUE
  kMaxQueue = 2
  kSeenCap = 1
  kOrderIdMemoryCap = 1
SPECIFICATION FairSpec
INVARIANTS
  NoTradeLost
  BookedAtMostOnce
PROPERTIES
  EventuallyBooked
  ImplementsChainBook
CHECK_DEADLOCK TRUE
