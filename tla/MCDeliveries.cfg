\* Skews: a frame on either side of the guard against the future.  The live
\* booking has a channel that may die, trades that may fail, one restart, and
\* every memory of the feed at its smallest.
SPECIFICATION DeliveriesFairSpec
INVARIANTS
  NothingVanishes
PROPERTIES
  FramesArrive
  RecordsArrive
CONSTANTS
  MaxMessages = 2
  MaxConnects = 2
  Tokens = {a}
  Initial = {a}
  Conditions = {c}
  Skews = {3, 9}
  kFutureGuard = 5
  QueueCap = 1
  AdapterCap = 1
  MaxNo = 4
  MaxBreaks = 1
  WriterQueue = 2
  kFillsRingCap = 2
  MaxFills = 3
  MaxSaves = 1
  MaxCrashes = 1
  MaxErrors = 1
  NoOrder = none
  Orders = {b1}
  Sells = {}
  TradesPerOrder = 2
  TradesMayFail = TRUE
  MaxPushes = 2
  MaxRestarts = 1
  ChannelMayDie = TRUE
  kMaxQueue = 1
  kSeenCap = 1
  kOrderIdMemoryCap = 1
CHECK_DEADLOCK FALSE
