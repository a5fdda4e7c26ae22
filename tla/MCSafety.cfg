SPECIFICATION SafetySpec
INVARIANTS
  MoneyHolds
  NoStarvation
  ProcessHolds
  ReadsHold
  NewMoneyHolds
  RightGames
  LogsHold
CONSTANTS
  AccountTokens = {"a"}
  Dollar = 4
  AccountPrices = {1, 3}
  Fee = 1
  Decisions = {"won", "lost"}
  Deposit = 10
  T1 = 10
  T2 = 20
  DrawdownHalt = 40
  Band = 5
  MaxBuysPerTick = 2
  MaxAccountTrades = 2
  MaxAccountRestarts = 1
  GatewayConditions <- MCConditions
  TokenIds = {"y1", "n1", "y2"}
  ConditionOf <- MCTokens
  Events = {"e"}
  NoEvent = "none"
  ParentRef <- MCParentRef
  Prices = {1, 3}
  Lots = {1, 2}
  Amounts = {3}
  Pnls = {0}
  GatewayBankroll = 10
  per_order_cap_usdc = 3
  market_exposure_cap_usdc = 4
  per_outcome_cap_usdc = 3
  event_exposure_cap_usdc = 5
  daily_loss_halt_usdc = 3
  MaxOrders = 2
  MaxUpsets = 1
  Emitters = {"t1", "t2"}
  Origins = {"Risk", "Signer"}
  kGlobalSnapCap = 2
  MaxRecords = 3
  PollPlans <- MCPlans
  Base <- MCBase
  Fav = {0, 95}
  MaxPlans = 2
  Procs = {"p1", "p2", "p3"}
  kRetries = 2
  MaxFiles = 3
  Configs <- MCConfigs
  Watched <- MCWatched
  Keys = {"a", "b"}
  MaxKeys = 1
  RingCap = 2
  MaxPublishes = 3
  MaxRejects = 3
  Feeds <- MCFeeds
  BooksShown <- MCShown
  Markets <- MCMarkets
  Desks <- MCDesks
  OddsAge = 1
  ScoreAge = 2
  StableWindow = 2
  VelWindow = 2
  Throttle = 2
  HeartbeatNs = 2
  kCapacity = 4
  MinEdge = 15
  MaxGap = 150
  MinOpenFair = 700
  MinLiquidity = 30
  Relax = FALSE
  PerOrder = 50
  PerOutcome = 100
  PerCondition = 120
  EventCap = 1000
  Bankroll = 1000
  MustWin = 50
  FeeCoef = 30
  NEff = 100
  MaxTime = 3
  MaxMoves = 2
CHECK_DEADLOCK FALSE
