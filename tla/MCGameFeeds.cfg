SPECIFICATION FairSpec
CONSTANTS
  Sports = {"soccer", "tennis"}
  Sources = {"tennis_scores"}
  GamesOf <- MCGamesOf
  PairOf <- MCPairOf
  Framings = {"length", "chunked", "close"}
  MayTruncate = FALSE
  MaxFrames = 2
  LeagueEvents = {"e1", "e2"}
  Market <- MCMarket
  LowLeagues = {}
  kSharpGrace = 2
  kBlacklistTtl = 2
  kBlacklistCap = 0
  MaxFlips = 3
  Offered <- MCOffered
  Openings <- MCOpenings
  Received = 10
  TickSec = 360
  MaxMarketsShown = 2
  MaxFrameMoves = 4
INVARIANTS
  RowsAreTrue
PROPERTIES
  ScoresFlow
  SubscriptionsFollow
CHECK_DEADLOCK FALSE
