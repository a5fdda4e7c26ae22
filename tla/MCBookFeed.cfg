CONSTANTS
  Tokens = {a, b}
  Catalogs = {{a}, {a, b}}
  kHubMaxTokens = 2
  MaxRediscoveries = 2
  MaxQueue = 5
SPECIFICATION FairSpec
PROPERTIES
  EventuallySubscribed
  EventuallyFed
CHECK_DEADLOCK FALSE

