CONSTANTS
  t1 = t1
  t2 = t2
  m1 = m1
  e1 = e1
  Conditions <- MCConditions
  Events = {e1}
  NoEvent = none
  EventOf <- MCEventOf
  bankroll_usdc = 100
  Tokens <- MCTwoTokens
  ConditionOf <- MCOneMarket
  Sizes = {1, 2}
  per_order_cap_usdc = 2
  per_outcome_cap_usdc = 2
  market_exposure_cap_usdc = 3
  event_exposure_cap_usdc = 4
  kLiveTokenSerializeNs = 1
  kLivePendingConfirmCooldownNs = 3
  kHardRejectCooldownNs = 4
  kStormWindowNs = 2
  kStormMaxLiveOrders = 1
  MaxTime = 6
  MaxOrders = 3
SPECIFICATION Spec
SYMMETRY MCTwoSymmetric
INVARIANTS
  UnbookedApart
  TokenCapOnChain
  StormBounded
CHECK_DEADLOCK TRUE
