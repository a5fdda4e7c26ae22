CONSTANTS
  kOne = 20
  Books <- MCBooks
  Fairs = {1, 15}
  Kellys = {0, 24}
  Goals = {FALSE}
  Turned = {"Yes", "No"}
  Drawdowns = {1, 2}
  RestoredCost = 10
  RestoredPrice = 2
  FillRates = {2}
  margin = 1
  min_rebalance_floor_pusd = 2
  kClobMinNotionalUsd = 2
  kClobMinShares = 10
  per_order_cap_usdc = 12
  must_win_lock_usdc = 18
  min_open_fair = 14
  kMaxOpenAsk = 16
  loss_cut_fair_band = 1
  force_cross_fair_delta = 1
  kGameDecidedMaxPx = 4
  MaxTrades = 2
SPECIFICATION Spec
PROPERTIES
  NeverSwitches
  RideToSettlement
  NoChurn
CHECK_DEADLOCK TRUE
