CONSTANTS
  m1 = m1
  m2 = m2
  t1 = t1
  Conditions <- MCConditions
  Tokens = {t1}
  ConditionOf <- MCConditionOf
  Events = {e1, e2}
  NoEvent = none
  Signals = {g1, g2}
  Sizes = {1, 2}
  Exposures <- MCExposures
  Pnls <- MCPnls
  Bankrolls = {60, 100}
  OperatorStates = {"RUNNING"}
  Faults = {"invalid", "market"}
  per_order_cap_usdc = 2
  market_exposure_cap_usdc = 3
  per_outcome_cap_usdc = 2
  event_exposure_cap_usdc = 4
  daily_loss_halt_usdc = 0
  daily_loss_soft_pct = 3
  daily_loss_hard_pct = 5
SPECIFICATION Spec
INVARIANTS
  EventGrossIsSum
  ApprovedOnce
PROPERTIES
  ApprovedWithinCaps
  ApprovedWithinEventCap
  KillIsFinal
CHECK_DEADLOCK TRUE
