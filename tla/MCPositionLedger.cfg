CONSTANTS
  Conditions = {c1}
  Engines = {sharp, flb}
  NoEngine = none
  Modes = {paper, live}
  accepted_mode_tag = paper
  Sizes = {1, 2}
  PriceTicks = {2, 5}
  MaxShares = 3
  MaxFills = 5
SPECIFICATION Spec
INVARIANTS
  ExposureIsSum
  HeldIffPriced
  AvgWithinPaid
  EngineSplitIsAggregate
CHECK_DEADLOCK FALSE
