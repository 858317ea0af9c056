CONSTANTS
  InitialSubsidy = 4
  Interval = 2
  MaxPeriods = 4
  MAX_MONEY = 120
  Fees = {0, 1, 3}
  Reward <- MCReward
SPECIFICATION Spec
INVARIANTS TypeOK SupplyOnSchedule
