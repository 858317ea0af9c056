CONSTANTS
  BASE = 4
  DIGITS = 3
  WIDTH = 10
  Networks <- AllNetworks
  nBlocksToAverage = 3
  nMedianTimeSpan = 3
  MAX_TIMEWARP = 2
  TimeSteps <- Steps
  MaxHeight = 7
SPECIFICATION Spec
INVARIANTS TypeOK NextTargetValid HeadersSyncAccepts SteadyAtTarget
CHECK_DEADLOCK FALSE
