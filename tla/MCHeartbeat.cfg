CONSTANTS
  PERIOD = 4
  IDS = 3
  MaxPresses = 2
SPECIFICATION FairSpec
INVARIANTS
  SuccessiveIdsDiffer
  HeartbeatsSpaced
PROPERTIES
  HeartbeatsGoOn
