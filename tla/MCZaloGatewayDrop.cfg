CONSTANTS
  NoOp = NoOp
  Op = {o1, o2}
  MaxAttempts = 1
  MaxFaults = 0
SPECIFICATION FairSpec
PROPERTY DropIsRecovered
CHECK_DEADLOCK FALSE
