CONSTANTS
  NAddr = 2
  Plans <- MCPlans
  MaxConf = 2
  MaxEngine = 2
  Conns = {"c1"}
  MaxFaults = 0
SPECIFICATION LiveSpec
PROPERTY Answered
CHECK_DEADLOCK FALSE
