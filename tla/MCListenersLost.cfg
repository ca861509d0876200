CONSTANTS
  NAddr = 2
  Plans <- MCPlans
  MaxConf = 3
  MaxEngine = 2
  Conns = {"c1"}
  MaxFaults = 1
SPECIFICATION Spec
INVARIANT Served
CHECK_DEADLOCK FALSE
