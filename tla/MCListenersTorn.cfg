CONSTANTS
  NAddr = 2
  Plans <- MCPlans
  MaxConf = 3
  MaxEngine = 2
  Conns = {"c1"}
  MaxFaults = 0
SPECIFICATION Spec
INVARIANT PortFree
CHECK_DEADLOCK FALSE
