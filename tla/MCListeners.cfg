CONSTANTS
  NAddr = 2
  Plans <- MCPlans
  MaxConf = 3
  MaxEngine = 3
  Conns = {"c1"}
  MaxFaults = 1
SPECIFICATION Spec
CONSTRAINT Intact
INVARIANTS RefsAgree SafeUse Served PortFree AcksAgree
CHECK_DEADLOCK FALSE
