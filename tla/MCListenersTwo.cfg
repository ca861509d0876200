CONSTANTS
  NAddr = 2
  Plans <- MCPlans
  MaxConf = 3
  MaxEngine = 2
  Conns = {"c1", "c2"}
  MaxFaults = 0
SPECIFICATION Spec
CONSTRAINT Intact
INVARIANTS RefsAgree SafeUse Served PortFree AcksAgree
CHECK_DEADLOCK FALSE
