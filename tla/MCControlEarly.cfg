\* A router is reaped before main reads its READY.
SPECIFICATION Spec
CONSTANTS
  Requests = {2, 3, 4, 5}
  Plans <- AllPlans
  Body <- Bodies
  Users <- FileUsers
  MaxCtl = 2
  MaxRtr = 3
  Mishaps = {"early"}
  MaxAccidents = 2
INVARIANT Owned
CHECK_DEADLOCK FALSE
