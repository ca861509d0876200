\* Two of: deaths of the controller or the router, failures.
SPECIFICATION Spec
CONSTANTS
  Requests = {2, 3, 4, 5}
  Plans <- AllPlans
  Body <- Bodies
  Users <- FileUsers
  MaxCtl = 2
  MaxRtr = 2
  Mishaps = {"send", "apply", "store", "torn", "fork"}
  MaxAccidents = 2
INVARIANTS Owned OneChange Settled Agree StateDir
PROPERTY Durable
CHECK_DEADLOCK FALSE
