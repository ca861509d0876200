\* main cannot fork the child that stores the configuration.
SPECIFICATION Spec
CONSTANTS
  Requests = {2, 3, 4, 5}
  Plans <- AllPlans
  Body <- Bodies
  Users <- FileUsers
  MaxCtl = 2
  MaxRtr = 3
  Mishaps = {"forkconf"}
  MaxAccidents = 1
INVARIANT Settled
CHECK_DEADLOCK FALSE
