SPECIFICATION LiveSpec
CONSTANTS
  Requests = {2, 3, 4, 5}
  Plans <- AllPlans
  Body <- Bodies
  Users <- FileUsers
  MaxCtl = 2
  MaxRtr = 2
  Mishaps = {"send", "apply", "store", "torn", "fork"}
  MaxAccidents = 1
PROPERTY Answered
CHECK_DEADLOCK FALSE
