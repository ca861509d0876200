\* The owner and another engine, and two faults.
SPECIFICATION Spec
CONSTANTS
  own = own
  oth = oth
  Threads = {own, oth}
  Owner = own
  Scripts <- Mixed
  SockCap = 1
  MaxFdMsgs = 1
  MaxFaults = 2
INVARIANTS Accounted WriteArmed MarkerArmed
CHECK_DEADLOCK FALSE
