\* Two processes, and one fault.
SPECIFICATION LiveSpec
CONSTANTS
  r1 = r1
  r2 = r2
  NoReq = NoReq
  Reqs = {r1, r2}
  MaxMsgs <- Lengths
  QueueSize = 2
  Wrap = 8
  Starts = {6}
  SockCap = 1
  MaxFaults = 1
INVARIANTS Ordered Woken
PROPERTY Delivered
CHECK_DEADLOCK FALSE
