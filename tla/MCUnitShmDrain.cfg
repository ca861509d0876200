\* One context with a short write and a blocking one.
SPECIFICATION LiveSpec
CONSTANTS
  x1 = x1
  x2 = x2
  e1 = e1
  e2 = e2
  NoCtx = NoCtx
  Mapped = Mapped
  Ctxs = {x1}
  Engines = {e1}
  Limit = 1
  NChunks = 2
  Modes = {"block", "nb"}
  MaxGets = 4
  MaxInbox = 2
  Faults = {}
  MaxFaults = 0
PROPERTY AllDrained
CHECK_DEADLOCK FALSE
