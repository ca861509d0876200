\* One context that answers requests of two engines.
SPECIFICATION LiveSpec
CONSTANTS
  x1 = x1
  x2 = x2
  e1 = e1
  e2 = e2
  NoCtx = NoCtx
  Mapped = Mapped
  Ctxs = {x1}
  Engines = {e1, e2}
  Limit = 1
  NChunks = 2
  Modes = {"block"}
  MaxGets = 2
  MaxInbox = 2
  Faults = {}
  MaxFaults = 0
PROPERTY AllUnblocked
CHECK_DEADLOCK FALSE
