\* Two contexts, one chunk.
SPECIFICATION LiveSpec
CONSTANTS
  x1 = x1
  x2 = x2
  e1 = e1
  e2 = e2
  NoCtx = NoCtx
  Mapped = Mapped
  Ctxs = {x1, x2}
  Engines = {e1}
  Limit = 1
  NChunks = 1
  Modes = {"block"}
  MaxGets = 3
  MaxInbox = 2
  Faults = {}
  MaxFaults = 0
PROPERTY Unblocked
CHECK_DEADLOCK FALSE
