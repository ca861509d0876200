\* Two contexts, one segment of three chunks: a run that is given back.
SPECIFICATION Spec
CONSTANTS
  x1 = x1
  x2 = x2
  e1 = e1
  e2 = e2
  NoCtx = NoCtx
  Mapped = Mapped
  Ctxs = {x1, x2}
  Engines = {e1}
  Limit = 1
  NChunks = 3
  Modes = {"block"}
  MaxGets = 4
  MaxInbox = 1
  Faults = {}
  MaxFaults = 0
SYMMETRY Symm
INVARIANT UndoHeard
CHECK_DEADLOCK FALSE
