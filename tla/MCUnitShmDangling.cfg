\* Two contexts; the message with a new segment cannot be sent.
SPECIFICATION Spec
CONSTANTS
  x1 = x1
  x2 = x2
  e1 = e1
  e2 = e2
  NoCtx = NoCtx
  Mapped = Mapped
  Ctxs = {x1, x2}
  Engines = {e1}
  Limit = 2
  NChunks = 1
  Modes = {"block"}
  MaxGets = 3
  MaxInbox = 2
  Faults = {"mmap"}
  MaxFaults = 1
SYMMETRY Symm
INVARIANT NoDangling
CHECK_DEADLOCK FALSE
