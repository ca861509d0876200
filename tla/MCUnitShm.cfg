\* Two contexts, two engines, one segment of two chunks, one failure.
SPECIFICATION Spec
CONSTANTS
  x1 = x1
  x2 = x2
  e1 = e1
  e2 = e2
  NoCtx = NoCtx
  Mapped = Mapped
  Ctxs = {x1, x2}
  Engines = {e1, e2}
  Limit = 1
  NChunks = 2
  Modes = {"block", "nb", "probe"}
  MaxGets = 3
  MaxInbox = 1
  Faults = {"quit", "oosm", "shm", "mmap"}
  MaxFaults = 1
SYMMETRY Symm
INVARIANTS ChunksAgree MapFirst Woken
CHECK_DEADLOCK FALSE
