\* Three threads; the cycle of an entry is narrower than that of the index.
SPECIFICATION Spec
CONSTANTS
  p1 = p1
  p2 = p2
  p3 = p3
  Threads = {p1, p2, p3}
  Size = 2
  Cycles = 8
  CycleRange = 4
  Retries = 2
  MaxStall = 1
  Patience = 1
SYMMETRY Symm
INVARIANT QueueSound
PROPERTY Linearizable
