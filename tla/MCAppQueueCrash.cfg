\* Two readers that die twice and are replaced, or outlive their prototype.
SPECIFICATION Spec
CONSTANTS
  e1 = e1
  e2 = e2
  r1 = r1
  r2 = r2
  i1 = i1
  i2 = i2
  s1 = s1
  s2 = s2
  NoSlot = NoSlot
  NoStream = NoStream
  Engines = {e1}
  Readers = {r1, r2}
  Slots = {i1, i2}
  Streams = {s1, s2}
  SockCap = 2
  PollTimeouts = TRUE
  MaxCrashes = 2
  ProtoDies = TRUE
SYMMETRY Symm
VIEW ByDistance
INVARIANTS TypeOK SlotsExclusive ClaimXorRetract SlotsLost RunsOnce HeardUnhurt
CHECK_DEADLOCK FALSE
