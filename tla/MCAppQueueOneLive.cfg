\* One reader that blocks without a timeout, nxt_unit_run_shared().
SPECIFICATION FairSpec
CONSTANTS
  e1 = e1
  e2 = e2
  r1 = r1
  r2 = r2
  i1 = i1
  i2 = i2
  s1 = s1
  s2 = s2
  NoSlot = NoSlot
  NoStream = NoStream
  Engines = {e1, e2}
  Readers = {r1}
  Slots = {i1, i2}
  Streams = {s1, s2}
  SockCap = 1
  PollTimeouts = FALSE
  MaxCrashes = 0
  ProtoDies = FALSE
INVARIANT DoorbellHeard
PROPERTY QueuedServed
CHECK_DEADLOCK FALSE
