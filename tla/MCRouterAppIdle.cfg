SPECIFICATION Spec
CONSTANTS
  Atts = {a1, a2, a3}
  Protos = {q1}
  Reqs = {r1, r2}
  None = None
  MaxProcesses = 2
  Spare = 1
  Contexts = 0
  MaxGen = 0
  Events = {"detach", "timeout", "upgrade", "idle"}
SYMMETRY Symmetry
CHECK_DEADLOCK FALSE
INVARIANTS
  TypeOK
  IdleAgree
  IdleWatched
