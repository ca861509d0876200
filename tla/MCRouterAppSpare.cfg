SPECIFICATION Spec
CONSTANTS
  Atts = {a1, a2, a3}
  Protos = {q1}
  Reqs = {r1, r2, r3}
  None = None
  MaxProcesses = 3
  Spare = 1
  Contexts = 0
  MaxGen = 0
  Events = {"idle"}
SYMMETRY Symmetry
CHECK_DEADLOCK FALSE
INVARIANTS
  SpareFilled
