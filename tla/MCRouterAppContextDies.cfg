SPECIFICATION Spec
CONSTANTS
  Atts = {a1, a2}
  Protos = {q1}
  Reqs = {r1, r2}
  None = None
  MaxProcesses = 2
  Spare = 0
  Contexts = 1
  MaxGen = 0
  Events = {"die"}
SYMMETRY Symmetry
CHECK_DEADLOCK FALSE
INVARIANTS
  NotStranded
