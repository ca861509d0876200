SPECIFICATION Spec
CONSTANTS
  Atts = {a1, a2}
  Protos = {q1}
  Reqs = {r1, r2}
  None = None
  MaxProcesses = 2
  Spare = 0
  Contexts = 0
  MaxGen = 0
  Events = {"idle"}
SYMMETRY Symmetry
CHECK_DEADLOCK FALSE
INVARIANTS
  NotStranded
