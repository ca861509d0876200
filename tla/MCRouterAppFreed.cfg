SPECIFICATION Spec
CONSTANTS
  Atts = {a1, a2}
  Protos = {q1}
  Reqs = {r1}
  None = None
  MaxProcesses = 2
  Spare = 1
  Contexts = 0
  MaxGen = 0
  Events = {"remove", "die"}
SYMMETRY Symmetry
CHECK_DEADLOCK FALSE
INVARIANTS
  FreedUnused
