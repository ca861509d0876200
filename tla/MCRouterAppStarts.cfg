SPECIFICATION Spec
CONSTANTS
  Atts = {a1, a2, a3}
  Protos = {q1, q2}
  Reqs = {r1}
  None = None
  MaxProcesses = 2
  Spare = 2
  Contexts = 1
  MaxGen = 1
  Events = {"die", "exit", "expire", "fail", "backlog"}
SYMMETRY Symmetry
CHECK_DEADLOCK FALSE
INVARIANTS SlotsAgree WithinMax
