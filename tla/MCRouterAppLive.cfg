SPECIFICATION FairSpec
CONSTANTS
  Atts = {a1, a2}
  Protos = {q1}
  Reqs = {r1, r2}
  None = None
  MaxProcesses = 2
  Spare = 0
  Contexts = 0
  MaxGen = 0
  Events = {"fail", "expire", "backlog"}
CHECK_DEADLOCK FALSE
PROPERTIES
  Answered
