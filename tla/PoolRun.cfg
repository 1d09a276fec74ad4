SPECIFICATION Spec
CONSTANTS
  r1 = r1
  r2 = r2
  m1 = m1
  m2 = m2
  Requests = {r1, r2}
  Models = {m1, m2}
  NAccounts = 2
  Limits = {0, 1}
  MaxCool = 1
  MaxTime = 2
  MaxReloads = 1
  MaxPolls = 1
  MaxInstances = 3
SYMMETRY Symmetry
INVARIANTS
  SlotsBalanced
  OneAccountAnswers
  KeptReasonProtects

  
CHECK_DEADLOCK FALSE
