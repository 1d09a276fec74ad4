CONSTANTS
  p1 = p1
  acc = acc
  u1 = u1
  u2 = u2
  k1 = k1
  k2 = k2
  c1 = c1
  r1 = r1
  r2 = r2
  w1 = w1
  f1 = f1
  f2 = f2
  None = None
  Broken = Broken
  Providers = {p1}
  Accounts = {acc}
  Users = {u1, u2}
  Emails = {}
  ClientKeys = {c1}
  Requests = {r1, r2}
  Refreshes = {w1}
  Flows = {f1, f2}
  ApiKeys = {k1}
  Logins <- MCLogins
  Pastes <- MCPastes
  Stored <- MCStored
  MaxSwaps = 3
  MaxFaults = 1
SPECIFICATION Spec
SYMMETRY Symmetry
INVARIANTS
  ConnectedIsKept
  JudgedAsOfArrival
CHECK_DEADLOCK FALSE
