CONSTANTS
  p1 = p1
  p2 = p2
  m = m
  mHigh = mHigh
  c = c
  s = s
  r1 = r1
  r2 = r2
  NoRoute = NoRoute
  NoReply = NoReply
  Unknown = Unknown
  e1 = e1
  e2 = e2
  Providers = {p1, p2}
  Models = {m, mHigh}
  ComboNames = {c, s}
  Routes = {r1, r2}
  Editors = {e1, e2}
  BaseOf <- MCBaseOf
  Decisions <- MCDecisions
  RouteOrder <- MCRouteOrder
  Chains <- MCChains
  RouteTables <- MCRouteTables
  Discovered <- MCDiscovered
  Picks <- MCPicks
  Strategies <- MCStrategies
  Files <- MCFiles
  Replies <- MCReplies
  MaxEdits = 2
  MaxFaults = 1
SPECIFICATION Spec
INVARIANTS
  EveryListedNameLands
  NeverListedAndWithdrawn
PROPERTIES
  ServedCatchesUp
CHECK_DEADLOCK FALSE
