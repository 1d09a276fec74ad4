SPECIFICATION Spec
CONSTANTS
  MaxTurns = 4
  Offers <- SmallOffers
INVARIANTS
  Faithful
  OnlyThatIsLost
  CallsPaired
  GrowsOnly
  ToolsKept
CHECK_DEADLOCK FALSE
