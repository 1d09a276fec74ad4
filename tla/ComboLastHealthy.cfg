\* Two concurrent round-robin requests meet one failing target each.
CONSTANTS
    r1 = r1  r2 = r2  r3 = r3  t1 = t1  t2 = t2  t3 = t3
    Requests = {r1, r2}
    Streams = {}
    Combos = {"main"}
    Targets = {t1, t2}
    NoTarget = NoTarget
    ComboOf <- OneCombo
    Strategy <- RoundRobin
    Chain <- Pair
    Timeout <- NoBudget
    Faults = {"fault"}
    DrainTTL = 1
    UpstreamCooldown = 1
    RateLimitBase = 1
    RateLimitCap = 4
    TransientWindow = 2
    TransientStrikes = 2
    MaxInFlight = 2
    MaxTime = 1
SPECIFICATION FairSpec
CHECK_DEADLOCK FALSE
INVARIANT LastHealthyNeverDrained
