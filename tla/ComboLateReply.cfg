\* One buffered request whose reply completes as its budget timer fires.
CONSTANTS
    r1 = r1  r2 = r2  r3 = r3  t1 = t1  t2 = t2  t3 = t3
    Requests = {r1}
    Streams = {}
    Combos = {"main"}
    Targets = {t1, t2}
    NoTarget = NoTarget
    ComboOf <- OneCombo
    Strategy <- Reliable
    Chain <- Pair
    Timeout <- Budget1
    Faults = {"fault"}
    DrainTTL = 1
    UpstreamCooldown = 1
    RateLimitBase = 1
    RateLimitCap = 4
    TransientWindow = 2
    TransientStrikes = 2
    MaxInFlight = 2
    MaxTime = 2
SPECIFICATION FairSpec
CHECK_DEADLOCK FALSE
INVARIANT OneEnding
