\* Two concurrent requests of a reliable combo of two targets, no budget, every
\* kind of failure that the failover treats differently.
CONSTANTS
    r1 = r1  r2 = r2  r3 = r3  t1 = t1  t2 = t2  t3 = t3
    Requests = {r1, r2}
    Streams = {r1}
    Combos = {"main"}
    Targets = {t1, t2}
    NoTarget = NoTarget
    ComboOf <- OneCombo
    Strategy <- Reliable
    Chain <- Pair
    Timeout <- NoBudget
    Faults = {"busy", "client", "rate", "gateway", "fault"}
    DrainTTL = 1
    UpstreamCooldown = 1
    RateLimitBase = 1
    RateLimitCap = 4
    TransientWindow = 2
    TransientStrikes = 2
    MaxInFlight = 2
    MaxTime = 1
SPECIFICATION FairSpec
CHECK_DEADLOCK FALSE
INVARIANTS TypeOK HonestAnswer DrainHasEvidence BackoffDoubles
PROPERTY OneAnswer
