\* A fill-first combo of two targets with a budget of one tick and two ticks
\* of time: timers race the dispatches and the clients.
CONSTANTS
    r1 = r1  r2 = r2  r3 = r3  t1 = t1  t2 = t2  t3 = t3
    Requests = {r1, r2}
    Streams = {r1}
    Combos = {"main"}
    Targets = {t1, t2}
    NoTarget = NoTarget
    ComboOf <- OneCombo
    Strategy <- FillFirst
    Chain <- Pair
    Timeout <- Budget1
    Faults = {"busy", "gateway", "deadline"}
    DrainTTL = 1
    UpstreamCooldown = 2
    RateLimitBase = 1
    RateLimitCap = 4
    TransientWindow = 2
    TransientStrikes = 2
    MaxInFlight = 1
    MaxTime = 2
SPECIFICATION FairSpec
CHECK_DEADLOCK FALSE
INVARIANTS NoDispatchAfterReply DrainHasReason
PROPERTY EveryRequestEnds
