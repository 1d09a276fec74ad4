\* Two callers mark and clear two drains while the loop writes to a disk that may fail, a goroutine
\* flushes, and the process dies and restarts.
CONSTANTS
    t1 = t1  t2 = t2  c1 = c1  c2 = c2
    Callers = {c1, c2}
    Flushers = {"shutdown"}
    Targets = {t1, t2}
    TTLs = {0, 1}
    Torn = Torn
    DiskFails = TRUE
    MaxTime = 1
SPECIFICATION FairSpec
INVARIANT QuietMeansSaved
PROPERTIES RestartKeepsDrains FlushSaves DrainReachesDisk
