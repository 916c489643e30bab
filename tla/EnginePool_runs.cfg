SPECIFICATION FairSpec
CONSTANTS
    t1 = t1  t2 = t2  f1 = f1  f2 = f2  f3 = f3
    Threads = {t1, t2}
    Closers = {t2}
    Nobody = Nobody
    Fingerprints = {f1, f2, f3}
    MaxEngines = 1
    MaxEntries = 3
INVARIANTS
    PoolInv
    RunningEnginesTick
PROPERTIES
    GrowsOnlyWhenLive
    GuestsEnd
