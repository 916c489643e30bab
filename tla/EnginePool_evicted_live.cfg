SPECIFICATION Spec
CONSTANTS
    t1 = t1  t2 = t2  f1 = f1  f2 = f2  f3 = f3
    Threads = {t1, t2}
    Closers = {}
    Nobody = Nobody
    Fingerprints = {f1, f2, f3}
    MaxEngines = 1
    MaxEntries = 3
SYMMETRY Symmetry
INVARIANTS
    LiveEntriesKept
