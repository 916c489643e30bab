SPECIFICATION ChainSpec
CONSTANTS
    w1 = w1  w2 = w2  w3 = w3  r1 = r1  r2 = r2
    Writers = {w1, w2, w3}
    Records = {r1, r2}
    NoWriter = NoWriter
    Damaged = Damaged
    Faults = {"short_write", "write_error", "fsync_error", "crash"}
    MaxEntries = 4
SYMMETRY Symmetry
INVARIANTS
    ChainInv
    TamperingShows
