SPECIFICATION FairSpec
CONSTANTS
    c1 = c1  c2 = c2  c3 = c3  g1 = g1  g2 = g2
    Writers = {c1, c2}
    Grants = {g1, g2}
    NoWriter = NoWriter
    Damaged = Damaged
    None = None
    Faults = {"short_write", "write_error", "fsync_error", "crash"}
    Cap <- CapFirst
    From <- OpensSecond
    Until <- ClosesFirst
    MaxLines = 3
    MaxTime = 1
INVARIANTS
    BookInv
    SlotsWithinCap
    BookIsEvidence
PROPERTIES
    LockReleased
    RevocationSticks
    ImplementsMeter
