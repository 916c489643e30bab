SPECIFICATION Spec
CONSTANTS
    c1 = c1  c2 = c2  c3 = c3  t1 = t1  t2 = t2
    Writers = {c1, c2}
    Tenants = {t1, t2}
    NoWriter = NoWriter
    Damaged = Damaged
    None = None
    Faults = {"short_write", "write_error", "fsync_error", "crash"}
    MaxRuns <- OneRunFirstOnly
    MaxUnits <- ThreeUnitsSecond
    Reserve = 1
    Charges = {2}
    TTL = 1
    MaxLines = 5
    MaxTime = 1
SYMMETRY Callers
INVARIANTS
    TenantInv
    CapsHoldButForLateSettles
    DroppedChargeShows
    ReturnedRunsAreBilled
PROPERTIES
    DamageStopsBilling
