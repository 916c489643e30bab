SPECIFICATION Spec
CONSTANTS
    k1 = k1
    k2 = k2
    Keys = {k1, k2}
    KeyIds = {"a", "b"}
    Tools = {"t1", "t2"}
    Docs <- MCDocs
    RootDocs <- MCRootDocs
    FirstRoot <- MCFirstRoot
    FirstDoc <- MCFirstDoc
    NoBound = NoBound
    NoFile = NoFile
    NoRoot = NoRoot
    Junk = Junk
    NoId = NoId
    NoLink = NoLink
    NFiles = 2
    MaxTime = 2
    MaxActs = 3
    ReceiptKey = k1
    ReceiptId = "a"
    RecordIds = {"r1"}
    Modules = {"m1", "m2"}
    MaxAge = 0
    Skew = 0
    Drift = 1
INVARIANTS
    TrustInv
    ServedGrantsWereSigned
    IssuedGrantsLoad
    AcceptedReceiptsTellTheRun
    ChainBindsTheRun
CHECK_DEADLOCK FALSE
