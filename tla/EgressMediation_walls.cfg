SPECIFICATION Spec
CONSTANTS
    r1 = r1  r2 = r2
    granted = granted  plain = plain  component = component
    both = both  wide = wide  other = other
    Runs = {r1, r2}
    Tools = {granted, plain, component}
    Components = {component}
    Trusted = {}
    Granted = {granted}
    Slots <- TwoSlotsEach
    Urls = {both, wide, other}
    SchemeOf <- Schemes
    GrantPolicy <- GrantsWide
    ServerPolicy <- ServerNarrow
    MaxRepeats = 2
    MaxRedirects = 2
    MaxBody = 2
    Silent = Silent  Unreadable = Unreadable  Malformed = Malformed  Nested = Nested
    NoSlot = NoSlot
SYMMETRY Peers
INVARIANTS
    EgressInv
    SlotsBuyPermittedRequests
    TruncationTold
    EveryAskAnswered
