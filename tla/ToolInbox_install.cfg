SPECIFICATION Spec
CONSTANTS
    s1 = s1  s2 = s2  p1 = p1  p2 = p2  p3 = p3  x = x  y = y
    Servers = {s1, s2}
    Proposals = {p1, p2, p3}
    Signed = {p1, p2}
    StemOf <- Names3
    None = None
    Faults = {"write_error", "scan_error", "crash"}
SYMMETRY Peers
INVARIANTS
    InstallInv
PROPERTIES
    RejectedStay
