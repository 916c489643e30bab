SPECIFICATION Spec
CONSTANTS
    s1 = s1  s2 = s2  p1 = p1  p2 = p2  p3 = p3  x = x  y = y
    Servers = {s1}
    Proposals = {p1, p2, p3}
    Signed = {p1, p3}
    StemOf <- Names3
    None = None
    Faults = {"write_error"}
SYMMETRY Peers
INVARIANTS
    AcceptedToolsRegister
