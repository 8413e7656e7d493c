SPECIFICATION Spec
CONSTANTS
    Nodes = {n1, n2}
    IPs = {i1, i2, local}
    Ignored = {local}
    Conns = {k1, k2}
    Sweepers = {s1, s2}
    Limits = {0, 1}
    NoNode = NoNode
    MaxFaults = 1
    MaxAdmits = 3
SYMMETRY Symmetric
INVARIANTS
    TypeOK
    ConnectedWithinLimit
    RecordedIsReported
CHECK_DEADLOCK FALSE
