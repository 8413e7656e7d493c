SPECIFICATION Spec
CONSTANTS
    Names = {u1, u2}
    Versions = {v1, v2}
    Protocols = {"trojan", "hysteria2", "anytls"}
    Mutators = {m1, m2}
    Conns = {k1}
    NoName = NoName
    NoOne = NoOne
    Index = Index
    MaxSlots = 2
SYMMETRY Symmetric
INVARIANTS
    TypeOK
    ServiceAgreesAlone
    NamedAfterOwner
    RemovalCloses
CHECK_DEADLOCK FALSE
