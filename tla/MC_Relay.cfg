SPECIFICATION Spec
CONSTANTS
    n1 = n1
    n2 = n2
    u1 = u1
    u2 = u2
    t1 = t1
    t2 = t2
    Nodes = {n1, n2}
    Users = {u1, u2}
    Lists = {{}, {u1}, {u1, u2}}
    Transits = {t1, t2}
    Fronted = {t1}
    MaxSetups = 3
    MaxWork = 7
    MaxFaults = 1
SYMMETRY Symmetric
INVARIANTS
    TypeOK
    RulesFindOutbounds
    EngineFollowsRelays
CHECK_DEADLOCK FALSE
