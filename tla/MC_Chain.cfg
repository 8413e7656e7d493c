SPECIFICATION Spec
CONSTANTS
    t1 = t1
    t2 = t2
    u1 = u1
    u2 = u2
    Tags = {t1, t2}
    Users = {u1, u2}
    MaxCalls = 5
    MaxFaults = 3
INVARIANTS
    TypeOK
    ChainIsWhole
PROPERTY
    ImplementsListener
CHECK_DEADLOCK FALSE
