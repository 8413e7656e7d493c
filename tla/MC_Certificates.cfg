SPECIFICATION Spec
CONSTANTS
    n1 = n1
    n2 = n2
    s1 = s1
    s2 = s2
    Nodes = {n1, n2}
    Names = {s1, s2}
    MaxIds = 5
    MaxEvents = 1
    MaxFaults = 1
INVARIANTS
    TypeOK
    NothingHalfDone
PROPERTIES
    ReloadFindsMatch
    ExpiringIsRenewed
    PinsSettle
CHECK_DEADLOCK FALSE
