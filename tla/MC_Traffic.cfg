SPECIFICATION TrafficSpec
CONSTANTS
    Monitors = {m1, m2}
    Users = {u1, u2}
    BatchSize = 1
    MaxBytes = 3
    MaxFaults = 1
    MaxChurn = 1
INVARIANTS
    TrafficTypeOK
    BillsAreHonest
PROPERTIES
    CountersSettle
CHECK_DEADLOCK FALSE
