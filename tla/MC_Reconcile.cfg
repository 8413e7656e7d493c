SPECIFICATION Spec
CONSTANTS
    Actors = {a1}
    Tags = {t1, t2}
    Speeds = {s1, s2}
    Users = {u1, u2}
    Versions = {1, 2}
    MaxChanges = 2
    MaxFaults = 2
SYMMETRY Symmetric
INVARIANTS
    TypeOK
    ReconciledWithoutFaults
    ListTellsTheTruth
    CloseLeavesNothing
CHECK_DEADLOCK FALSE
