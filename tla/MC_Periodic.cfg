SPECIFICATION Spec
CONSTANTS
    NoCall = NoCall
    Calls = {c1, c2, c3, c4}
    MaxGen = 6
INVARIANTS
    TypeOK
    OneTimerChain
PROPERTIES
    ImplementsTicker
    Quiesces
CHECK_DEADLOCK FALSE
