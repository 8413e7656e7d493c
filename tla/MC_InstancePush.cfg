SPECIFICATION Spec
CONSTANTS
    Nodes = {n1, n2}
    SelfSigned = {n2}
    Listeners = {l1}
    Tasks = {t1}
    QueueSize = 1
    None = None
    MaxChanges = 0
    MaxFaults = 0
PROPERTIES
    PushEventReturns
CHECK_DEADLOCK FALSE
