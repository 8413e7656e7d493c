SPECIFICATION Spec
CONSTANTS
    Nodes = {n1, n2}
    SelfSigned = {n2}
    Listeners = {l1, l2}
    Tasks = {t1}
    QueueSize = 1
    None = None
    MaxChanges = 1
    MaxFaults = 1
INVARIANTS
    TypeOK
    NodesAreAccountedFor
    PusherIsOpen
PROPERTIES
    NodesFollowPanel
    TaskPushesReturn
CHECK_DEADLOCK FALSE
