SPECIFICATION SchedulerSpec
CONSTANTS
    c1 = c1
    c2 = c2
    c3 = c3
    NodeTask = n
    Tasks = {n, c1, c2, c3}
    Actors = {a1, a2}
    Intervals = {30, 60}
    NoTask = NoTask
    MaxReconciles = 3
SYMMETRY Symmetric
INVARIANTS
    SchedulerTypeOK
    TasksFollowList
CHECK_DEADLOCK FALSE
