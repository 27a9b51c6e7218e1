CONSTANTS
    p1 = p1
    p2 = p2
    t1 = t1
    t2 = t2
    t3 = t3
    n1 = n1
    n2 = n2
    Nonces = {n1, n2}
    NoTask = NoTask
    Procs <- TwoProcesses
    Tasks <- ThreeTasks
    Home <- TwoAndOne
    Faults = {}
    MaxCells = 6
SPECIFICATION Spec
INVARIANT NeverReissued
