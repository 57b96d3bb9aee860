SPECIFICATION TaskSpec
CONSTANTS
    w1 = w1
    w2 = w2
    t1 = t1
    t2 = t2
    t3 = t3
    Workers <- TwoWorkers
    Tasks <- ThreeTasks
    Due <- NoDue
    Progress <- HalfDone
    MaxDay = 0
    MaxTaskVersion = 0
    MaxHistory = 0
SYMMETRY ThreeTaskSymmetry
INVARIANTS
    CyclesAreRefused
