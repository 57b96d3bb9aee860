SPECIFICATION TaskSpec
CONSTANTS
    w1 = w1
    w2 = w2
    t1 = t1
    t2 = t2
    t3 = t3
    Workers <- TwoWorkers
    Tasks <- TwoTasks
    Due <- SomeDue
    Progress <- Nothing
    MaxDay = 1
    MaxTaskVersion = 3
    MaxHistory = 2
SYMMETRY TwoTaskSymmetry
CONSTRAINT NotStale
INVARIANTS
    TaskTypeOK
    HistoryIsChain
PROPERTIES
    FinishedIsFinal
    DependenciesComeFirst
