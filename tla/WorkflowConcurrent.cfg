SPECIFICATION MCSpec
CONSTANTS
    w1 = w1
    w2 = w2
    t1 = t1
    t2 = t2
    t3 = t3
    d1 = d1
    board = board
    papers = papers
    Workers <- TwoWorkers
    Tasks <- ThreeTasks
    RequiredTasks <- OneTask
    Documents <- OneDocument
    RequiredDocuments <- OneDocument
    Templates <- BoardTemplate
    Generates <- BoardContent
    Due <- NoDue
    Progress <- Nothing
    MaxDay = 0
    MaxTaskVersion = 1
    MaxHistory = 3
    MaxVersion = 5
    MaxTrail = 5
INVARIANTS
    ActionsHaveCauses
    NoDependencyCycle
    LockInsertIsExclusive
PROPERTIES
    RequestsEnd
