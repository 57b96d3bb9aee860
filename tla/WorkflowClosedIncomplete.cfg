SPECIFICATION Spec
CONSTANTS
    w1 = w1
    w2 = w2
    t1 = t1
    d1 = d1
    board = board
    papers = papers
    Workers <- OneWorker
    Tasks <- OneTask
    RequiredTasks <- OneTask
    Documents <- OneDocument
    RequiredDocuments <- OneDocument
    Templates <- BothTemplates
    Generates <- Content
    Due <- NoDue
    Progress <- Nothing
    MaxDay = 0
    MaxTaskVersion = 3
    MaxHistory = 3
    MaxVersion = 7
    MaxTrail = 5
INVARIANTS
    ClosedIsComplete
