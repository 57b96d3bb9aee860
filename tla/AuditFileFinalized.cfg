SPECIFICATION WholeSpec
CONSTANTS
    w1 = w1
    w2 = w2
    p1 = p1
    n1 = n1
    n2 = n2
    f1 = f1
    plain = plain
    revised = revised
    s1 = s1
    s2 = s2
    r1 = r1
    q1 = q1
    t1 = t1
    i1 = i1
    c1 = c1
    c2 = c2
    Parts <- FilePart
    Workers <- OneWorker
    Papers <- OnePaper
    Notes <- NoItems
    Files <- NoItems
    Contents <- TwoContents
    MaxPaperVersion = 1
    Staff <- OneStaff
    Risks <- OneRisk
    Items <- NoItems
    Kind <- NoKind
    Checks <- OneCheck
    MaxRecordVersion = 1
    MaxAcceptanceVersion = 3
INVARIANTS
    FinalizedFileIsReady
