SPECIFICATION MCSpec
CONSTANTS
    w1 = w1
    w2 = w2
    p1 = p1
    n1 = n1
    n2 = n2
    f1 = f1
    plain = plain
    revised = revised
    s1 = s1
    s2 = s2
    r1 = r1
    q1 = q1
    t1 = t1
    i1 = i1
    c1 = c1
    c2 = c2
    Parts <- NotesPart
    Workers <- TwoWorkers
    Papers <- OnePaper
    Notes <- OneNote
    Files <- OneFile
    Contents <- TwoContents
    MaxPaperVersion = 5
    Staff <- TwoStaff
    Risks <- OneRisk
    Items <- OneOfEach
    Kind <- KindOf
    Checks <- TwoChecks
    MaxRecordVersion = 2
    MaxAcceptanceVersion = 4
PROPERTIES
    LockedPapersAreImmutable
CHECK_DEADLOCK FALSE
