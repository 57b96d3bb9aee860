SPECIFICATION MCSpec
CONSTANTS
    w1 = w1
    w2 = w2
    p1 = p1
    n1 = n1
    n2 = n2
    f1 = f1
    plain = plain
    revised = revised
    s1 = s1
    s2 = s2
    r1 = r1
    q1 = q1
    t1 = t1
    i1 = i1
    c1 = c1
    c2 = c2
    Parts <- AllParts
    Workers <- TwoWorkers
    Papers <- OnePaper
    Notes <- TwoNotes
    Files <- OneFile
    Contents <- TwoContents
    MaxPaperVersion = 7
    Staff <- TwoStaff
    Risks <- OneRisk
    Items <- OneOfEach
    Kind <- KindOf
    Checks <- TwoChecks
    MaxRecordVersion = 2
    MaxAcceptanceVersion = 4
SYMMETRY WorkerSymmetry
INVARIANTS
    AuditTypeOK
    SignoffsAreChain
    LockedHasNoOpenNotes
    IndependenceIsPerMember
    FileLockAgrees
    FinalizedWorkIsDone
PROPERTIES
    LockedPapersStay
    FinalizedFileDrains
    FollowsProtocol
CHECK_DEADLOCK FALSE
