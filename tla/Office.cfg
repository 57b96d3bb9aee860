SPECIFICATION MCSpec
CONSTANTS
    w1 = w1
    w2 = w2
    i1 = i1
    i2 = i2
    d1 = d1
    bdt = bdt
    usd = usd
    a1 = a1
    b1 = b1
    t1 = t1
    s1 = s1
    s2 = s2
    Parts <- AllParts
    Workers <- TwoWorkers
    Invoices <- OneInvoice
    Currencies <- TwoCurrencies
    Totals <- Two
    Amounts <- Small
    MaxExpenses = 2
    Documents <- OneDocument
    MaxDocVersion = 4
    Worklogs <- TwoRows
    LeaveTypes <- OneType
    Sources <- OneDocument
    Minutes <- One
    Standard = 1
    Secrets <- TwoSecrets
    MaxFailures = 2
    MaxTokenVersion = 2
    Departments <- TwoDepartments
    Designations <- OneRow
    None = None
    MaxStaffVersion = 3
    Notifications <- OneRow
    CheckKeys <- OneRow
    References <- OneRow
    Times <- Small
SYMMETRY WorkerSymmetry
INVARIANTS
    OfficeTypeOK
    LedgerBalances
    VersionsAreInOrder
    WorklogsGoForward
    CredentialChangesTakeHold
    WrongAnswersCount
    EventsTellTheRows
    StaffFitsTogether
PROPERTIES
    ReportIsCautious
    ArchivedIsFrozen
    CapacityIsNotUnderstated
    AccessIsMonotone
CHECK_DEADLOCK FALSE
