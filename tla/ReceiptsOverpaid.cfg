SPECIFICATION MCSpec
CONSTANTS
    w1 = w1
    w2 = w2
    i1 = i1
    i2 = i2
    d1 = d1
    bdt = bdt
    usd = usd
    a1 = a1
    b1 = b1
    t1 = t1
    s1 = s1
    s2 = s2
    Parts <- LedgerPart
    Workers <- TwoWorkers
    Invoices <- OneInvoice
    Currencies <- OneCurrency
    Totals <- Two
    Amounts <- Small
    MaxExpenses = 2
    Documents <- OneDocument
    MaxDocVersion = 4
    Worklogs <- OneRow
    LeaveTypes <- OneType
    Sources <- OneDocument
    Minutes <- One
    Standard = 1
    Secrets <- TwoSecrets
    MaxFailures = 2
    MaxTokenVersion = 1
    Departments <- TwoDepartments
    Designations <- OneRow
    None = None
    MaxStaffVersion = 2
    Notifications <- OneRow
    CheckKeys <- OneRow
    References <- OneRow
    Times <- Small
INVARIANTS
    NeverOverpaid
CHECK_DEADLOCK FALSE
