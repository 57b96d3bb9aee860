SPECIFICATION MCSpec
CONSTANTS
    w1 = w1
    w2 = w2
    c1 = c1
    c2 = c2
    tin = tin
    bin = bin
    x1 = x1
    plain = plain
    dashed = dashed
    n1 = n1
    n2 = n2
    old = old
    k1 = k1
    k2 = k2
    k3 = k3
    Workers <- TwoWorkers
    MaxYear = 1
    MaxNumber = 3
    Clients <- TwoClients
    Types <- TwoTypes
    Cores <- OneCore
    Spellings <- TwoSpellings
    Details <- One
    Lists <- SomeLists
    MaxClientVersion = 1
    Instances <- ThreeInstances
    Revisions <- Chain
    HeadOf <- TwoImages
    Declares <- TwoModels
    Versions <- EmptyDatabase
    Calls <- ThreeCalls
    Threads = 2
    Connections = 1
    MaxRetries = 3
    MaxCrashes = 1
    MaxDowngrades = 1
INVARIANTS
    WaitingTypeOK
    NumbersAreGapless
    IdentifiersAreUnique
    ServesWhatItDeclares
PROPERTIES
    NothingWaitsForEver
    OnlySupersededGiveUp
    ClientArchiveIsFinal
CHECK_DEADLOCK FALSE
