CONSTANTS
    Ids <- MCIds
    Frames <- MCJournalFrames
    NoFrame = NoFrame
    NoId = "-"
    QueueCapacity = 1
    PendingCapacity = 2
    MaxAttempts = 1
    MaxSequence = 3
    Tokens <- MCTokens
    NoWorker = NoWorker
    Releases <- MCReleases
    NoRelease = NoRelease
    InitialRelease = "r1"
    Accepts <- MCReads
    Catalogs = {"c0", "c1", "c2"}
    NoCatalog = NoCatalog
    CatalogOf <- MCSameCatalog
    Declared <- MCDeclared
    JournalCapacity = 1
    ClientFrames = 2
    Faults = 1
    Callbacks = 0
    Publications = 1
SPECIFICATION ServedSpec
CHECK_DEADLOCK FALSE
INVARIANTS
    HostSurvives
