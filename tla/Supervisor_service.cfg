CONSTANTS
    Ids <- MCIds
    Frames <- MCServiceFrames
    NoFrame = NoFrame
    NoId = "-"
    QueueCapacity = 1
    PendingCapacity = 2
    MaxAttempts = 1
    MaxSequence = 4
    Tokens <- MCTokens
    NoWorker = NoWorker
    Releases <- MCServiceReleases
    NoRelease = NoRelease
    InitialRelease = "r1"
    Accepts <- MCReadsForward
    Catalogs = {"c0", "c1", "c2"}
    NoCatalog = NoCatalog
    CatalogOf <- MCServiceCatalog
    Declared <- MCDeclared
    JournalCapacity = 2
    ClientFrames = 3
    Faults = 2
    Callbacks = 0
    Publications = 2
SPECIFICATION FairServiceSpec
CHECK_DEADLOCK FALSE
PROPERTIES
    RequestTermination
    RolloverProgress
    ServiceResumes
