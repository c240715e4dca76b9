CONSTANTS
    Ids <- MCIds
    Frames <- MCSafetyFrames
    NoFrame = NoFrame
    NoId = "-"
    QueueCapacity = 2
    PendingCapacity = 2
    MaxAttempts = 1
    MaxSequence = 4
    Tokens <- MCTokens
    NoWorker = NoWorker
    Releases <- MCReleases
    NoRelease = NoRelease
    InitialRelease = "r1"
    Accepts <- MCReads
    Catalogs = {"c0", "c1", "c2"}
    NoCatalog = NoCatalog
    CatalogOf <- MCChangedCatalog
    Declared <- MCDeclared
    JournalCapacity = 2
    ClientFrames = 3
    Faults = 2
    Callbacks = 1
    Publications = 1
SPECIFICATION EitherSpec
CHECK_DEADLOCK FALSE
INVARIANTS
    TypeOK
    GenerationPinned
    NoSecondReply
    
    CatalogCoherence
    ConversationOwned
    FenceHasCause
    OnlyRepeatable
PROPERTIES
    
    ForgottenAreLists
