CONSTANTS
    Ids <- MCIds
    Frames <- MCFrames
    NoFrame = NoFrame
    NoId = "-"
    QueueCapacity = 2
    PendingCapacity = 3
    MaxAttempts = 1
    MaxSequence = 3
SPECIFICATION Spec
INVARIANTS
    TypeOK
    NoSilentDrop
    AttemptsAreDispatches
    BoundedDispatch
    Restorable
PROPERTIES
    AuthorizedRepetition
    SingleTerminalOutcome
    OrderedRecovery
    ImplementsInvocationLaw
