CONSTANTS
    Ids <- MCIds
    Frames <- MCSessionFrames
    NoFrame = NoFrame
    NoId = "-"
    QueueCapacity = 1
    PendingCapacity = 2
    MaxAttempts = 1
    MaxSequence = 2
SPECIFICATION Spec
INVARIANTS
    SnapshotRestores
