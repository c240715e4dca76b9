CONSTANTS
    EventCapacity = 1
    PendingCapacity = 2
    MailboxCapacity = 2
    PipeCapacity = 1
    Requests = 3
    Others = 4
    Notices = 2
    Faults = 1
    Retirements = 1
SPECIFICATION MCSpec
CHECK_DEADLOCK FALSE
INVARIANTS
    RequestsFit
    
PROPERTIES
    RetirementCompletes
    RequestsProgress
