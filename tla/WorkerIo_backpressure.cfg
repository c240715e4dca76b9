CONSTANTS
    EventCapacity = 1
    PendingCapacity = 2
    MailboxCapacity = 2
    PipeCapacity = 1
    Requests = 2
    Others = 4
    Notices = 3
    Faults = 0
    Retirements = 0
SPECIFICATION Spec
CHECK_DEADLOCK FALSE
PROPERTIES
    SendCompletes
