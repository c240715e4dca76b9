CONSTANTS
    Hosts <- MCHosts
    NoHost = NoHost
    SessionOf <- MCSessionOf
    Releases <- MCReleases
    NoRelease = NoRelease
    InitialRelease = "r1"
    MaxFiles = 0
    Frames = 2
    Faults = 1
    Publications = 2
SPECIFICATION FairSpec
CHECK_DEADLOCK FALSE
INVARIANTS
    OneReader
    SessionContinuity
    SessionSurvives
PROPERTIES
    HandoffEnds
