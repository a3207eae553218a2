CONSTANTS
    MaxAttempts = 2
    MaxSteps = 2
    MaxRepairs = 1
    MaxConsults = 1
    MaxWorks = 1
    Replies <- SomeReplies
    Origins <- SomeOrigins
    Faults = {"kill", "model", "assistant", "db"}
    MaxFaults = 1
SPECIFICATION FairSpec
CHECK_DEADLOCK FALSE
INVARIANTS Accounted
PROPERTIES RefinesProtocol LivedIsKept AttemptEnds
