SPECIFICATION QueryFairSpec
CONSTANTS
    Entries <- TwoSubjects
    Placeholder = "locker"
    MaxDeliver = 2
    MaxFaults = 1
    Subjects <- BothSubjects
    Limits <- SomeLimits
    NoLimit = NoLimit
    NoType = NoType
    Ranges <- SomeRanges
    NoTime = NoTime
    TypeOrder <- TypesInOrder
    MaxReads = 0
INVARIANTS
    TypeOK
    LoadedIsInGraph
    NothingInvented
    AttributedToSubmitter
    EndpointsAgree
    CoverageComplete
PROPERTIES
    Converges
CHECK_DEADLOCK FALSE
