SPECIFICATION QuerySpec
CONSTANTS
    Entries <- Relabelling
    Placeholder = "locker"
    MaxDeliver = 1
    MaxFaults = 0
    Subjects <- FirstSubject
    Limits <- SomeLimits
    NoLimit = NoLimit
    NoType = NoType
    Ranges <- SomeRanges
    NoTime = NoTime
    TypeOrder <- TypesInOrder
    MaxReads = 1
INVARIANTS
    NoDanglingReference
    ModelComplete
    PagesComplete
CHECK_DEADLOCK FALSE
