SPECIFICATION QuerySpec
CONSTANTS
    Entries <- TwoEntries
    Placeholder = "locker"
    MaxDeliver = 1
    MaxFaults = 0
    Subjects <- FirstSubject
    Limits <- SomeLimits
    NoLimit = NoLimit
    NoType = NoType
    Ranges <- SomeRanges
    NoTime = NoTime
    TypeOrder <- TypesInOrder
    MaxReads = 0
INVARIANTS
    TotalEvidenceCount
CHECK_DEADLOCK FALSE
