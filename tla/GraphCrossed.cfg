SPECIFICATION QuerySpec
CONSTANTS
    Entries <- SameIndex
    Placeholder = "locker"
    MaxDeliver = 1
    MaxFaults = 0
    Subjects <- BothSubjects
    Limits <- SomeLimits
    NoLimit = NoLimit
    NoType = NoType
    Ranges <- SomeRanges
    NoTime = NoTime
    TypeOrder <- TypesInOrder
    MaxReads = 0
INVARIANTS
    ListedIsItsOwn
CHECK_DEADLOCK FALSE
