SPECIFICATION FairSpec
CONSTANTS
    Subjects = {s1, s2}
    Jobs = {j1, j2}
    Submissions = {b1}
    Registration = Registration
    TrustChange = TrustChange
    NoReceipt = NoReceipt
    NoJob = NoJob
    MaxDeliver = 5
    Faults <- Recoverable
    MaxFaults = 4
    MaxTrustSeals = 0
PROPERTIES
    ImplementsPromise
    AcceptedIsSealed
CHECK_DEADLOCK FALSE
