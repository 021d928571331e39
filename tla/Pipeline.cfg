SPECIFICATION Spec
CONSTANTS
    Subjects = {s1, s2}
    Jobs = {j1, j2}
    Submissions = {b1}
    Registration = Registration
    TrustChange = TrustChange
    NoReceipt = NoReceipt
    NoJob = NoJob
    MaxDeliver = 3
    Faults <- AllFaults
    MaxFaults = 3
    MaxTrustSeals = 1
SYMMETRY Symmetry
INVARIANTS
    TypeOK
    AckedIsSealed
    IndexSound
    SealedOnce
    EventSound
    ExhaustionNeedsFaults
    SilenceNeedsFaults
CHECK_DEADLOCK FALSE
