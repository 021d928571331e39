SPECIFICATION Spec
CONSTANTS
    Services = {"gateway", "locker"}
    Subjects = {"s1", "s2"}
    Requests = {"r1", "r2", "r3"}
    Asks <- AllAsks
    Configs <- SomeConfigs
    SchemaTypes = {"Policy", "Other"}
    MaxStarts = 2
    MaxFaults = 1
INVARIANTS
    TypeOK
    PublishedWasTrusted
    OnlyAdmitted
    TrustedIsHeard
    LabelIsChecked
CHECK_DEADLOCK FALSE
