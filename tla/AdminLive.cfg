SPECIFICATION FairSpec
CONSTANTS
    Registrations = {g1, g2}
    Modifications = {m1}
    Lists = {k1}
    NoList = NoList
    Faults <- AllFaults
PROPERTIES
    RequestsEnd
CHECK_DEADLOCK FALSE
