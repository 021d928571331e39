SPECIFICATION Spec
CONSTANTS
    Registrations = {g1, g2}
    Modifications = {m1, m2}
    Lists = {k1}
    NoList = NoList
    Faults <- AllFaults
SYMMETRY Symmetry
INVARIANTS
    RegisteredInOrder
    NoLostUpdate
    SealedWasWritten
    OneRegistration
CHECK_DEADLOCK FALSE
