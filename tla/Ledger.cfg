SPECIFICATION Spec
CONSTANTS
    r1 = r1
    r2 = r2
    d1 = d1
    d2 = d2
    d3 = d3
    Receipts <- MCReceipts
    Digests <- MCDigests
    SHA256Hex <- MCSHA256Hex
    NoReceipt = NoReceipt
    Callers = {c1, c2}
    EntryBundleWidth = 2
    AsyncIntegration = TRUE
    MaxEntries = 3
    MaxFailures = 2
SYMMETRY Symmetry
INVARIANTS
    TypeOK
    IndexSound
    SealExact
    IndexComplete
    ReadExact
    IntegratedIsReadable
    OneSigner
PROPERTY ImplementsWORM
