SPECIFICATION FairSpec
CONSTANTS
    Uris = {u1, u2}
    Ids = {}
    Kinds = {"document", "links", "workspace"}
    Workers = {w1, w2}
    MaxPending = 1
    MaxBytes = 2
    Size <- MCSize
    MaxRev = 3
    MaxEpoch = 4
    None = None
    Empty = Empty
CONSTRAINT ManyChanges
INVARIANTS
    DiagnosticsCovered
    ClosedIsRetracted
PROPERTIES
    DiagnosticsConverge
CHECK_DEADLOCK FALSE
