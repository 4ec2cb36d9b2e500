SPECIFICATION Spec
CONSTANTS
    Uris = {u1}
    Texts = {t1, t2}
    Addrs = {a1, a2, a3, a4}
    Workers = {w1, w2}
    MaxVersion = 2
    MaxRev = 4
    NoDoc = NoDoc
    NoTask = NoTask
    NoEntry = NoEntry
    None = None
    Free = Free
SYMMETRY Symmetry
INVARIANTS
    TextIsOfRevision
    IdentityIsRevision
    SummaryOfItsBuffer
PROPERTY ImplementsRevisionStore
CHECK_DEADLOCK FALSE
