SPECIFICATION Spec
CONSTANTS
    Uris = {u1, u2}
    Ids = {q1, q2}
    Kinds = {"document", "links", "workspace"}
    Workers = {w1, w2}
    MaxPending = 2
    MaxBytes = 3
    Size <- MCSize
    MaxRev = 2
    MaxEpoch = 3
    None = None
    Empty = Empty
CONSTRAINT FewChanges
SYMMETRY Symmetry
INVARIANTS
    AnsweredOnce
    BudgetIsExact
    OneTaskPerScope
    LiveWorkIsCurrent
PROPERTIES SilentAfterShutdown ImplementsAtomicService
CHECK_DEADLOCK FALSE
