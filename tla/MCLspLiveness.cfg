SPECIFICATION FairSpec
CONSTANTS
    Uris = {u1, u2}
    Ids = {q1, q2}
    Kinds = {"references"}
    Workers = {w1, w2}
    MaxPending = 1
    MaxBytes = 2
    Size <- MCSize
    MaxRev = 2
    MaxEpoch = 3
    None = None
    Empty = Empty
CONSTRAINT FewChanges
PROPERTIES
    EveryQueryAnswered
CHECK_DEADLOCK FALSE
